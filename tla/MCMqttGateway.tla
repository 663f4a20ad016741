---------------------------- MODULE MCMqttGateway ----------------------------
(***************************************************************************)
(* Instances of MqttGateway for TLC.  Service 1 is mapped at the default   *)
(* instance, service 2 only at instance 1 (the fallback), service 3 is     *)
(* inbound only and service 4 is not mapped.                               *)
(***************************************************************************)
EXTENDS MqttGateway

CONSTANTS udpThread, eventThread, appThread

MCSource == [r \in Receivers |->
  CASE r = udpThread -> "udp" [] r = eventThread -> "event" [] OTHER -> "app"]

MCMappings ==
  << [service |-> 3, instance |-> 7, direction |-> "EXTERNAL_TO_SOMEIP"],
     [service |-> 1, instance |-> 7, direction |-> "BIDIRECTIONAL"],
     [service |-> 1, instance |-> 1, direction |-> "EXTERNAL_TO_SOMEIP"],
     [service |-> 2, instance |-> 1, direction |-> "SOMEIP_TO_EXTERNAL"] >>

Msg(i, s, ok) == [id |-> i, service |-> s, e2e_ok |-> ok]

\* Two messages that are forwarded, one of them through the fallback, and one that
\* fails its E2E check.
MCMessages == {Msg(1, 1, TRUE), Msg(2, 2, TRUE), Msg(3, 1, FALSE)}
=============================================================================
