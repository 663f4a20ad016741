---------------------------- MODULE MCDbusGateway ----------------------------
(***************************************************************************)
(* Instances of DbusGateway for TLC.  Service 0xa001 goes both ways and is *)
(* found through the fallback instance; service 0x4500, that of the        *)
(* README's example, goes only to D-Bus.                                   *)
(***************************************************************************)
EXTENDS DbusGateway

Prefix == <<<<"com">>, <<"opensomeip">>>>

MCMappings ==
  << [service |-> 40961, instance |-> 1, direction |-> "BIDIRECTIONAL"],
     [service |-> 17664, instance |-> 7, direction |-> "SOMEIP_TO_EXTERNAL"] >>

Msg(i, s, t) == [id |-> i, service |-> s, type |-> t]
MCMessages ==
  { Msg(1, 40961, NOTIFICATION), Msg(2, 40961, REQUEST), Msg(3, 17664, NOTIFICATION) }

Call(i, s, via) == [id |-> i, service |-> s, instance |-> IF s = 40961 THEN 1 ELSE 7, via |-> via]
MCCalls == {Call(10, 40961, "dbus"), Call(11, 40961, "host"), Call(12, 17664, "host")}
=============================================================================
