-------------------------- MODULE MCIceoryx2Gateway --------------------------
(***************************************************************************)
(* Instances of Iceoryx2Gateway for TLC.  Two mappings of service 1 share  *)
(* an event group; the mapping of service 2 has instance 3 only.           *)
(***************************************************************************)
EXTENDS Iceoryx2Gateway

Mapping(s, i, d, gs) == [service |-> s, instance |-> i, direction |-> d, groups |-> gs]

MCMappings == [g \in Gateways |->
  << Mapping(1, 1, "BIDIRECTIONAL", {1}),
     Mapping(1, 1, "SOMEIP_TO_EXTERNAL", {1, 2}),
     Mapping(2, 3, "EXTERNAL_TO_SOMEIP", {1}) >>]

MCMessages == {[id |-> 1, service |-> 1]}
MCEvents == {[id |-> 3, group |-> <<1, 1, 1>>]}
MCCalls == {[id |-> 4, service |-> 2]}

Envelope(n, s, i, t, ok) == [id |-> n, service |-> s, instance |-> i, type |-> t, valid |-> ok]
MCEnvelopes ==
  { Envelope(11, 1, 1, "NOTIFICATION", TRUE), Envelope(12, 2, 3, "REQUEST", TRUE),
    Envelope(13, 1, 1, "NOTIFICATION", FALSE) }
FallbackEnvelopes == { Envelope(11, 2, 1, "NOTIFICATION", TRUE) }
=============================================================================
