--------------------------- MODULE MCZenohGateway ---------------------------
(***************************************************************************)
(* Instances of ZenohGateway for TLC.                                      *)
(***************************************************************************)
EXTENDS ZenohGateway, TLC

MCMappings ==
  << [service |-> 1, instance |-> 1, direction |-> "BIDIRECTIONAL"],
     [service |-> 2, instance |-> 1, direction |-> "SOMEIP_TO_EXTERNAL"] >>
BothWays == << [service |-> 1, instance |-> 1, direction |-> "BIDIRECTIONAL"] >>

OneUdpMessage == {[id |-> 1, service |-> 1]}
MCHostMessages == {[id |-> 3, service |-> 2]}
MCEvents == {[id |-> 4, mapping |-> 1]}
MCCalls == {[id |-> 5, service |-> 1]}
MCSamples == {[id |-> 6, service |-> 1, instance |-> 1], [id |-> 7, service |-> 2, instance |-> 3]}
MCQueries == {[id |-> 8]}

\* The controllers are alike.
ControllerSymmetry == Permutations(Controllers)
=============================================================================
