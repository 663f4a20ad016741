---------------------------- MODULE MCGatewayBase ----------------------------
(***************************************************************************)
(* Instances of GatewayBase for TLC: two mappings of the same service that *)
(* differ in direction, and one of another service.                        *)
(***************************************************************************)
EXTENDS GatewayBase, TLC

MCCandidates ==
  { [service |-> 1, instance |-> 1, direction |-> "BIDIRECTIONAL"],
    [service |-> 1, instance |-> 1, direction |-> "EXTERNAL_TO_SOMEIP"],
    [service |-> 2, instance |-> 1, direction |-> "BIDIRECTIONAL"] }

HandlerSymmetry == Permutations(Handlers)
=============================================================================
