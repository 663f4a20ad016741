---------------------------- MODULE MCGrpcGateway ----------------------------
(***************************************************************************)
(* Instances of GrpcGateway for TLC: the streams ask for event groups of   *)
(* instance 0, which broadcasts reach.  Cut to 16 bits they are the same   *)
(* group.                                                                  *)
(***************************************************************************)
EXTENDS GrpcGateway

CONSTANT Wide   \* the streams whose service id has a 17th bit

EventGroup(service) == [service |-> service, instance |-> 0, group |-> 1]
MCKey == [s \in Streams |-> EventGroup(IF s \in Wide THEN 65537 ELSE 1)]
TwoEvents == {[id |-> 1, key |-> EventGroup(1)], [id |-> 2, key |-> EventGroup(1)]}
=============================================================================
