--------------------------- MODULE ServiceMappings ---------------------------
(***************************************************************************)
(* The routing table every gateway inherits from GatewayBase: a vector of  *)
(* ServiceMapping entries, searched from the front, each with a direction  *)
(* that says which way it forwards.  A pointer into the vector is modelled *)
(* by the index it points to, nullptr by 0.                                *)
(***************************************************************************)
EXTENDS Naturals, Sequences, SequencesExt

GatewayDirection == {"SOMEIP_TO_EXTERNAL", "EXTERNAL_TO_SOMEIP", "BIDIRECTIONAL"}

\* The fields of a ServiceMapping that routing reads.
ServiceMapping(Services, Instances) ==
  [service : Services, instance : Instances, direction : GatewayDirection]

should_forward_to_external(m) ==
  m.direction \in {"SOMEIP_TO_EXTERNAL", "BIDIRECTIONAL"}

should_forward_to_someip(m) ==
  m.direction \in {"EXTERNAL_TO_SOMEIP", "BIDIRECTIONAL"}

\* The first mapping among those that satisfy the predicate, or nullptr.
find_mapping_if(mappings, satisfying) ==
  SelectInSeq(mappings, LAMBDA m : m \in satisfying)

find_mapping_for_service(mappings, service, instance) ==
  SelectInSeq(mappings, LAMBDA m : m.service = service /\ m.instance = instance)
=============================================================================
