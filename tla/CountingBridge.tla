--------------------------- MODULE CountingBridge ---------------------------
(***************************************************************************)
(* What one direction of a gateway promises, whichever transport it        *)
(* bridges to: it forwards only what arrived, each item at most once and   *)
(* for good, and its counter runs behind what was forwarded but catches    *)
(* up.  An item that arrives may also be refused, or lost on a failure.    *)
(***************************************************************************)
EXTENDS Naturals, Sequences, Functions

CONSTANT Items

VARIABLES arrived,    \* the items the gateway was given
          forwarded,  \* the items it handed on, in their order
          counted     \* its message counter

vars == <<arrived, forwarded, counted>>

Init == arrived = {} /\ forwarded = <<>> /\ counted = 0

\* Items arrive and are forwarded, in one step or in several; what is forwarded
\* may be counted in the same step.
Progress ==
  /\ arrived \subseteq arrived' /\ arrived' \subseteq Items
  /\ Len(forwarded) <= Len(forwarded')
  /\ SubSeq(forwarded', 1, Len(forwarded)) = forwarded
  /\ IsInjective(forwarded')
  /\ Range(forwarded') \subseteq arrived'
  /\ counted' \in counted .. Len(forwarded')

\* The counter takes up one of the items it is behind.
Count ==
  /\ counted < Len(forwarded)
  /\ counted' = counted + 1
  /\ UNCHANGED <<arrived, forwarded>>

Next == Progress \/ Count

Safety == Init /\ [][Next]_vars

Spec == Safety /\ WF_vars(Count)
=============================================================================
