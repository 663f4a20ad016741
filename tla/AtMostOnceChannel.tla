-------------------------- MODULE AtMostOnceChannel --------------------------
(***************************************************************************)
(* What store-and-forward publishing promises its caller: an accepted      *)
(* message is delivered at most once, and it is lost only when more than   *)
(* Capacity messages are outstanding.  Order is not promised.              *)
(***************************************************************************)
EXTENDS Naturals, Sequences, FiniteSets

CONSTANTS Messages, Capacity

VARIABLES pending,    \* accepted, neither delivered nor lost
          delivered,  \* what the broker was given, in order
          lost        \* evicted from a full buffer

vars == <<pending, delivered, lost>>

Fresh(m) ==
  m \notin pending \cup lost \cup {delivered[i] : i \in DOMAIN delivered}

Init ==
  /\ pending = {}
  /\ delivered = <<>>
  /\ lost = {}

Accept(m) ==
  /\ Fresh(m)
  /\ pending' = pending \cup {m}
  /\ UNCHANGED <<delivered, lost>>

Deliver(m) ==
  /\ m \in pending
  /\ pending' = pending \ {m}
  /\ delivered' = Append(delivered, m)
  /\ UNCHANGED lost

Lose(m) ==
  /\ m \in pending
  /\ Cardinality(pending) > Capacity
  /\ pending' = pending \ {m}
  /\ lost' = lost \cup {m}
  /\ UNCHANGED delivered

Next == \E m \in Messages : Accept(m) \/ Deliver(m) \/ Lose(m)

Spec == Init /\ [][Next]_vars
=============================================================================
