-------------------------- MODULE Ros2GatewayProofs --------------------------
(***************************************************************************)
(* What holds of Ros2Gateway for every set of threads, messages, samples   *)
(* and mappings: a running gateway has publishers of its current node      *)
(* only, and both directions are CountingBridges for what reaches the      *)
(* other side.                                                             *)
(***************************************************************************)
EXTENDS Ros2Gateway, FiniteSetTheorems, TLAPS

-----------------------------------------------------------------------------
(* The publishers and the node.                                            *)

\* Where a receiver is inside on_someip_message.
Working == {"check", "find", "insert", "publish", "emit", "record", "unheard"}

\* stop() joins the receivers before it clears running_, so none of them works while
\* start() clears the map and makes the node; from then on the map only gets
\* publishers of that node, until stop() releases it.
NodeInv ==
  /\ DOMAIN pubs = Topics /\ DOMAIN pc = Threads /\ DOMAIN handle = Receivers
  /\ ~running => \A r \in Receivers : pc[r] \notin Working
  /\ control \in {"clear_pubs", "make_node", "set_running"} => ~running
  /\ control = "clear_running" => ~udp /\ \A r \in Receivers : pc[r] \notin Working
  /\ control = "make_node" => \A t \in Topics : pubs[t] = 0
  /\ control = "set_running" => \A t \in Topics : pubs[t] \in {0, node}
  /\ control \in {"idle", "release_node"} =>
       \A r \in Receivers : pc[r] = "insert" => handle[r] = node
  /\ PublishersAreCurrent

\* A step that leaves the lifecycle and the map alone, enters on_someip_message only
\* while the gateway runs, and makes a publisher only for the node there is.
LEMMA NodeSame ==
  ASSUME NodeInv, UNCHANGED <<running, udp, control, node, pubs>>,
         DOMAIN pc' = DOMAIN pc, DOMAIN handle' = DOMAIN handle,
         \A r \in Receivers : pc'[r] \in Working => pc[r] \in Working \/ (running /\ udp),
         \A r \in Receivers : pc'[r] = "insert" =>
           handle'[r] = node \/ (pc[r] = "insert" /\ handle'[r] = handle[r])
  PROVE  NodeInv'
BY DEF NodeInv, PublishersAreCurrent

\* A step of one thread to a label that is not "insert".
LEMMA NodeMoves ==
  ASSUME NodeInv, UNCHANGED <<running, udp, control, node, pubs>>, NEW t \in Threads, NEW l,
         pc' = [pc EXCEPT ![t] = l], l # "insert",
         handle' = handle \/ \E x : handle' = [handle EXCEPT ![t] = x],
         l \in Working => pc[t] \in Working \/ (running /\ udp)
  PROVE  NodeInv'
<1>1. DOMAIN pc = Threads /\ DOMAIN handle = Receivers /\ Receivers \subseteq Threads
  BY DEF NodeInv, Threads
<1>2. DOMAIN pc' = DOMAIN pc /\ pc'[t] = l /\ \A r \in Threads \ {t} : pc'[r] = pc[r]
  BY <1>1
<1>3. DOMAIN handle' = DOMAIN handle /\ \A r \in Receivers \ {t} : handle'[r] = handle[r]
  BY <1>1
<1> QED BY <1>1, <1>2, <1>3, NodeSame

\* A receiver makes a publisher of the node there is, or finds one.
LEMMA NodeFind ==
  ASSUME NodeInv, NEW r \in Receivers, FindPublisher(r)
  PROVE  NodeInv'
<1>1. /\ pc[r] = "find" /\ UNCHANGED <<running, udp, control, node, pubs>>
      /\ \/ /\ pc' = [pc EXCEPT ![r] = "publish"] \/ pc' = [pc EXCEPT ![r] = "thrown"]
               \/ pc' = [pc EXCEPT ![r] = "crashed"]
            /\ handle' = handle \/ \E x : handle' = [handle EXCEPT ![r] = x]
         \/ pc' = [pc EXCEPT ![r] = "insert"] /\ handle' = [handle EXCEPT ![r] = node]
  BY DEF FindPublisher, Goto, ros
<1>2. r \in Threads /\ pc[r] \in Working
  BY <1>1 DEF Threads, Working
<1>3. CASE /\ pc' = [pc EXCEPT ![r] = "publish"] \/ pc' = [pc EXCEPT ![r] = "thrown"]
              \/ pc' = [pc EXCEPT ![r] = "crashed"]
           /\ handle' = handle \/ \E x : handle' = [handle EXCEPT ![r] = x]
  BY <1>1, <1>2, <1>3, NodeMoves
<1>4. CASE pc' = [pc EXCEPT ![r] = "insert"] /\ handle' = [handle EXCEPT ![r] = node]
  <2>1. /\ DOMAIN pc' = DOMAIN pc /\ DOMAIN handle' = DOMAIN handle
        /\ \A q \in Receivers \ {r} : pc'[q] = pc[q] /\ handle'[q] = handle[q]
        /\ handle'[r] = node
    BY <1>4 DEF NodeInv, Threads
  <2> QED BY <1>1, <1>2, <2>1, NodeSame
<1> QED BY <1>1, <1>3, <1>4

\* What a receiver adds to the map of a running gateway belongs to its node.
LEMMA NodeInsert ==
  ASSUME NodeInv, NEW r \in Receivers, InsertPublisher(r)
  PROVE  NodeInv'
<1>1. /\ pc[r] = "insert" /\ UNCHANGED <<running, udp, control, node>>
      /\ pc' = [pc EXCEPT ![r] = "publish"]
      /\ \E x : handle' = [handle EXCEPT ![r] = x]
      /\ \E x \in {pubs[TopicOf(r)], handle[r]} : pubs' = [pubs EXCEPT ![TopicOf(r)] = x]
  BY Zenon DEF InsertPublisher, Goto
<1>2. running /\ control \notin {"clear_pubs", "make_node", "set_running", "clear_running"}
  BY <1>1 DEF NodeInv, Working
<1>3. DOMAIN pubs' = Topics /\ \A t \in Topics : pubs'[t] \in {pubs[t], handle[r]}
  BY <1>1 DEF NodeInv
<1>4. /\ DOMAIN pc' = Threads /\ DOMAIN handle' = Receivers /\ pc'[r] = "publish"
      /\ \A q \in Receivers \ {r} : pc'[q] = pc[q] /\ handle'[q] = handle[q]
  BY <1>1 DEF NodeInv, Threads
<1>5. PublishersAreCurrent'
  BY <1>1, <1>2, <1>3 DEF NodeInv, PublishersAreCurrent
<1>6. control \in {"idle", "release_node"} =>
        \A q \in Receivers : pc'[q] = "insert" => handle'[q] = node
  BY <1>4 DEF NodeInv
<1> QED BY <1>1, <1>2, <1>3, <1>4, <1>5, <1>6 DEF NodeInv

\* Every step keeps this, if the host never starts a running gateway.
LEMMA NodeNext ==
  ASSUME ~StartsWhileRunning, NodeInv, [Next]_vars
  PROVE  NodeInv'
<1> USE DEF outbound
<1>1. CASE StartUdp
  BY <1>1 DEF NodeInv, PublishersAreCurrent, StartUdp, ros
<1>2. CASE StartClear
  BY <1>2 DEF NodeInv, PublishersAreCurrent, StartClear
<1>3. CASE StartNode
  BY <1>3 DEF NodeInv, PublishersAreCurrent, StartNode, Working
<1>4. CASE StartRunning
  BY <1>4 DEF NodeInv, PublishersAreCurrent, StartRunning, ros, Working
<1>5. CASE StopClear
  BY <1>5 DEF NodeInv, PublishersAreCurrent, StopClear
<1>6. CASE StopNode
  BY <1>6 DEF NodeInv, PublishersAreCurrent, StopNode
<1>7. CASE StopUdp
  BY <1>7 DEF NodeInv, PublishersAreCurrent, StopUdp, ros, Working
<1>8. CASE StopRunning
  BY <1>8 DEF NodeInv, PublishersAreCurrent, StopRunning, ros, Working
<1>9. ASSUME NEW r \in Receivers, NEW m \in Messages, OnSomeipMessage(r, m) PROVE NodeInv'
  <2>1. /\ UNCHANGED <<running, udp, control, node, pubs, handle>>
        /\ pc' = pc \/ (pc' = [pc EXCEPT ![r] = "check"] /\ running /\ udp)
    BY <1>9 DEF OnSomeipMessage, Goto, ros
  <2>2. CASE pc' = pc
    BY <2>1, <2>2, NodeSame
  <2>3. CASE pc' = [pc EXCEPT ![r] = "check"] /\ running /\ udp
    BY <2>1, <2>3, NodeMoves, Zenon DEF Threads
  <2> QED BY <2>1, <2>2, <2>3
<1>10. ASSUME NEW r \in Receivers, Handle(r) PROVE NodeInv'
  <2>1. CASE FindPublisher(r)
    BY <2>1, NodeFind
  <2>2. CASE InsertPublisher(r)
    BY <2>2, NodeInsert
  <2>3. CASE CheckNode(r) \/ Publish(r) \/ emit_ros2_publish(r) \/ Record(r)
    <3>1. /\ pc[r] \in Working /\ UNCHANGED <<running, udp, control, node, pubs>>
          /\ handle' = handle \/ \E x : handle' = [handle EXCEPT ![r] = x]
          /\ \E l : l # "insert" /\ pc' = [pc EXCEPT ![r] = l]
      BY <2>3, Zenon DEF CheckNode, Publish, HandOver, emit_ros2_publish, Record, Returns, Goto, ros,
                  Working
    <3> QED BY <3>1, NodeMoves, Zenon DEF Threads
  <2> QED BY <1>10, <2>1, <2>2, <2>3 DEF Handle
<1>11. ASSUME NEW x \in Samples, SampleArrives(x) PROVE NodeInv'
  BY <1>11, NodeSame DEF SampleArrives, ros
<1>12. ASSUME NEW t \in Injectors, NEW x \in Samples, InjectRos2Message(t, x) PROVE NodeInv'
  <2>1. /\ UNCHANGED <<running, udp, control, node, pubs, handle>>
        /\ pc' = pc \/ pc' = [pc EXCEPT ![t] = "send"]
    BY <1>12 DEF InjectRos2Message, Goto, ros
  <2>2. CASE pc' = pc
    BY <2>1, <2>2, NodeSame
  <2>3. CASE pc' = [pc EXCEPT ![t] = "send"]
    BY <2>1, <2>3, NodeMoves, Zenon DEF Threads, Working
  <2> QED BY <2>1, <2>2, <2>3
<1>13. ASSUME NEW t \in Injectors, Inject(t) PROVE NodeInv'
  <2>1. /\ UNCHANGED <<running, udp, control, node, pubs, handle>>
        /\ \E l \in {"count", "lost", "idle"} : pc' = [pc EXCEPT ![t] = l]
    BY <1>13 DEF Inject, SendRequest, CountRequest, Goto, ros
  <2> QED BY <2>1, NodeMoves, Zenon DEF Threads, Working
<1>14. CASE UNCHANGED vars
  BY <1>14, NodeSame DEF vars, ros
<1> QED BY <1>1, <1>2, <1>3, <1>4, <1>5, <1>6, <1>7, <1>8, <1>9, <1>10, <1>11, <1>12,
           <1>13, <1>14, SMTT(20) DEF Next

\* A publisher that a late message added while stop() was clearing pubs_ does not
\* survive the next start, provided the host stops the gateway before it starts it
\* again.
THEOREM Ros2PublishersAreCurrent ==
  ASSUME ~StartsWhileRunning
  PROVE  Spec => []PublishersAreCurrent
<1>1. Init => NodeInv
  <2> SUFFICES ASSUME Init PROVE NodeInv
    OBVIOUS
  <2>1. \A r \in Receivers : pc[r] = "idle"
    BY DEF Init, Threads
  <2>2. /\ DOMAIN pubs = Topics /\ DOMAIN pc = Threads /\ DOMAIN handle = Receivers
        /\ running = FALSE /\ control = "idle"
    BY DEF Init
  <2> QED BY <2>1, <2>2 DEF NodeInv, PublishersAreCurrent, Working
<1>2. NodeInv /\ [Next]_vars => NodeInv'
  BY NodeNext
<1>3. NodeInv => PublishersAreCurrent
  BY DEF NodeInv
<1> QED BY <1>1, <1>2, <1>3, PTL DEF Spec

-----------------------------------------------------------------------------
(* One direction: threads H with an item it[h] each in hand, the items     *)
(* done, those that arrived A, the counter n and the threads L that have   *)
(* not counted yet.                                                        *)

\* An item is in one hand or done once, never both, and the counter is late by
\* the threads that have not counted yet.
Flow(it, H, done, A, n, L) ==
  /\ \A h, k \in H : it[h] = it[k] => h = k
  /\ \A h \in H : it[h] \in A /\ \A i \in DOMAIN done : done[i] # it[h]
  /\ \A i, j \in DOMAIN done : done[i] = done[j] => i = j
  /\ \A i \in DOMAIN done : done[i] \in A
  /\ n + Cardinality(L) = Len(done)

\* Items arrive elsewhere, and hands let go of theirs.
LEMMA FlowKept ==
  ASSUME NEW it, NEW H, NEW done, NEW A, NEW n, NEW L, Flow(it, H, done, A, n, L),
         NEW jt, NEW K, NEW B, K \subseteq H, \A h \in K : jt[h] = it[h], A \subseteq B
  PROVE  Flow(jt, K, done, B, n, L)
BY DEF Flow

\* A thread takes an item that had not arrived.
LEMMA FlowTake ==
  ASSUME NEW it, NEW H, NEW done, NEW A, NEW n, NEW L, Flow(it, H, done, A, n, L),
         NEW jt, NEW t, NEW x, x \notin A, t \notin H, jt[t] = x, \A h \in H : jt[h] = it[h]
  PROVE  Flow(jt, H \cup {t}, done, A \cup {x}, n, L)
BY DEF Flow

\* A thread is done with its item and has yet to count it.
LEMMA FlowDone ==
  ASSUME NEW it, NEW H, NEW S, NEW done \in Seq(S), NEW A, NEW n \in Nat, NEW L,
         Flow(it, H, done, A, n, L), NEW t \in H, it[t] \in S, t \notin L, IsFiniteSet(L)
  PROVE  Flow(it, H \ {t}, Append(done, it[t]), A, n, L \cup {t})
<1> DEFINE next == Append(done, it[t])
<1>1. /\ Len(next) = Len(done) + 1 /\ Len(done) \in Nat /\ DOMAIN done = 1 .. Len(done)
      /\ DOMAIN next = 1 .. Len(done) + 1 /\ next[Len(done) + 1] = it[t]
      /\ \A i \in 1 .. Len(done) : next[i] = done[i]
  OBVIOUS
<1> HIDE DEF next
<1>2. \A h \in H \ {t} : it[h] \in A /\ it[h] # it[t] /\ \A i \in DOMAIN next : next[i] # it[h]
  BY <1>1 DEF Flow
<1>3. \A i, j \in DOMAIN next : next[i] = next[j] => i = j
  <2> SUFFICES ASSUME NEW i \in DOMAIN next, NEW j \in DOMAIN next, next[i] = next[j]
               PROVE  i = j
    OBVIOUS
  <2>1. CASE i \in 1 .. Len(done) /\ j \in 1 .. Len(done)
    BY <1>1, <2>1 DEF Flow
  <2>2. CASE i = Len(done) + 1 \/ j = Len(done) + 1
    BY <1>1, <2>2 DEF Flow
  <2> QED BY <1>1, <2>1, <2>2
<1>4. \A i \in DOMAIN next : next[i] \in A
  BY <1>1 DEF Flow
<1>5. Cardinality(L \cup {t}) = Cardinality(L) + 1 /\ Cardinality(L) \in Nat
  BY FS_AddElement, FS_CardinalityType
<1>6. n + Cardinality(L \cup {t}) = Len(next)
  BY <1>1, <1>5 DEF Flow
<1>7. \A h, k \in H \ {t} : it[h] = it[k] => h = k
  BY DEF Flow
<1>8. Flow(it, H \ {t}, next, A, n, L \cup {t})
  BY <1>2, <1>3, <1>4, <1>6, <1>7, Zenon DEF Flow
<1> QED BY <1>8 DEF next

\* A thread counts.
LEMMA FlowCount ==
  ASSUME NEW it, NEW H, NEW done, NEW A, NEW n \in Nat, NEW L, Flow(it, H, done, A, n, L),
         NEW jt, \A h \in H : jt[h] = it[h], NEW t \in L, IsFiniteSet(L)
  PROVE  Flow(jt, H, done, A, n + 1, L \ {t})
<1>1. Cardinality(L \ {t}) = Cardinality(L) - 1 /\ Cardinality(L) \in Nat
  BY FS_RemoveElement, FS_CardinalityType
<1> QED BY <1>1 DEF Flow

\* What the flow says of a step that is done with one item at most: it is a step
\* of a bridge.
LEMMA FlowProgress ==
  ASSUME NEW S, NEW done \in Seq(S), NEW more \in Seq(S),
         more = done \/ \E x \in S : more = Append(done, x),
         NEW it, NEW H, NEW A, NEW n \in Nat, NEW L, IsFiniteSet(L), Flow(it, H, more, A, n, L)
  PROVE  /\ Len(done) <= Len(more) /\ SubSeq(more, 1, Len(done)) = done
         /\ \A i, j \in DOMAIN more : more[i] = more[j] => i = j
         /\ \A i \in DOMAIN more : more[i] \in A
         /\ n <= Len(more)
<1>1. /\ Len(done) <= Len(more) /\ Len(done) \in Nat
      /\ \A i \in 1 .. Len(done) : more[i] = done[i]
  OBVIOUS
<1>2. SubSeq(more, 1, Len(done)) = done
  BY <1>1
<1>3. n <= Len(more)
  <2>1. Cardinality(L) \in Nat
    BY FS_CardinalityType
  <2> QED BY <2>1 DEF Flow
<1> QED BY <1>1, <1>2, <1>3 DEF Flow

\* The messages published, after one more.
LEMMA DoneAppend ==
  ASSUME NEW S, NEW q \in Seq(S), NEW w \in S
  PROVE  [i \in DOMAIN Append(q, w) |-> Append(q, w)[i].msg]
           = Append([i \in DOMAIN q |-> q[i].msg], w.msg)
OBVIOUS

-----------------------------------------------------------------------------
(* Both directions.                                                        *)

OutHands == {r \in Receivers : pc[r] \in {"check", "find", "insert", "publish", "emit"}}
OutLag == {r \in Receivers : pc[r] = "record"}
OutDone == [i \in DOMAIN published |-> published[i].msg]
OutCount == stats.to_external - missed.to_external
InHands == {t \in Injectors : pc[t] = "send"}
InLag == {t \in Injectors : pc[t] = "count"}
InCount == stats.to_someip - missed.to_someip

Published == [msg : Messages, via : {"node", "callback"}]
Counters == [to_external : Nat, to_someip : Nat, errors : Nat]
Missed == [to_external : Nat, to_someip : Nat]

\* The direction to ROS, and the direction to SOME/IP, but for what reaches nobody.
OutFlow == Flow(item, OutHands, OutDone, arrived \cap Messages, OutCount, OutLag)
InFlow == Flow(item, InHands, sent, arrived \cap Samples, InCount, InLag)

FlowTypes ==
  /\ DOMAIN pc = Threads /\ DOMAIN item = Threads
  /\ published \in Seq(Published) /\ sent \in Seq(Samples)
  /\ stats \in Counters /\ missed \in Missed
  /\ OutCount \in Nat /\ InCount \in Nat

FlowInv == FlowTypes /\ OutFlow /\ InFlow

\* The threads that have not counted yet are finitely many.
LEMMA LagFinite == IsFiniteSet(OutLag) /\ IsFiniteSet(InLag)
<1>1. OutLag \subseteq Threads /\ InLag \subseteq Threads
  BY DEF OutLag, InLag, Threads
<1> QED BY <1>1, ThreadsAssumption, FS_Subset

\* A step that leaves the threads, the items and the counter of the direction to
\* ROS alone keeps it.
LEMMA OutKept ==
  ASSUME OutFlow, OutHands' \subseteq OutHands, \A r \in OutHands' : item'[r] = item[r],
         OutLag' = OutLag, published' = published, arrived \subseteq arrived',
         OutCount' = OutCount
  PROVE  OutFlow'
<1>1. OutDone' = OutDone /\ arrived \cap Messages \subseteq arrived' \cap Messages
  BY DEF OutDone
<1> QED BY <1>1, FlowKept DEF OutFlow

\* The same for the direction to SOME/IP.
LEMMA InKept ==
  ASSUME InFlow, InHands' \subseteq InHands, \A t \in InHands' : item'[t] = item[t],
         InLag' = InLag, sent' = sent, arrived \subseteq arrived',
         InCount' = InCount
  PROVE  InFlow'
<1>1. arrived \cap Samples \subseteq arrived' \cap Samples
  OBVIOUS
<1> QED BY <1>1, FlowKept DEF InFlow

\* The lifecycle, and the samples of ROS, leave both directions alone.
LEMMA FlowSame ==
  ASSUME FlowInv, UNCHANGED <<pc, item, published, sent, counters>>, arrived \subseteq arrived'
  PROVE  FlowInv'
<1>1. FlowTypes' /\ OutCount' = OutCount /\ InCount' = InCount
  BY DEF FlowInv, FlowTypes, counters, OutCount, InCount
<1>2. /\ OutHands' = OutHands /\ OutLag' = OutLag
      /\ InHands' = InHands /\ InLag' = InLag
  BY DEF OutHands, OutLag, InHands, InLag
<1> QED BY <1>1, <1>2, OutKept, InKept DEF FlowInv

\* A step of a thread that is not in a request, and does not begin one, leaves the
\* direction to SOME/IP alone.
LEMMA InAside ==
  ASSUME FlowInv, NEW t, NEW l, pc[t] \notin {"send", "count"}, l \notin {"send", "count"},
         pc' = [pc EXCEPT ![t] = l],
         item' = item \/ \E x : item' = [item EXCEPT ![t] = x],
         sent' = sent, arrived \subseteq arrived', InCount' = InCount
  PROVE  InFlow'
<1>1. InHands' = InHands /\ InLag' = InLag
  BY DEF InHands, InLag, FlowInv, FlowTypes, Threads
<1>2. \A h \in InHands' : item'[h] = item[h]
  BY <1>1 DEF InHands, FlowInv, FlowTypes, Threads
<1> QED BY <1>1, <1>2, InKept DEF FlowInv

\* A step of a thread that has no message, and does not take one, leaves the
\* direction to ROS alone.
LEMMA OutAside ==
  ASSUME FlowInv, NEW t, NEW l,
         pc[t] \notin {"check", "find", "insert", "publish", "emit", "record"},
         l \notin {"check", "find", "insert", "publish", "emit", "record"},
         pc' = [pc EXCEPT ![t] = l],
         item' = item \/ \E x : item' = [item EXCEPT ![t] = x],
         published' = published, arrived \subseteq arrived',
         OutCount' = OutCount
  PROVE  OutFlow'
<1>1. OutHands' = OutHands /\ OutLag' = OutLag
  BY DEF OutHands, OutLag, FlowInv, FlowTypes, Threads
<1>2. \A h \in OutHands' : item'[h] = item[h]
  BY <1>1 DEF OutHands, FlowInv, FlowTypes, Threads
<1> QED BY <1>1, <1>2, OutKept DEF FlowInv

\* A message that is forwarded is in the hands of its receiver; one that is not, or
\* that E2E validation refuses, is dropped.
LEMMA FlowArrives ==
  ASSUME FlowInv, NEW r \in Receivers, NEW m \in Messages, OnSomeipMessage(r, m)
  PROVE  FlowInv'
<1>1. /\ pc[r] = "idle" /\ m \notin arrived /\ arrived' = arrived \cup {m}
      /\ published' = published /\ sent' = sent
  BY DEF OnSomeipMessage, inbound
<1>2. \/ UNCHANGED <<item, counters, pc>>
      \/ item' = [item EXCEPT ![r] = m] /\ Goto(r, "check") /\ UNCHANGED counters
      \/ stats' = [stats EXCEPT !.errors = @ + 1] /\ UNCHANGED <<missed, item, pc>>
  BY DEF OnSomeipMessage
<1>3. CASE UNCHANGED <<item, counters, pc>>
  BY <1>1, <1>3, FlowSame
<1>4. CASE item' = [item EXCEPT ![r] = m] /\ Goto(r, "check") /\ UNCHANGED counters
  <2>1. FlowTypes' /\ OutCount' = OutCount /\ InCount' = InCount
    BY <1>1, <1>4 DEF FlowInv, FlowTypes, Goto, counters, OutCount, InCount
  <2>2. InFlow'
    BY <1>1, <1>4, <2>1, InAside, ZenonT(30) DEF Goto
  <2>3. OutFlow'
    <3>1. /\ OutHands' = OutHands \cup {r} /\ r \notin OutHands /\ OutLag' = OutLag
          /\ item'[r] = m /\ \A h \in OutHands : item'[h] = item[h]
      BY <1>1, <1>4 DEF OutHands, OutLag, FlowInv, FlowTypes, Threads, Goto
    <3>2. /\ OutDone' = OutDone /\ m \notin arrived \cap Messages
          /\ arrived' \cap Messages = (arrived \cap Messages) \cup {m}
      BY <1>1 DEF OutDone
    <3>3. Flow(item', OutHands \cup {r}, OutDone, (arrived \cap Messages) \cup {m},
               OutCount, OutLag)
      BY <3>1, <3>2, FlowTake DEF FlowInv, OutFlow
    <3> QED BY <2>1, <3>1, <3>2, <3>3, SMTT(20) DEF OutFlow
  <2> QED BY <2>1, <2>2, <2>3 DEF FlowInv
<1>5. CASE stats' = [stats EXCEPT !.errors = @ + 1] /\ UNCHANGED <<missed, item, pc>>
  <2>0. /\ stats' \in Counters
        /\ stats'.to_external = stats.to_external /\ stats'.to_someip = stats.to_someip
    BY <1>5 DEF FlowInv, FlowTypes, Counters
  <2>1. FlowTypes' /\ OutCount' = OutCount /\ InCount' = InCount
    BY <1>1, <1>5, <2>0 DEF FlowInv, FlowTypes, OutCount, InCount
  <2>2. /\ OutHands' = OutHands /\ OutLag' = OutLag
        /\ InHands' = InHands /\ InLag' = InLag
    BY <1>5 DEF OutHands, OutLag, InHands, InLag
  <2> QED BY <1>1, <1>5, <2>1, <2>2, OutKept, InKept, SMTT(20) DEF FlowInv
<1> QED BY <1>2, <1>3, <1>4, <1>5

\* A receiver goes on with its message, or loses it.
LEMMA FlowMoves ==
  ASSUME FlowInv, NEW r \in Receivers,
         NEW l \in {"find", "insert", "emit", "publish", "unheard", "thrown", "crashed"},
         pc[r] \in {"check", "find", "insert", "publish", "emit"}, Goto(r, l),
         UNCHANGED <<item, published, sent, counters, arrived>>
  PROVE  FlowInv'
<1>1. FlowTypes' /\ OutCount' = OutCount /\ InCount' = InCount
  BY DEF FlowInv, FlowTypes, Goto, counters, OutCount, InCount
<1>2. OutHands' \subseteq OutHands /\ OutLag' = OutLag
  BY DEF OutHands, OutLag, FlowInv, FlowTypes, Threads, Goto
<1>3. OutFlow'
  BY <1>1, <1>2, OutKept DEF FlowInv
<1>4. InFlow'
  BY <1>1, InAside, Zenon DEF Goto
<1> QED BY <1>1, <1>3, <1>4 DEF FlowInv

\* A receiver publishes, through the node or the callback, and has yet to count.
LEMMA FlowHandsOver ==
  ASSUME FlowInv, NEW r \in Receivers, NEW via \in {"node", "callback"},
         pc[r] \in {"publish", "emit"}, HandOver(r, via), UNCHANGED <<item, sent, counters, arrived>>
  PROVE  FlowInv'
<1> DEFINE w == [msg |-> item[r], via |-> via]
<1>1. r \in OutHands /\ r \notin OutLag /\ IsFiniteSet(OutLag)
  <2>1. OutLag \subseteq Threads
    BY DEF OutLag, Threads
  <2> QED BY <2>1, ThreadsAssumption, FS_Subset DEF OutHands, OutLag
<1>2. item[r] \in Messages /\ w \in Published /\ w.msg = item[r]
  BY <1>1 DEF FlowInv, OutFlow, Flow, Published
<1>3. published' = Append(published, w) /\ pc' = [pc EXCEPT ![r] = "record"]
  BY DEF HandOver, Goto
<1> HIDE DEF w
<1>4. FlowTypes' /\ OutCount' = OutCount /\ InCount' = InCount
  BY <1>2, <1>3 DEF FlowInv, FlowTypes, counters, OutCount, InCount
<1>5. InFlow'
  BY <1>3, <1>4, InAside, Zenon
<1>6. OutDone' = Append(OutDone, item[r]) /\ OutDone \in Seq(Messages)
  <2>1. published \in Seq(Published)
    BY DEF FlowInv, FlowTypes
  <2>2. OutDone' = Append(OutDone, w.msg)
    BY <1>2, <1>3, <2>1, DoneAppend DEF OutDone
  <2>3. \A i \in 1 .. Len(published) : published[i] \in Published
    BY <2>1
  <2>4. \A i \in 1 .. Len(published) : published[i].msg \in Messages
    BY <2>3 DEF Published
  <2>5. DOMAIN published = 1 .. Len(published) /\ Len(published) \in Nat
    BY <2>1
  <2>6. OutDone \in Seq(Messages)
    BY <2>4, <2>5 DEF OutDone
  <2> QED BY <1>2, <2>2, <2>6
<1>7. OutHands' = OutHands \ {r} /\ OutLag' = OutLag \cup {r}
  BY <1>3 DEF OutHands, OutLag, FlowInv, FlowTypes, Threads
<1>8. Flow(item, OutHands \ {r}, Append(OutDone, item[r]), arrived \cap Messages,
           OutCount, OutLag \cup {r})
  <2>1. OutCount \in Nat
    BY DEF FlowInv, FlowTypes
  <2> QED BY <1>1, <1>2, <1>6, <2>1, FlowDone, ZenonT(30) DEF FlowInv, OutFlow
<1>9. OutFlow'
  BY <1>4, <1>6, <1>7, <1>8 DEF OutFlow
<1> QED BY <1>4, <1>5, <1>9 DEF FlowInv

\* A receiver counts what it published.
LEMMA FlowRecords ==
  ASSUME FlowInv, NEW r \in Receivers, Record(r)
  PROVE  FlowInv'
<1>1. /\ pc' = [pc EXCEPT ![r] = "idle"] /\ item' = [item EXCEPT ![r] = none]
      /\ stats' = [stats EXCEPT !.to_external = @ + 1] /\ UNCHANGED <<published, sent, arrived>>
      /\ \/ pc[r] = "record" /\ missed' = missed
         \/ pc[r] = "unheard" /\ missed' = [missed EXCEPT !.to_external = @ + 1]
  BY DEF Record, Returns, Goto, inbound
<1>2. /\ stats' \in Counters /\ missed' \in Missed /\ InCount' = InCount
      /\ \/ pc[r] = "record" /\ OutCount' = OutCount + 1
         \/ pc[r] = "unheard" /\ OutCount' = OutCount
  <2>1. stats' \in Counters /\ stats'.to_external = stats.to_external + 1
        /\ stats'.to_someip = stats.to_someip
    BY <1>1 DEF FlowInv, FlowTypes, Counters
  <2>2. /\ missed' \in Missed /\ missed'.to_someip = missed.to_someip
        /\ \/ pc[r] = "record" /\ missed'.to_external = missed.to_external
           \/ pc[r] = "unheard" /\ missed'.to_external = missed.to_external + 1
    BY <1>1 DEF FlowInv, FlowTypes, Missed
  <2>3. stats.to_external \in Nat /\ missed.to_external \in Nat
    BY DEF FlowInv, FlowTypes, Counters, Missed
  <2> QED BY <2>1, <2>2, <2>3 DEF OutCount, InCount
<1>3. FlowTypes'
  BY <1>1, <1>2 DEF FlowInv, FlowTypes
<1>4. InFlow'
  BY <1>1, <1>2, InAside, Zenon
<1>5. /\ OutHands' = OutHands /\ \A h \in OutHands : item'[h] = item[h]
      /\ \/ pc[r] = "record" /\ OutLag' = OutLag \ {r} /\ r \in OutLag
         \/ pc[r] = "unheard" /\ OutLag' = OutLag
  BY <1>1 DEF OutHands, OutLag, FlowInv, FlowTypes, Threads
<1>6. CASE pc[r] = "unheard"
  <2>1. OutCount' = OutCount /\ OutLag' = OutLag
    BY <1>2, <1>5, <1>6
  <2>2. OutFlow'
    BY <1>1, <1>5, <2>1, OutKept, SMTT(20) DEF FlowInv
  <2> QED BY <1>3, <1>4, <2>2 DEF FlowInv
<1>7. CASE pc[r] = "record"
  <2>1. OutCount' = OutCount + 1 /\ OutLag' = OutLag \ {r} /\ r \in OutLag /\ OutCount \in Nat
    BY <1>2, <1>5, <1>7 DEF FlowInv, FlowTypes
  <2>2. Flow(item', OutHands, OutDone, arrived \cap Messages, OutCount + 1, OutLag \ {r})
    BY <1>5, <2>1, LagFinite, FlowCount DEF FlowInv, OutFlow
  <2>3. OutDone' = OutDone
    BY <1>1 DEF OutDone
  <2>4. OutFlow'
    BY <1>1, <1>5, <2>1, <2>2, <2>3 DEF OutFlow
  <2> QED BY <1>3, <1>4, <2>4 DEF FlowInv
<1> QED BY <1>2, <1>6, <1>7

\* Every step of a receiver inside on_someip_message.
LEMMA FlowHandles ==
  ASSUME FlowInv, NEW r \in Receivers, Handle(r)
  PROVE  FlowInv'
<1>1. CASE CheckNode(r)
  <2>1. /\ pc[r] = "check" /\ Goto(r, IF node # 0 THEN "find" ELSE "emit")
        /\ UNCHANGED <<item, published, sent, counters, arrived>>
    BY <1>1 DEF CheckNode, outbound, inbound
  <2> QED BY <2>1, FlowMoves
<1>2. CASE FindPublisher(r)
  <2>1. /\ pc[r] = "find" /\ UNCHANGED <<item, published, sent, counters, arrived>>
        /\ Goto(r, "publish") \/ Goto(r, "insert") \/ Goto(r, "thrown") \/ Goto(r, "crashed")
    BY <1>2 DEF FindPublisher, inbound
  <2> QED BY <2>1, FlowMoves
<1>6. CASE InsertPublisher(r)
  <2>1. /\ pc[r] = "insert" /\ Goto(r, "publish")
        /\ UNCHANGED <<item, published, sent, counters, arrived>>
    BY <1>6 DEF InsertPublisher, inbound
  <2> QED BY <2>1, FlowMoves
<1>3. CASE Publish(r)
  <2>1. /\ pc[r] = "publish" /\ UNCHANGED <<item, sent, counters, arrived>>
        /\ HandOver(r, "node") \/ (Goto(r, "crashed") /\ UNCHANGED published)
    BY <1>3 DEF Publish, inbound
  <2> QED BY <2>1, FlowMoves, FlowHandsOver
<1>4. CASE emit_ros2_publish(r)
  <2>1. /\ pc[r] = "emit" /\ UNCHANGED <<item, sent, counters, arrived>>
        /\ HandOver(r, "callback") \/ (Goto(r, "unheard") /\ UNCHANGED published)
    BY <1>4 DEF emit_ros2_publish, inbound
  <2> QED BY <2>1, FlowMoves, FlowHandsOver
<1>5. CASE Record(r)
  BY <1>5, FlowRecords
<1> QED BY <1>1, <1>2, <1>3, <1>4, <1>5, <1>6, SMTT(20) DEF Handle

\* A sample that is forwarded is in the hands of its injector.
LEMMA FlowInjects ==
  ASSUME FlowInv, NEW t \in Injectors, NEW x \in Samples, InjectRos2Message(t, x)
  PROVE  FlowInv'
<1>1. /\ pc[t] = "idle" /\ x \notin arrived /\ arrived' = arrived \cup {x}
      /\ UNCHANGED <<published, sent, counters>>
  BY DEF InjectRos2Message, outbound
<1>2. \/ UNCHANGED <<item, pc>>
      \/ item' = [item EXCEPT ![t] = x] /\ Goto(t, "send")
  BY DEF InjectRos2Message
<1>3. CASE UNCHANGED <<item, pc>>
  BY <1>1, <1>3, FlowSame
<1>4. CASE item' = [item EXCEPT ![t] = x] /\ Goto(t, "send")
  <2>1. FlowTypes' /\ OutCount' = OutCount /\ InCount' = InCount
    BY <1>1, <1>4 DEF FlowInv, FlowTypes, Goto, counters, OutCount, InCount
  <2>2. OutFlow'
    BY <1>1, <1>4, <2>1, OutAside, ZenonT(30) DEF Goto
  <2>3. InFlow'
    <3>1. /\ InHands' = InHands \cup {t} /\ t \notin InHands /\ InLag' = InLag
          /\ item'[t] = x /\ \A h \in InHands : item'[h] = item[h]
      BY <1>1, <1>4 DEF InHands, InLag, FlowInv, FlowTypes, Threads, Goto
    <3>2. /\ x \notin arrived \cap Samples
          /\ arrived' \cap Samples = (arrived \cap Samples) \cup {x}
      BY <1>1
    <3>3. Flow(item', InHands \cup {t}, sent, (arrived \cap Samples) \cup {x}, InCount, InLag)
      BY <3>1, <3>2, FlowTake DEF FlowInv, InFlow
    <3> QED BY <1>1, <2>1, <3>1, <3>2, <3>3, SMTT(20) DEF InFlow
  <2> QED BY <2>1, <2>2, <2>3 DEF FlowInv
<1> QED BY <1>2, <1>3, <1>4, SMTT(20)

\* An injector sends its request, which arrives and has yet to be counted, or is lost.
LEMMA FlowSends ==
  ASSUME FlowInv, NEW t \in Injectors, SendRequest(t)
  PROVE  FlowInv'
<1>1. /\ pc[t] = "send" /\ UNCHANGED <<item, published, counters, arrived>>
      /\ \/ sent' = Append(sent, item[t]) /\ pc' = [pc EXCEPT ![t] = "count"]
         \/ sent' = sent /\ pc' = [pc EXCEPT ![t] = "lost"]
  BY DEF SendRequest, Goto, outbound
<1>2. t \in InHands /\ t \notin InLag /\ OutCount' = OutCount /\ InCount' = InCount
  BY <1>1 DEF InHands, InLag, counters, OutCount, InCount
<1>3. item[t] \in Samples
  BY <1>2 DEF FlowInv, InFlow, Flow
<1>4. FlowTypes'
  BY <1>1, <1>2, <1>3 DEF FlowInv, FlowTypes, counters
<1>5. OutFlow'
  BY <1>1, <1>2, OutAside, Zenon
<1>6. CASE sent' = sent /\ pc' = [pc EXCEPT ![t] = "lost"]
  <2>1. InHands' \subseteq InHands /\ InLag' = InLag
    BY <1>1, <1>6 DEF InHands, InLag, FlowInv, FlowTypes, Threads
  <2>2. InFlow'
    BY <1>1, <1>2, <1>6, <2>1, InKept, SMTT(20) DEF FlowInv
  <2> QED BY <1>4, <1>5, <2>2 DEF FlowInv
<1>7. CASE sent' = Append(sent, item[t]) /\ pc' = [pc EXCEPT ![t] = "count"]
  <2>1. InHands' = InHands \ {t} /\ InLag' = InLag \cup {t}
    BY <1>1, <1>7 DEF InHands, InLag, FlowInv, FlowTypes, Threads
  <2>2. sent \in Seq(Samples) /\ InCount \in Nat
    BY DEF FlowInv, FlowTypes
  <2>3. Flow(item, InHands \ {t}, Append(sent, item[t]), arrived \cap Samples, InCount,
             InLag \cup {t})
    BY <1>2, <1>3, <2>2, LagFinite, FlowDone, ZenonT(30) DEF FlowInv, InFlow
  <2>4. InFlow'
    BY <1>1, <1>2, <1>7, <2>1, <2>3 DEF InFlow
  <2> QED BY <1>4, <1>5, <2>4 DEF FlowInv
<1> QED BY <1>1, <1>6, <1>7

\* An injector counts its request, whether it arrived or was lost.
LEMMA FlowCountsRequest ==
  ASSUME FlowInv, NEW t \in Injectors, CountRequest(t)
  PROVE  FlowInv'
<1>1. /\ pc' = [pc EXCEPT ![t] = "idle"] /\ item' = [item EXCEPT ![t] = none]
      /\ stats' = [stats EXCEPT !.to_someip = @ + 1] /\ UNCHANGED <<published, sent, arrived>>
      /\ \/ pc[t] = "count" /\ missed' = missed
         \/ pc[t] = "lost" /\ missed' = [missed EXCEPT !.to_someip = @ + 1]
  BY DEF CountRequest, Goto, inbound, outbound
<1>2. /\ stats' \in Counters /\ missed' \in Missed /\ OutCount' = OutCount
      /\ \/ pc[t] = "count" /\ InCount' = InCount + 1
         \/ pc[t] = "lost" /\ InCount' = InCount
  <2>1. stats' \in Counters /\ stats'.to_someip = stats.to_someip + 1
        /\ stats'.to_external = stats.to_external
    BY <1>1 DEF FlowInv, FlowTypes, Counters
  <2>2. /\ missed' \in Missed /\ missed'.to_external = missed.to_external
        /\ \/ pc[t] = "count" /\ missed'.to_someip = missed.to_someip
           \/ pc[t] = "lost" /\ missed'.to_someip = missed.to_someip + 1
    BY <1>1 DEF FlowInv, FlowTypes, Missed
  <2>3. stats.to_someip \in Nat /\ missed.to_someip \in Nat
    BY DEF FlowInv, FlowTypes, Counters, Missed
  <2> QED BY <2>1, <2>2, <2>3 DEF OutCount, InCount
<1>3. FlowTypes'
  BY <1>1, <1>2 DEF FlowInv, FlowTypes
<1>4. OutFlow'
  BY <1>1, <1>2, OutAside, Zenon
<1>5. /\ InHands' = InHands /\ \A h \in InHands : item'[h] = item[h]
      /\ \/ pc[t] = "count" /\ InLag' = InLag \ {t} /\ t \in InLag
         \/ pc[t] = "lost" /\ InLag' = InLag
  BY <1>1 DEF InHands, InLag, FlowInv, FlowTypes, Threads
<1>6. CASE pc[t] = "lost"
  <2>1. InCount' = InCount /\ InLag' = InLag
    BY <1>2, <1>5, <1>6
  <2>2. InFlow'
    BY <1>1, <1>5, <2>1, InKept DEF FlowInv
  <2> QED BY <1>3, <1>4, <2>2 DEF FlowInv
<1>7. CASE pc[t] = "count"
  <2>1. InCount' = InCount + 1 /\ InLag' = InLag \ {t} /\ t \in InLag /\ InCount \in Nat
    BY <1>2, <1>5, <1>7 DEF FlowInv, FlowTypes
  <2>2. Flow(item', InHands, sent, arrived \cap Samples, InCount + 1, InLag \ {t})
    BY <1>5, <2>1, LagFinite, FlowCount DEF FlowInv, InFlow
  <2>3. InFlow'
    BY <1>1, <1>5, <2>1, <2>2 DEF InFlow
  <2> QED BY <1>3, <1>4, <2>3 DEF FlowInv
<1> QED BY <1>2, <1>6, <1>7

\* Every step keeps both directions.
LEMMA FlowNext ==
  ASSUME FlowInv, [Next]_vars
  PROVE  FlowInv'
<1>1. CASE StartUdp \/ StartClear \/ StartNode \/ StartRunning
           \/ StopClear \/ StopNode \/ StopUdp \/ StopRunning \/ UNCHANGED vars
  <2>1. UNCHANGED <<pc, item, published, sent, counters, arrived>>
    BY <1>1, Zenon DEF StartUdp, StartClear, StartNode, StartRunning, StopClear, StopNode,
                StopUdp, StopRunning, vars, inbound, outbound
  <2> QED BY <2>1, FlowSame
<1>2. ASSUME NEW x \in Samples, SampleArrives(x) PROVE FlowInv'
  <2>1. UNCHANGED <<pc, item, published, sent, counters>> /\ arrived \subseteq arrived'
    BY <1>2 DEF SampleArrives, outbound
  <2> QED BY <2>1, FlowSame
<1>3. ASSUME NEW t \in Injectors, Inject(t) PROVE FlowInv'
  BY <1>3, FlowSends, FlowCountsRequest DEF Inject
<1> QED BY <1>1, <1>2, <1>3, FlowArrives, FlowHandles, FlowInjects, SMTT(20) DEF Next

\* What a step may do to the things both bridges see: they only grow, by one item.
Grows ==
  /\ arrived \subseteq arrived'
  /\ published' = published \/ \E w \in Published : published' = Append(published, w)
  /\ sent' = sent \/ \E x \in Samples : sent' = Append(sent, x)

\* A receiver has a message in hand when it publishes.
LEMMA OutGrows ==
  ASSUME FlowInv, NEW r \in Receivers, Handle(r)
  PROVE  Grows
<1>1. CASE CheckNode(r) \/ FindPublisher(r) \/ InsertPublisher(r) \/ Record(r)
  <2>1. UNCHANGED <<published, sent, arrived>>
    BY <1>1, Zenon DEF CheckNode, FindPublisher, InsertPublisher, Record, Returns, inbound, outbound
  <2> QED BY <2>1 DEF Grows
<1>2. CASE Publish(r) \/ emit_ros2_publish(r)
  <2>1. /\ pc[r] \in {"publish", "emit"} /\ UNCHANGED <<sent, arrived>>
        /\ \/ UNCHANGED published
           \/ \E via \in {"node", "callback"} :
                published' = Append(published, [msg |-> item[r], via |-> via])
    BY <1>2 DEF Publish, emit_ros2_publish, HandOver, inbound
  <2>2. item[r] \in Messages
    BY <2>1 DEF FlowInv, OutFlow, Flow, OutHands
  <2>3. \A via \in {"node", "callback"} : [msg |-> item[r], via |-> via] \in Published
    BY <2>2 DEF Published
  <2>4. published' = published \/ \E w \in Published : published' = Append(published, w)
    BY <2>1, <2>3, Zenon
  <2> QED BY <2>1, <2>4 DEF Grows
<1> QED BY <1>1, <1>2 DEF Handle

\* An injector has a sample in hand when it sends.
LEMMA InGrows ==
  ASSUME FlowInv, NEW t \in Injectors, Inject(t)
  PROVE  Grows
<1>1. CASE SendRequest(t)
  <2>1. /\ pc[t] = "send" /\ UNCHANGED <<published, arrived>>
        /\ sent' = sent \/ sent' = Append(sent, item[t])
    BY <1>1 DEF SendRequest, outbound
  <2>2. item[t] \in Samples
    BY <2>1 DEF FlowInv, InFlow, Flow, InHands
  <2> QED BY <2>1, <2>2, Zenon DEF Grows
<1>2. CASE CountRequest(t)
  <2>1. UNCHANGED <<published, sent, arrived>>
    BY <1>2 DEF CountRequest, inbound, outbound
  <2> QED BY <2>1 DEF Grows
<1> QED BY <1>1, <1>2 DEF Inject

\* Every step lets the two directions grow by one item at most.
LEMMA StepGrows ==
  ASSUME FlowInv, [Next]_vars
  PROVE  Grows
<1>1. CASE StartUdp \/ StartClear \/ StartNode \/ StartRunning
           \/ StopClear \/ StopNode \/ StopUdp \/ StopRunning \/ UNCHANGED vars
  <2>1. UNCHANGED <<published, sent, arrived>>
    BY <1>1, Zenon DEF StartUdp, StartClear, StartNode, StartRunning, StopClear, StopNode,
                StopUdp, StopRunning, vars, inbound, outbound
  <2> QED BY <2>1 DEF Grows
<1>2. ASSUME NEW r \in Receivers, NEW m \in Messages, OnSomeipMessage(r, m) PROVE Grows
  BY <1>2 DEF OnSomeipMessage, inbound, Grows
<1>3. ASSUME NEW x \in Samples, SampleArrives(x) PROVE Grows
  BY <1>3 DEF SampleArrives, outbound, Grows
<1>4. ASSUME NEW t \in Injectors, NEW x \in Samples, InjectRos2Message(t, x) PROVE Grows
  BY <1>4 DEF InjectRos2Message, outbound, Grows
<1> QED BY <1>1, <1>2, <1>3, <1>4, OutGrows, InGrows, SMTT(20) DEF Next

\* No counter ever goes back.
LEMMA CountsGrow ==
  ASSUME FlowInv, [Next]_vars
  PROVE  OutCount <= OutCount' /\ InCount <= InCount'
<1>1. OutCount \in Nat /\ InCount \in Nat
  BY DEF FlowInv, FlowTypes
<1>2. /\ stats.to_external \in Nat /\ stats.to_someip \in Nat
      /\ missed.to_external \in Nat /\ missed.to_someip \in Nat
  BY DEF FlowInv, FlowTypes, Counters, Missed
<1>3. CASE UNCHANGED counters
  BY <1>1, <1>3 DEF counters, OutCount, InCount
<1>4. CASE stats' = [stats EXCEPT !.errors = @ + 1] /\ UNCHANGED missed
  <2>1. stats'.to_external = stats.to_external /\ stats'.to_someip = stats.to_someip
    BY <1>4 DEF FlowInv, FlowTypes, Counters
  <2> QED BY <1>1, <1>4, <2>1 DEF OutCount, InCount
<1>5. CASE /\ stats' = [stats EXCEPT !.to_external = @ + 1]
           /\ missed' = missed \/ missed' = [missed EXCEPT !.to_external = @ + 1]
  <2>1. /\ stats'.to_external = stats.to_external + 1 /\ stats'.to_someip = stats.to_someip
        /\ missed'.to_external \in {missed.to_external, missed.to_external + 1}
        /\ missed'.to_someip = missed.to_someip
    BY <1>5 DEF FlowInv, FlowTypes, Counters, Missed
  <2> QED BY <1>2, <2>1 DEF OutCount, InCount
<1>6. CASE /\ stats' = [stats EXCEPT !.to_someip = @ + 1]
           /\ missed' = missed \/ missed' = [missed EXCEPT !.to_someip = @ + 1]
  <2>1. /\ stats'.to_someip = stats.to_someip + 1 /\ stats'.to_external = stats.to_external
        /\ missed'.to_someip \in {missed.to_someip, missed.to_someip + 1}
        /\ missed'.to_external = missed.to_external
    BY <1>6 DEF FlowInv, FlowTypes, Counters, Missed
  <2> QED BY <1>2, <2>1 DEF OutCount, InCount
<1>7. CASE StartUdp \/ StartClear \/ StartNode \/ StartRunning
           \/ StopClear \/ StopNode \/ StopUdp \/ StopRunning \/ UNCHANGED vars
  BY <1>3, <1>7, Zenon DEF StartUdp, StartClear, StartNode, StartRunning, StopClear, StopNode,
                    StopUdp, StopRunning, vars, counters
<1>8. ASSUME NEW r \in Receivers, (\E m \in Messages : OnSomeipMessage(r, m)) \/ Handle(r)
      PROVE  \/ UNCHANGED counters
             \/ stats' = [stats EXCEPT !.errors = @ + 1] /\ UNCHANGED missed
             \/ /\ stats' = [stats EXCEPT !.to_external = @ + 1]
                /\ missed' = missed \/ missed' = [missed EXCEPT !.to_external = @ + 1]
  BY <1>8, Zenon DEF OnSomeipMessage, Handle, CheckNode, FindPublisher, InsertPublisher, Publish,
                emit_ros2_publish, Record, Returns, counters
<1>9. ASSUME NEW t \in Injectors, Inject(t)
      PROVE  \/ UNCHANGED counters
             \/ /\ stats' = [stats EXCEPT !.to_someip = @ + 1]
                /\ missed' = missed \/ missed' = [missed EXCEPT !.to_someip = @ + 1]
  BY <1>9, Zenon DEF Inject, SendRequest, CountRequest, counters
<1>10. ASSUME NEW x \in Samples, SampleArrives(x) \/ \E t \in Injectors : InjectRos2Message(t, x)
       PROVE  UNCHANGED counters
  BY <1>10, Zenon DEF SampleArrives, InjectRos2Message, counters
<1> QED BY <1>3, <1>4, <1>5, <1>6, <1>7, <1>8, <1>9, <1>10, ZenonT(30) DEF Next

\* The messages that are done.
LEMMA DoneTypes == FlowInv => OutDone \in Seq(Messages)
<1> SUFFICES ASSUME FlowInv PROVE OutDone \in Seq(Messages)
  OBVIOUS
<1>1. published \in Seq(Published)
  BY DEF FlowInv, FlowTypes
<1>2. /\ \A i \in 1 .. Len(published) : published[i] \in Published
      /\ DOMAIN published = 1 .. Len(published) /\ Len(published) \in Nat
  BY <1>1
<1>3. \A i \in 1 .. Len(published) : published[i].msg \in Messages
  BY <1>2 DEF Published
<1> QED BY <1>2, <1>3 DEF OutDone

\* What was done grows by one message at most.
LEMMA DoneGrows ==
  ASSUME FlowInv, FlowInv', Grows
  PROVE  OutDone' = OutDone \/ \E x \in Messages : OutDone' = Append(OutDone, x)
<1>1. published \in Seq(Published)
  BY DEF FlowInv, FlowTypes
<1>2. ASSUME NEW w \in Published, published' = Append(published, w)
      PROVE  w.msg \in Messages /\ OutDone' = Append(OutDone, w.msg)
  <2>1. w.msg \in Messages
    BY DEF Published
  <2> QED BY <1>1, <1>2, <2>1, DoneAppend DEF OutDone
<1>3. published' = published => OutDone' = OutDone
  BY DEF OutDone
<1> QED BY <1>2, <1>3, Zenon DEF Grows

\* The two facts about the state after a step.
LEMMA AfterStep ==
  /\ FlowInv' => OutDone' \in Seq(Messages)
  /\ IsFiniteSet(OutLag') /\ IsFiniteSet(InLag')
<1>1. (FlowInv => OutDone \in Seq(Messages))'
  BY DoneTypes, PTL
<1>2. (IsFiniteSet(OutLag) /\ IsFiniteSet(InLag))'
  BY LagFinite, PTL
<1> QED BY <1>1, <1>2

\* A step of the gateway is progress of the bridge to ROS.
LEMMA OutBridgeStep ==
  ASSUME FlowInv, FlowInv', Grows, OutCount <= OutCount'
  PROVE  Outbound!Next
<1>1. OutDone \in Seq(Messages) /\ OutDone' \in Seq(Messages)
  BY DoneTypes, AfterStep
<1>2. IsFiniteSet(OutLag')
  BY AfterStep
<1>3. OutCount \in Nat /\ OutCount' \in Nat
  BY DEF FlowInv, FlowTypes
<1>4. Flow(item', OutHands', OutDone', arrived' \cap Messages, OutCount', OutLag')
  BY DEF FlowInv, OutFlow
<1>5. OutDone' = OutDone \/ \E x \in Messages : OutDone' = Append(OutDone, x)
  BY DoneGrows
<1>6. /\ Len(OutDone) <= Len(OutDone') /\ SubSeq(OutDone', 1, Len(OutDone)) = OutDone
      /\ \A i, j \in DOMAIN OutDone' : OutDone'[i] = OutDone'[j] => i = j
      /\ \A i \in DOMAIN OutDone' : OutDone'[i] \in arrived' \cap Messages
      /\ OutCount' <= Len(OutDone')
  BY <1>1, <1>2, <1>3, <1>4, <1>5, FlowProgress, ZenonT(30)
<1>7. Outbound!IsInjective(OutDone') /\ Outbound!Range(OutDone') \subseteq arrived' \cap Messages
  BY <1>6 DEF Outbound!IsInjective, Outbound!Range
<1>8. OutCount' \in OutCount .. Len(OutDone')
  BY <1>1, <1>3, <1>6
<1>9. arrived \cap Messages \subseteq arrived' \cap Messages
  BY DEF Grows
<1>10. Outbound!Progress
  BY <1>6, <1>7, <1>8, <1>9, ZenonT(30) DEF Outbound!Progress, OutDone, OutCount
<1> QED BY <1>10 DEF Outbound!Next

\* A step of the gateway is progress of the bridge to SOME/IP.
LEMMA InBridgeStep ==
  ASSUME FlowInv, FlowInv', Grows, InCount <= InCount'
  PROVE  Inbound!Next
<1>1. sent \in Seq(Samples) /\ sent' \in Seq(Samples) /\ InCount \in Nat /\ InCount' \in Nat
  BY DEF FlowInv, FlowTypes
<1>2. IsFiniteSet(InLag')
  BY AfterStep
<1>3. Flow(item', InHands', sent', arrived' \cap Samples, InCount', InLag')
  BY DEF FlowInv, InFlow
<1>4. sent' = sent \/ \E x \in Samples : sent' = Append(sent, x)
  BY DEF Grows
<1>5. /\ Len(sent) <= Len(sent') /\ SubSeq(sent', 1, Len(sent)) = sent
      /\ \A i, j \in DOMAIN sent' : sent'[i] = sent'[j] => i = j
      /\ \A i \in DOMAIN sent' : sent'[i] \in arrived' \cap Samples
      /\ InCount' <= Len(sent')
  BY <1>1, <1>2, <1>3, <1>4, FlowProgress, ZenonT(30)
<1>6. Inbound!IsInjective(sent') /\ Inbound!Range(sent') \subseteq arrived' \cap Samples
  BY <1>5 DEF Inbound!IsInjective, Inbound!Range
<1>7. InCount' \in InCount .. Len(sent')
  BY <1>1, <1>5
<1>8. arrived \cap Samples \subseteq arrived' \cap Samples
  BY DEF Grows
<1>9. Inbound!Progress
  BY <1>5, <1>6, <1>7, <1>8, ZenonT(30) DEF Inbound!Progress, InCount
<1> QED BY <1>9 DEF Inbound!Next

\* Messages cross to ROS, and injected samples to SOME/IP, as the bridges say, but
\* for the fairness of their counters: each at most once, only if it arrived, and,
\* apart from the messages and requests that are counted although no callback, sink or
\* callee took them, no counter ever runs ahead of what crossed (publish, SendRequest).
THEOREM Ros2BridgeSafety == Spec => Outbound!Safety /\ Inbound!Safety
<1>1. Init => Outbound!Init /\ Inbound!Init
  BY DEF Init, Outbound!Init, Inbound!Init
<1>2. Init => FlowInv
  <2> SUFFICES ASSUME Init PROVE FlowInv
    OBVIOUS
  <2>1. FlowTypes
    BY DEF Init, FlowTypes, Counters, Missed, OutCount, InCount
  <2>2. /\ OutHands = {} /\ OutLag = {} /\ InHands = {} /\ InLag = {}
        /\ OutDone = <<>> /\ sent = <<>> /\ OutCount = 0 /\ InCount = 0
    BY DEF Init, OutHands, OutLag, InHands, InLag, OutDone, OutCount, InCount, Threads
  <2> QED BY <2>1, <2>2, FS_EmptySet DEF FlowInv, OutFlow, InFlow, Flow
<1>3. FlowInv /\ [Next]_vars => FlowInv'
  BY FlowNext
<1>4. FlowInv /\ FlowInv' /\ [Next]_vars
        => [Outbound!Next]_(Outbound!vars) /\ [Inbound!Next]_(Inbound!vars)
  BY StepGrows, CountsGrow, OutBridgeStep, InBridgeStep
<1> QED BY <1>1, <1>2, <1>3, <1>4, PTL DEF Spec, Outbound!Safety, Inbound!Safety
=============================================================================
