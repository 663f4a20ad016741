-------------------------- MODULE GrpcGatewayProofs --------------------------
(***************************************************************************)
(* What holds of GrpcGateway for every set of streams, event groups and    *)
(* notifications: its types, that every client is sent the frames its sink *)
(* accepted in their order, that a finished stream is forgotten, and that  *)
(* streams live only while the gateway serves them.                        *)
(***************************************************************************)
EXTENDS GrpcGateway, SequenceTheorems, TLAPS

-----------------------------------------------------------------------------
(* Sequences.                                                              *)

\* Taking the head of a sequence and putting it before the tail changes nothing.
LEMMA HeadThenTail ==
  ASSUME NEW S, NEW w \in Seq(S), NEW p \in Seq(S), p # <<>>
  PROVE  /\ Head(p) \in S /\ Tail(p) \in Seq(S)
         /\ (w \o <<Head(p)>>) \o Tail(p) = (w \o <<>>) \o p
<1>1. Head(p) \in S /\ Tail(p) \in Seq(S)
  BY HeadTailProperties
<1>2. <<Head(p)>> \o Tail(p) = p
  <2>1. Len(p) \in Nat \ {0} /\ Head(p) = p[1]
    BY EmptySeq
  <2>2. SubSeq(p, 1, Len(p)) = <<p[1]>> \o SubSeq(p, 1 + 1, Len(p))
    BY <2>1, SubSeqRecursiveFirst
  <2>3. SubSeq(p, 1, Len(p)) = p /\ Tail(p) = SubSeq(p, 2, Len(p))
    BY SubSeqFull, TailIsSubSeq
  <2> QED BY <2>1, <2>2, <2>3
<1>3. (w \o <<Head(p)>>) \o Tail(p) = w \o (<<Head(p)>> \o Tail(p))
  <2>1. <<Head(p)>> \in Seq(S)
    BY <1>1
  <2> QED BY <1>1, <2>1, ConcatAssociative
<1>4. w \o <<>> = w
  BY ConcatEmptySeq
<1> QED BY <1>1, <1>2, <1>3, <1>4

\* A frame appended to the last of two sequences is appended to the whole.
LEMMA AppendAtEnd ==
  ASSUME NEW S, NEW w \in Seq(S), NEW p \in Seq(S), NEW n \in S
  PROVE  w \o Append(p, n) = Append(w \o p, n)
<1>1. <<n>> \in Seq(S) /\ w \o p \in Seq(S)
  BY ConcatProperties
<1>2. Append(p, n) = p \o <<n>> /\ Append(w \o p, n) = (w \o p) \o <<n>>
  BY <1>1, AppendIsConcat
<1>3. (w \o p) \o <<n>> = w \o (p \o <<n>>)
  BY <1>1, ConcatAssociative
<1> QED BY <1>2, <1>3

-----------------------------------------------------------------------------
(* The inductive invariant.                                                *)

\* StreamIsFifo is not inductive: a stream holds a frame exactly while it is about
\* to write it.
FrameInHand == \A s \in Streams : frame[s] = none <=> pc[s] # "write"

\* Nor is FinishedIsForgotten: a stream is taken out of the subscriber, then out of
\* the multimap, then its sink is closed, and it enters neither again.
Forgotten ==
  \A s \in Streams :
    /\ pc[s] \in {"new", "subscribe", "unregister", "close", "done"} => s \notin callbacks[Group(s)]
    /\ pc[s] \in {"new", "close", "done"} => s \notin registry
    /\ pc[s] = "done" => s \in closed

IInv == TypeOK /\ FrameInHand /\ StreamIsFifo /\ Forgotten

\* The key of a stream is one of the keys the subscriber is indexed by.
LEMMA KeyOfStream == \A s \in Streams : Group(s) \in Keys
BY DEF Keys

\* A step that leaves frames and queues alone, and at most cancels calls, keeps
\* the order of every stream.
LEMMA FifoSame ==
  ASSUME StreamIsFifo, cancelled \subseteq cancelled',
         UNCHANGED <<written, frame, pending, accepted>>
  PROVE  StreamIsFifo'
BY Zenon DEF StreamIsFifo, InHand

-----------------------------------------------------------------------------
(* The inductive step.                                                     *)

\* start and stop touch no queue; stop empties the subscriber and the multimap.
LEMMA LifecycleStep ==
  ASSUME IInv,
         \/ StartClients \/ StartServer \/ StartRunning
         \/ StopShutdown \/ StopRelease \/ StopRunning
  PROVE  IInv'
<1>1. UNCHANGED <<sinks, frame, written, delivery, pc, unary>>
  BY DEF StartClients, StartServer, StartRunning, StopShutdown, StopRelease, StopRunning
<1>2. cancelled' \in {cancelled, cancelled \cup Active}
  BY DEF StartClients, StartServer, StartRunning, StopShutdown, StopRelease, StopRunning
<1>3. /\ callbacks' \in {callbacks, [k \in Keys |-> {}]}
      /\ registry' \in {registry, {}}
  BY DEF StartClients, StartServer, StartRunning, StopShutdown, StopRelease, StopRunning
<1>4. /\ running' \in BOOLEAN
      /\ clients' \subseteq {"rpc", "subscriber", "sd"}
      /\ server' \in {"null", "serving", "closing"}
      /\ control' \in {"idle", "serve", "set_running", "join", "clear_running"}
  BY Zenon DEF IInv, TypeOK, StartClients, StartServer, StartRunning, StopShutdown, StopRelease,
         StopRunning
<1>5. callbacks' \in [Keys -> SUBSET Streams] /\ registry' \subseteq Streams
  BY <1>3 DEF IInv, TypeOK
<1>6. TypeOK'
  BY <1>1, <1>2, <1>4, <1>5 DEF IInv, TypeOK, sinks, delivery, Active
<1>7. FrameInHand' /\ StreamIsFifo'
  BY <1>1, <1>2, FifoSame DEF IInv, FrameInHand, sinks
<1>8. Forgotten'
  BY <1>1, <1>3, KeyOfStream DEF IInv, Forgotten, sinks
<1> QED BY <1>6, <1>7, <1>8 DEF IInv

\* The steps of a stream that move no frame: registering, subscribing, looking at
\* the context, unsubscribing, unregistering, closing; and a cancellation.
LEMMA StreamLifeStep ==
  ASSUME IInv, NEW s \in Streams,
         \/ RegisterEventStream(s) \/ SubscribeEventgroup(s) \/ CheckCancelled(s)
         \/ UnsubscribeEventgroup(s) \/ UnregisterEventStream(s) \/ CloseSink(s)
         \/ ClientCancels(s)
  PROVE  IInv'
<1>1. UNCHANGED <<lifecycle, pending, accepted, frame, written, delivery>>
  BY DEF RegisterEventStream, SubscribeEventgroup, CheckCancelled, UnsubscribeEventgroup,
         UnregisterEventStream, CloseSink, ClientCancels, sinks
<1>2. cancelled' \in {cancelled, cancelled \cup {s}}
  BY DEF RegisterEventStream, SubscribeEventgroup, CheckCancelled, UnsubscribeEventgroup,
         UnregisterEventStream, CloseSink, ClientCancels
<1>3. /\ registry' \in {registry, registry \cup {s}, registry \ {s}}
      /\ closed' \in {closed, closed \cup {s}}
      /\ callbacks' \in {callbacks, [callbacks EXCEPT ![Group(s)] = @ \cup {s}],
                         [callbacks EXCEPT ![Group(s)] = {}]}
  BY DEF RegisterEventStream, SubscribeEventgroup, CheckCancelled, UnsubscribeEventgroup,
         UnregisterEventStream, CloseSink, ClientCancels, sinks
<1>4. \/ UNCHANGED pc
      \/ /\ pc[s] # "write"
         /\ \E l \in {"subscribe", "check", "unregister", "unsubscribe", "wait", "close", "done"} :
              pc' = [pc EXCEPT ![s] = l]
  BY DEF RegisterEventStream, SubscribeEventgroup, CheckCancelled, UnsubscribeEventgroup,
         UnregisterEventStream, CloseSink, ClientCancels, Goto
<1>5. callbacks' \in [Keys -> SUBSET Streams]
  <2>1. callbacks \in [Keys -> SUBSET Streams] /\ Group(s) \in Keys
    BY KeyOfStream, Zenon DEF IInv, TypeOK
  <2>2. callbacks[Group(s)] \cup {s} \in SUBSET Streams
    BY <2>1
  <2> QED BY <1>3, <2>1, <2>2
<1>6. TypeOK'
  <2>1. pc' \in [Streams -> {"new", "subscribe", "check", "wait", "write", "unsubscribe",
                             "unregister", "close", "done"}]
    BY <1>4, Zenon DEF IInv, TypeOK
  <2>2. registry' \subseteq Streams /\ closed' \subseteq Streams /\ cancelled' \subseteq Streams
    BY <1>2, <1>3 DEF IInv, TypeOK
  <2> QED BY <1>1, <1>5, <2>1, <2>2 DEF IInv, TypeOK, lifecycle, delivery
<1>7. FrameInHand'
  BY <1>1, <1>4 DEF IInv, TypeOK, FrameInHand
<1>8. StreamIsFifo'
  BY <1>1, <1>2, FifoSame DEF IInv
<1>9. Forgotten'
  <2> SUFFICES ASSUME NEW u \in Streams
               PROVE  /\ pc'[u] \in {"new", "subscribe", "unregister", "close", "done"}
                           => u \notin callbacks'[Group(u)]
                      /\ pc'[u] \in {"new", "close", "done"} => u \notin registry'
                      /\ pc'[u] = "done" => u \in closed'
    BY DEF Forgotten
  <2>1. /\ pc[u] \in {"new", "subscribe", "unregister", "close", "done"}
             => u \notin callbacks[Group(u)]
        /\ pc[u] \in {"new", "close", "done"} => u \notin registry
        /\ pc[u] = "done" => u \in closed
    BY DEF IInv, Forgotten
  <2>2. callbacks \in [Keys -> SUBSET Streams] /\ Group(s) \in Keys /\ Group(u) \in Keys
    BY KeyOfStream DEF IInv, TypeOK
  <2>3. pc \in [Streams -> {"new", "subscribe", "check", "wait", "write", "unsubscribe",
                            "unregister", "close", "done"}]
    BY DEF IInv, TypeOK
  <2>4. CASE u # s
    BY <1>3, <1>4, <2>1, <2>2, <2>3, <2>4
  <2>5. CASE u = s
    BY <2>1, <2>2, <2>3, <2>5 DEF RegisterEventStream, SubscribeEventgroup, CheckCancelled,
       UnsubscribeEventgroup, UnregisterEventStream, CloseSink, ClientCancels, Goto, sinks
  <2> QED BY <2>4, <2>5
<1> QED BY <1>6, <1>7, <1>8, <1>9 DEF IInv

\* Waiting moves the oldest frame of the sink into the stream's hands.
LEMMA WaitStep ==
  ASSUME IInv, NEW s \in Streams, WaitFrame(s)
  PROVE  IInv'
<1>1. /\ UNCHANGED <<lifecycle, callbacks, registry, closed, accepted, cancelled, written,
                     delivery>>
      /\ pc[s] = "wait"
  BY DEF WaitFrame
<1>2. PICK l \in {"unsubscribe", "check", "write"} : pc' = [pc EXCEPT ![s] = l]
  BY DEF WaitFrame, Goto
<1>3. pc' \in [Streams -> {"new", "subscribe", "check", "wait", "write", "unsubscribe",
                           "unregister", "close", "done"}]
  BY <1>2 DEF IInv, TypeOK
<1>4. Forgotten'
  BY <1>1, <1>2 DEF IInv, TypeOK, Forgotten
<1>5. pending[s] \in Seq(Notifications) /\ written[s] \in Seq(Notifications) /\ frame[s] = none
  BY <1>1 DEF IInv, TypeOK, FrameInHand
<1>6. CASE pending[s] = <<>>
  <2>1. UNCHANGED <<pending, frame>> /\ pc' = [pc EXCEPT ![s] = l] /\ l # "write"
    BY <1>1, <1>2, <1>6 DEF WaitFrame, Goto, IInv, TypeOK
  <2>2. TypeOK'
    BY <1>1, <1>3, <2>1 DEF IInv, TypeOK, lifecycle, delivery
  <2>3. FrameInHand' /\ StreamIsFifo'
    BY <1>1, <2>1, FifoSame DEF IInv, TypeOK, FrameInHand
  <2> QED BY <1>4, <2>2, <2>3 DEF IInv
<1>7. CASE pending[s] # <<>>
  <2>1. /\ frame' = [frame EXCEPT ![s] = Head(pending[s])]
        /\ pending' = [pending EXCEPT ![s] = Tail(@)]
        /\ pc' = [pc EXCEPT ![s] = "write"]
    BY <1>7 DEF WaitFrame, Goto
  <2>2. /\ Head(pending[s]) \in Notifications /\ Tail(pending[s]) \in Seq(Notifications)
        /\ (written[s] \o <<Head(pending[s])>>) \o Tail(pending[s])
             = (written[s] \o <<>>) \o pending[s]
    BY <1>5, <1>7, HeadThenTail, Zenon
  <2>3. Head(pending[s]) # none
    BY <2>2, NoneAssumption
  <2>4. TypeOK'
    <3>1. frame' \in [Streams -> Notifications \cup {none}]
      BY <2>1, <2>2 DEF IInv, TypeOK
    <3>2. pending' \in [Streams -> Seq(Notifications)]
      BY <2>1, <2>2 DEF IInv, TypeOK
    <3> QED BY <1>1, <1>3, <3>1, <3>2 DEF IInv, TypeOK, lifecycle, delivery
  <2>5. FrameInHand'
    BY <2>1, <2>3 DEF IInv, TypeOK, FrameInHand
  <2>6. StreamIsFifo'
    <3> SUFFICES ASSUME NEW u \in Streams \ cancelled
                 PROVE  (written[u] \o InHand(u)' \o pending'[u]) = accepted[u]
      BY <1>1, Zenon DEF StreamIsFifo, InHand
    <3>1. written[u] \o InHand(u) \o pending[u] = accepted[u]
      BY Zenon DEF IInv, StreamIsFifo
    <3>2. CASE u = s
      <4>1. InHand(u) = <<>> /\ InHand(u)' = <<Head(pending[s])>> /\ pending'[u] = Tail(pending[s])
        BY <1>5, <2>1, <2>3, <3>2 DEF InHand, IInv, TypeOK
      <4> QED BY <2>2, <3>1, <3>2, <4>1, Zenon
    <3>3. CASE u # s
      <4>1. InHand(u)' = InHand(u) /\ pending'[u] = pending[u]
        BY <2>1, <3>3 DEF InHand, IInv, TypeOK
      <4> QED BY <3>1, <4>1, Zenon
    <3> QED BY <3>2, <3>3, Zenon
  <2> QED BY <1>4, <2>4, <2>5, <2>6 DEF IInv
<1> QED BY <1>6, <1>7

\* Writing appends the frame in the stream's hands to what the client was sent, or
\* drops it when the call is cancelled.
LEMMA WriteStep ==
  ASSUME IInv, NEW s \in Streams, WriteFrame(s)
  PROVE  IInv'
<1>1. /\ UNCHANGED <<lifecycle, callbacks, registry, sinks, cancelled, delivery>>
      /\ pc[s] = "write"
      /\ frame' = [frame EXCEPT ![s] = none]
  BY DEF WriteFrame
<1>2. PICK l \in {"unsubscribe", "check"} : pc' = [pc EXCEPT ![s] = l]
  BY DEF WriteFrame, Goto
<1>3. pc' \in [Streams -> {"new", "subscribe", "check", "wait", "write", "unsubscribe",
                           "unregister", "close", "done"}]
  BY <1>2 DEF IInv, TypeOK
<1>4. Forgotten'
  BY <1>1, <1>2 DEF IInv, TypeOK, Forgotten, sinks
<1>5. FrameInHand'
  BY <1>1, <1>2 DEF IInv, TypeOK, FrameInHand
<1>6. /\ frame[s] \in Notifications /\ frame[s] # none
      /\ written[s] \in Seq(Notifications)
  BY <1>1 DEF IInv, TypeOK, FrameInHand
<1>7. \/ written' = [written EXCEPT ![s] = Append(@, frame[s])]
      \/ s \in cancelled /\ UNCHANGED written
  BY DEF WriteFrame
<1>8. TypeOK'
  <2>1. frame' \in [Streams -> Notifications \cup {none}]
    BY <1>1 DEF IInv, TypeOK
  <2>2. written' \in [Streams -> Seq(Notifications)]
    <3>1. Append(written[s], frame[s]) \in Seq(Notifications)
      BY <1>6, AppendProperties
    <3>2. written \in [Streams -> Seq(Notifications)]
      BY DEF IInv, TypeOK
    <3> QED BY <1>7, <3>1, <3>2, Zenon
  <2> QED BY <1>1, <1>3, <2>1, <2>2 DEF IInv, TypeOK, lifecycle, sinks, delivery
<1>9. StreamIsFifo'
  <2> SUFFICES ASSUME NEW u \in Streams \ cancelled
               PROVE  (written'[u] \o InHand(u)' \o pending[u]) = accepted[u]
    BY <1>1, Zenon DEF StreamIsFifo, InHand, sinks
  <2>1. written[u] \o InHand(u) \o pending[u] = accepted[u]
    BY Zenon DEF IInv, StreamIsFifo
  <2>2. CASE u = s
    <3>1. InHand(u) = <<frame[s]>> /\ InHand(u)' = <<>>
      BY <1>1, <1>6, <2>2 DEF InHand, IInv, TypeOK
    <3>2. written'[u] = Append(written[s], frame[s])
      BY <1>7, <2>2 DEF IInv, TypeOK
    <3>3. Append(written[s], frame[s]) = written[s] \o <<frame[s]>>
      BY <1>6, AppendIsConcat
    <3>4. Append(written[s], frame[s]) \in Seq(Notifications)
      BY <1>6, AppendProperties
    <3>5. Append(written[s], frame[s]) \o <<>> = Append(written[s], frame[s])
      BY <3>4, ConcatEmptySeq
    <3> QED BY <2>1, <2>2, <3>1, <3>2, <3>3, <3>5, Zenon
  <2>3. CASE u # s
    <3>1. InHand(u)' = InHand(u) /\ written'[u] = written[u]
      BY <1>1, <1>7, <2>3 DEF InHand, IInv, TypeOK
    <3> QED BY <2>1, <3>1, Zenon
  <2> QED BY <2>2, <2>3, Zenon
<1> QED BY <1>4, <1>5, <1>8, <1>9 DEF IInv

\* deliver_event_frame appends the frame to the queue of each open target and to
\* what that sink accepted.
LEMMA DeliverStep ==
  ASSUME IInv, NEW n \in Notifications, NEW targets, deliver_event_frame(targets, n),
         arrived' \subseteq Notifications, inflight' \subseteq Streams \X Notifications,
         UNCHANGED <<lifecycle, callbacks, registry, closed, cancelled, frame, written, pc>>
  PROVE  IInv'
<1> DEFINE open == targets \ closed
<1>1. /\ pending' = [s \in Streams |-> IF s \in open THEN Append(pending[s], n) ELSE pending[s]]
      /\ accepted' = [s \in Streams |-> IF s \in open THEN Append(accepted[s], n) ELSE accepted[s]]
  BY DEF deliver_event_frame
<1> HIDE DEF open
<1>2. TypeOK'
  <2>1. pending' \in [Streams -> Seq(Notifications)] /\ accepted' \in [Streams -> Seq(Notifications)]
    BY <1>1 DEF IInv, TypeOK
  <2> QED BY <2>1 DEF IInv, TypeOK, lifecycle
<1>3. FrameInHand' /\ Forgotten'
  BY DEF IInv, FrameInHand, Forgotten
<1>4. StreamIsFifo'
  <2> SUFFICES ASSUME NEW u \in Streams \ cancelled
               PROVE  (written[u] \o InHand(u)) \o pending'[u] = accepted'[u]
    BY Zenon DEF StreamIsFifo, InHand
  <2>1. (written[u] \o InHand(u)) \o pending[u] = accepted[u]
    BY Zenon DEF IInv, StreamIsFifo
  <2>2. CASE u \in open
    <3>1. pending'[u] = Append(pending[u], n) /\ accepted'[u] = Append(accepted[u], n)
      BY <1>1, <2>2
    <3>2. InHand(u) \in Seq(Notifications)
      BY DEF InHand, IInv, TypeOK
    <3>3. written[u] \in Seq(Notifications) /\ pending[u] \in Seq(Notifications)
      BY DEF IInv, TypeOK
    <3>4. written[u] \o InHand(u) \in Seq(Notifications)
      BY <3>2, <3>3, ConcatProperties
    <3>5. (written[u] \o InHand(u)) \o Append(pending[u], n)
            = Append((written[u] \o InHand(u)) \o pending[u], n)
      <4> DEFINE w == written[u] \o InHand(u)
      <4>1. w \in Seq(Notifications)
        BY <3>4
      <4> HIDE DEF w
      <4>2. w \o Append(pending[u], n) = Append(w \o pending[u], n)
        BY <3>3, <4>1, AppendAtEnd
      <4> QED BY <4>2 DEF w
    <3> QED BY <2>1, <3>1, <3>5
  <2>3. CASE u \notin open
    BY <1>1, <2>1, <2>3, Zenon
  <2> QED BY <2>2, <2>3, Zenon
<1> QED BY <1>2, <1>3, <1>4 DEF IInv

\* A UnarySomeIp call touches no stream.
LEMMA UnaryStep ==
  ASSUME IInv, NEW c \in Calls, UnarySomeIp(c) \/ VehicleAnswers(c) \/ CloudAnswers(c)
  PROVE  IInv'
<1>1. UNCHANGED <<running, clients, server, control, streaming>>
  BY DEF UnarySomeIp, VehicleAnswers, CloudAnswers
<1>2. unary' \in [Calls -> {"new", "cloud", "vehicle", "done"}]
  BY Zenon DEF UnarySomeIp, VehicleAnswers, CloudAnswers, IInv, TypeOK
<1>3. TypeOK'
  BY <1>1, <1>2 DEF IInv, TypeOK, streaming, sinks, delivery
<1>4. (FrameInHand /\ StreamIsFifo /\ Forgotten)'
  BY <1>1, Zenon DEF IInv, streaming, sinks, FrameInHand, StreamIsFifo, InHand, Forgotten
<1> QED BY <1>3, <1>4 DEF IInv

-----------------------------------------------------------------------------
(* The theorems.                                                           *)

\* A freshly constructed gateway has no stream and no frame.
LEMMA InitInvariant == Init => IInv
<1> SUFFICES ASSUME Init PROVE IInv
  OBVIOUS
<1>1. \A s \in Streams : /\ pc[s] = "new" /\ frame[s] = none
                         /\ written[s] = <<>> /\ pending[s] = <<>> /\ accepted[s] = <<>>
                         /\ callbacks[Group(s)] = {}
  BY KeyOfStream DEF Init
<1>2. TypeOK
  <2>1. /\ pending \in [Streams -> Seq(Notifications)]
        /\ accepted \in [Streams -> Seq(Notifications)]
        /\ written \in [Streams -> Seq(Notifications)]
    BY DEF Init
  <2> QED BY <2>1, Zenon DEF Init, TypeOK
<1>3. FrameInHand /\ Forgotten
  BY <1>1, Zenon DEF Init, FrameInHand, Forgotten
<1>4. StreamIsFifo
  <2>1. (<<>> \o <<>>) \o <<>> = <<>>
    <3>1. <<>> \o <<>> = <<>>
      BY EmptySeq, ConcatEmptySeq
    <3> QED BY <3>1
  <2> QED BY <1>1, <2>1, Zenon DEF StreamIsFifo, InHand
<1> QED BY <1>2, <1>3, <1>4 DEF IInv

\* Every step of every thread keeps the invariant.
LEMMA NextInvariant == IInv /\ [Next]_vars => IInv'
<1> SUFFICES ASSUME IInv, [Next]_vars PROVE IInv'
  OBVIOUS
<1>1. CASE UNCHANGED vars
  <2>1. TypeOK'
    BY <1>1 DEF vars, IInv, TypeOK
  <2>2. (FrameInHand /\ StreamIsFifo /\ Forgotten)'
    BY <1>1, Zenon DEF vars, IInv, FrameInHand, StreamIsFifo, InHand, Forgotten
  <2> QED BY <2>1, <2>2 DEF IInv
<1>2. ASSUME NEW n \in Notifications, EventArrives(n) PROVE IInv'
  <2>1. /\ UNCHANGED <<lifecycle, callbacks, registry, sinks, cancelled, frame, written, pc>>
        /\ arrived' = arrived \cup {n}
        /\ inflight' = callbacks[n.key] \X {n} /\ n.key \in Keys
    BY <1>2 DEF EventArrives
  <2>2. TypeOK'
    BY <2>1 DEF IInv, TypeOK, lifecycle, sinks
  <2>3. (FrameInHand /\ StreamIsFifo /\ Forgotten)'
    BY <2>1, Zenon DEF IInv, sinks, FrameInHand, StreamIsFifo, InHand, Forgotten
  <2> QED BY <2>2, <2>3 DEF IInv
<1>3. ASSUME NEW n \in Notifications, BroadcastNotification(n) PROVE IInv'
  <2>1. arrived' \subseteq Notifications /\ inflight' \subseteq Streams \X Notifications
    BY <1>3 DEF BroadcastNotification, IInv, TypeOK
  <2> QED BY <1>3, <2>1, DeliverStep DEF BroadcastNotification
<1>4. ASSUME NEW s \in Streams, NEW n \in Notifications, OnEvt(s, n) PROVE IInv'
  <2>1. arrived' \subseteq Notifications /\ inflight' \subseteq Streams \X Notifications
    BY <1>4 DEF OnEvt, IInv, TypeOK
  <2> QED BY <1>4, <2>1, DeliverStep DEF OnEvt
<1> QED BY <1>1, <1>2, <1>3, <1>4, LifecycleStep, StreamLifeStep, WaitStep, WriteStep,
        UnaryStep
        DEF Next, StreamStep

\* In every reachable state, for any streams, groups and notifications, the
\* variables have the types of the members they model.
THEOREM GrpcTypeCorrect == Spec => []TypeOK
<1>1. IInv => TypeOK
  BY DEF IInv
<1> QED BY <1>1, InitInvariant, NextInvariant, PTL DEF Spec

\* Every client is sent exactly the frames its sink accepted, in their order,
\* whatever on_evt, broadcasts and cancellations interleave.
THEOREM GrpcStreamIsFifo == Spec => []StreamIsFifo
<1>1. IInv => StreamIsFifo
  BY DEF IInv
<1> QED BY <1>1, InitInvariant, NextInvariant, PTL DEF Spec

\* A StreamSomeIpEvents call that has returned leaves neither a callback nor a sink
\* registered, in any interleaving with the other streams and with stop.
THEOREM GrpcFinishedIsForgotten == Spec => []FinishedIsForgotten
<1>1. IInv => FinishedIsForgotten
  BY DEF IInv, Forgotten, FinishedIsForgotten
<1> QED BY <1>1, InitInvariant, NextInvariant, PTL DEF Spec

-----------------------------------------------------------------------------
(* start() and stop() against the streams.                                 *)

Quiet == Active = {} /\ Waiting = {} /\ server = "null" /\ registry = {}

\* StreamsOnlyWhileServing speaks of the states between calls of start and stop;
\* inside them the parts come up before running_ is set, and a stop that has
\* joined the handlers leaves nothing that could dispatch another call.
Phases ==
  /\ (control = "idle" /\ running) \/ control = "set_running" =>
       server = "serving" /\ {"rpc", "subscriber"} \subseteq clients
  /\ control = "serve" => {"rpc", "subscriber"} \subseteq clients
  /\ control = "join" => server = "closing" /\ "rpc" \in clients
  /\ (control = "idle" /\ ~running) \/ control \in {"serve", "clear_running"} => Quiet
  /\ control = "serve" => ~running

\* The steps of the controller keep the phases: a server is only built while no
\* call is active, and the handlers are joined before it is given up.
LEMMA PhasesControl ==
  ASSUME TypeOK, Phases,
         \/ StartClients \/ StartServer \/ StartRunning
         \/ StopShutdown \/ StopRelease \/ StopRunning
  PROVE  Phases'
<1>1. UNCHANGED <<pc, unary>> /\ Active' = Active /\ Waiting' = Waiting
  BY DEF StartClients, StartServer, StartRunning, StopShutdown, StopRelease, StopRunning, Active,
         Waiting
<1>2. CASE StartClients
  BY <1>1, <1>2 DEF StartClients, TypeOK, Phases, Quiet
<1>3. CASE StartServer
  BY <1>1, <1>3 DEF StartServer, TypeOK, Phases, Quiet
<1>4. CASE StartRunning
  BY <1>1, <1>4 DEF StartRunning, TypeOK, Phases, Quiet
<1>5. CASE StopShutdown
  BY <1>1, <1>5 DEF StopShutdown, TypeOK, Phases, Quiet
<1>6. CASE StopRelease
  BY <1>1, <1>6 DEF StopRelease, TypeOK, Phases, Quiet
<1>7. CASE StopRunning
  BY <1>1, <1>7 DEF StopRunning, TypeOK, Phases, Quiet
<1> QED BY <1>2, <1>3, <1>4, <1>5, <1>6, <1>7

\* A stream is dispatched by a serving server only, and the others that move are
\* active; so no stream moves while the gateway is quiet.
LEMMA PhasesStream ==
  ASSUME TypeOK, Phases, NEW s \in Streams, RegisterEventStream(s) \/ StreamStep(s)
  PROVE  Phases'
<1>1. UNCHANGED lifecycle
  BY DEF RegisterEventStream, StreamStep, SubscribeEventgroup, CheckCancelled, WaitFrame,
         WriteFrame, UnsubscribeEventgroup, UnregisterEventStream, CloseSink
<1>2. server = "serving" \/ s \in Active
  BY DEF RegisterEventStream, StreamStep, SubscribeEventgroup, CheckCancelled, WaitFrame,
         WriteFrame, UnsubscribeEventgroup, UnregisterEventStream, CloseSink, Active
<1>3. ~Quiet
  BY <1>2 DEF Quiet
<1> QED BY <1>1, <1>3 DEF Phases, lifecycle

\* A call is dispatched by a serving server, and is answered while it waits.
LEMMA PhasesUnary ==
  ASSUME TypeOK, Phases, NEW c \in Calls, UnarySomeIp(c) \/ VehicleAnswers(c) \/ CloudAnswers(c)
  PROVE  Phases'
<1>1. UNCHANGED <<running, clients, server, control, streaming>>
  BY DEF UnarySomeIp, VehicleAnswers, CloudAnswers
<1>2. server = "serving" \/ c \in Waiting
  BY DEF UnarySomeIp, VehicleAnswers, CloudAnswers, Waiting
<1>3. ~Quiet
  BY <1>2 DEF Quiet
<1> QED BY <1>1, <1>3 DEF Phases

\* Cancelling a call and delivering a notification move neither.
LEMMA PhasesSame ==
  ASSUME Phases, UNCHANGED <<lifecycle, registry, pc>>
  PROVE  Phases'
BY DEF Phases, Quiet, Active, Waiting, lifecycle

\* Every step keeps the phases.
LEMMA PhasesNext == TypeOK /\ Phases /\ [Next]_vars => Phases'
<1> SUFFICES ASSUME TypeOK, Phases, [Next]_vars PROVE Phases'
  OBVIOUS
<1>1. CASE UNCHANGED vars
  BY <1>1, PhasesSame DEF vars, lifecycle
<1>2. ASSUME NEW s \in Streams, ClientCancels(s) PROVE Phases'
  BY <1>2, PhasesSame DEF ClientCancels
<1>3. ASSUME NEW n \in Notifications, EventArrives(n) \/ BroadcastNotification(n) PROVE Phases'
  BY <1>3, PhasesSame DEF EventArrives, BroadcastNotification
<1>4. ASSUME NEW s \in Streams, NEW n \in Notifications, OnEvt(s, n) PROVE Phases'
  BY <1>4, PhasesSame DEF OnEvt
<1> QED BY <1>1, <1>2, <1>3, <1>4, PhasesControl, PhasesStream, PhasesUnary DEF Next

\* A gateway that runs between calls of start and stop has its server and its
\* clients, a UnarySomeIp call that waits has its client; one that does not run
\* serves no call, has no server and knows no sink, also after a start that failed,
\* for any number of calls.
THEOREM GrpcStreamsOnlyWhileServing == Spec => []StreamsOnlyWhileServing
<1>1. Init => Phases
  <2> SUFFICES ASSUME Init PROVE Phases
    OBVIOUS
  <2>1. Active = {} /\ Waiting = {}
    BY DEF Init, Active, Waiting
  <2> QED BY <2>1 DEF Init, Phases, Quiet
<1>2. IInv => TypeOK
  BY DEF IInv
<1>3. TypeOK /\ Phases => StreamsOnlyWhileServing
  BY DEF TypeOK, Phases, Quiet, StreamsOnlyWhileServing
<1> QED BY <1>1, <1>2, <1>3, PhasesNext, InitInvariant, NextInvariant, PTL DEF Spec
=============================================================================
