-------------------------- MODULE MqttGatewayProofs --------------------------
(***************************************************************************)
(* What holds of MqttGateway for every set of threads, messages and        *)
(* mappings and every capacity of at least one: its types, the bound of    *)
(* the ring buffer, that a message is in one place at most, that it        *)
(* implements AtMostOnceChannel, what its counter counts and, with one     *)
(* controller, that it runs exactly when its transport does.               *)
(***************************************************************************)
EXTENDS MqttGateway, FiniteSetTheorems, SequenceTheorems, TLAPS

Injective(s) == \A i, j \in DOMAIN s : s[i] = s[j] => i = j

-----------------------------------------------------------------------------
(* Sequences.                                                              *)

\* Appending a value that is not in a sequence adds it and keeps the sequence
\* free of repetitions.
LEMMA AppendFacts ==
  ASSUME NEW S, NEW s \in Seq(S), NEW x \in S
  PROVE  /\ Append(s, x) \in Seq(S)
         /\ Len(Append(s, x)) = Len(s) + 1
         /\ ToSet(Append(s, x)) = ToSet(s) \cup {x}
         /\ Injective(s) /\ x \notin ToSet(s) => Injective(Append(s, x))
<1> DEFINE t == Append(s, x)
<1>1. /\ t \in Seq(S)
      /\ Len(t) = Len(s) + 1
      /\ \A i \in 1..Len(s) : t[i] = s[i]
      /\ t[Len(s) + 1] = x
  OBVIOUS
<1>2. DOMAIN t = 1..(Len(s) + 1) /\ DOMAIN s = 1..Len(s) /\ Len(s) \in Nat
  BY <1>1
<1> HIDE DEF t
<1>3. ToSet(t) = ToSet(s) \cup {x}
  <2>1. \A i \in DOMAIN t : i \in DOMAIN s \/ i = Len(s) + 1
    BY <1>2
  <2>2. Len(s) + 1 \in DOMAIN t /\ \A i \in DOMAIN s : i \in DOMAIN t
    BY <1>2
  <2> QED
    BY <1>1, <1>2, <2>1, <2>2 DEF ToSet
<1>4. Injective(s) /\ x \notin ToSet(s) => Injective(t)
  <2>1. \A i \in DOMAIN t : i \in DOMAIN s \/ i = Len(s) + 1
    BY <1>2
  <2> QED
    BY <1>1, <1>2, <2>1 DEF Injective, ToSet
<1> QED
  BY <1>1, <1>3, <1>4 DEF t

\* Removing the head of a sequence without repetitions removes that value.
LEMMA TailFacts ==
  ASSUME NEW S, NEW s \in Seq(S), s # <<>>
  PROVE  /\ Head(s) \in S
         /\ Head(s) \in ToSet(s)
         /\ Tail(s) \in Seq(S)
         /\ Len(Tail(s)) = Len(s) - 1
         /\ ToSet(Tail(s)) \subseteq ToSet(s)
         /\ Injective(s) => /\ Injective(Tail(s))
                            /\ ToSet(Tail(s)) = ToSet(s) \ {Head(s)}
<1> DEFINE t == Tail(s)
<1>1. /\ Len(s) \in Nat \ {0}
      /\ Head(s) = s[1]
      /\ t \in Seq(S)
      /\ Len(t) = Len(s) - 1
      /\ \A i \in 1..Len(t) : t[i] = s[i + 1]
  OBVIOUS
<1>2. DOMAIN t = 1..(Len(s) - 1) /\ DOMAIN s = 1..Len(s) /\ 1 \in DOMAIN s
  BY <1>1
<1>3. Head(s) \in S /\ Head(s) \in ToSet(s)
  BY <1>1, <1>2 DEF ToSet
<1> HIDE DEF t
<1>4. \A i \in DOMAIN t : i + 1 \in DOMAIN s /\ i + 1 # 1 /\ t[i] = s[i + 1]
  BY <1>1, <1>2
<1>5. \A j \in DOMAIN s : j # 1 => j - 1 \in DOMAIN t /\ t[j - 1] = s[j]
  <2>1. \A j \in DOMAIN s : j # 1 => j - 1 \in DOMAIN t /\ (j - 1) + 1 = j
    BY <1>1, <1>2
  <2> QED BY <1>4, <2>1
<1>6. ToSet(t) \subseteq ToSet(s)
  BY <1>4 DEF ToSet
<1>7. ASSUME Injective(s) PROVE Injective(t)
  <2>1. \A i, j \in DOMAIN t : i + 1 = j + 1 => i = j
    BY <1>1, <1>2
  <2> QED BY <1>4, <1>7, <2>1 DEF Injective
<1>8. ASSUME Injective(s) PROVE ToSet(t) = ToSet(s) \ {Head(s)}
  <2>1. s[1] \notin ToSet(t)
    BY <1>2, <1>4, <1>8 DEF Injective, ToSet
  <2>2. \A x \in ToSet(s) : x # s[1] => x \in ToSet(t)
    BY <1>5 DEF ToSet
  <2> QED BY <1>1, <1>6, <2>1, <2>2
<1> QED
  BY <1>1, <1>3, <1>6, <1>7, <1>8 DEF t

\* Pushing onto the ring buffer keeps its bound; the buffer afterwards holds the
\* new publish and what was there, less the publish it evicted.
LEMMA RingPushFacts ==
  ASSUME NEW q \in Seq(Messages), NEW x \in Messages, Len(q) <= Capacity
  PROVE  /\ RingPush(q, x) \in Seq(Messages)
         /\ Len(RingPush(q, x)) <= Capacity
         /\ Evicted(q) \subseteq ToSet(q)
         /\ Evicted(q) \subseteq Messages
         /\ Injective(q) /\ x \notin ToSet(q) =>
              /\ Injective(RingPush(q, x))
              /\ ToSet(RingPush(q, x)) = (ToSet(q) \ Evicted(q)) \cup {x}
<1>1. CASE Len(q) >= Capacity
  <2>1. q # <<>>
    BY <1>1, CapacityAssumption
  <2>2. Evicted(q) = {Head(q)} /\ RingPush(q, x) = Append(Tail(q), x)
    BY <1>1 DEF Evicted, RingPush
  <2>3. Tail(q) \in Seq(Messages) /\ Len(Tail(q)) = Len(q) - 1
    BY <2>1, TailFacts
  <2>4. RingPush(q, x) \in Seq(Messages) /\ Len(RingPush(q, x)) = Len(q) - 1 + 1
    BY <2>2, <2>3, AppendFacts
  <2>5. ToSet(RingPush(q, x)) = ToSet(Tail(q)) \cup {x}
    <3>1. \A t \in Seq(Messages) : ToSet(Append(t, x)) = ToSet(t) \cup {x}
      BY AppendFacts
    <3> QED BY <2>2, <2>3, <3>1, Zenon
  <2>6. Evicted(q) \subseteq ToSet(q) /\ Evicted(q) \subseteq Messages
    BY <2>1, <2>2, TailFacts
  <2>7. ASSUME Injective(q), x \notin ToSet(q)
        PROVE  /\ Injective(RingPush(q, x))
               /\ ToSet(RingPush(q, x)) = (ToSet(q) \ Evicted(q)) \cup {x}
    <3>1. Injective(Tail(q)) /\ ToSet(Tail(q)) = ToSet(q) \ {Head(q)}
      BY <2>1, <2>7, TailFacts
    <3>2. x \notin ToSet(Tail(q))
      BY <2>7, <3>1
    <3>3. Injective(RingPush(q, x))
      <4>1. Injective(Append(Tail(q), x))
        BY <2>3, <3>1, <3>2, AppendFacts
      <4> QED BY <2>2, <4>1
    <3> QED BY <2>2, <2>5, <3>1, <3>3
  <2>8. Len(RingPush(q, x)) <= Capacity
    BY <2>4, CapacityAssumption
  <2> QED BY <2>4, <2>6, <2>7, <2>8
<1>2. CASE ~(Len(q) >= Capacity)
  <2>1. Evicted(q) = {} /\ RingPush(q, x) = Append(q, x)
    BY <1>2 DEF Evicted, RingPush
  <2>2. Len(Append(q, x)) <= Capacity
    BY <1>2, CapacityAssumption, AppendFacts
  <2> QED BY <2>1, <2>2, AppendFacts
<1> QED BY <1>1, <1>2

-----------------------------------------------------------------------------
(* The inductive invariant.                                                *)

\* EachMessageOnce alone is not inductive: that a thread about to publish holds a
\* message, and that everything in the system has arrived (so that a new arrival
\* is nowhere in it), have to be carried along.
HandsFull == \A t \in Publishers : Holding(t) => item[t] \in Messages

OnePerHand ==
  \A t, u \in Publishers : Holding(t) /\ Holding(u) /\ item[t] = item[u] => t = u

AllArrived == InHand \cup ToSet(queue) \cup ToSet(Delivered) \cup dropped \subseteq arrived

IInv ==
  /\ TypeOK
  /\ BufferBounded
  /\ HandsFull
  /\ EachMessageOnce
  /\ AllArrived

-----------------------------------------------------------------------------
(* How the steps change what the threads hold.                             *)

\* A thread that takes message m, held by nobody, adds it to the hands.
LEMMA HandsTake ==
  ASSUME TypeOK, HandsFull, OnePerHand,
         NEW t \in Publishers, ~Holding(t),
         NEW m \in Messages, m \notin InHand,
         pc' = [pc EXCEPT ![t] = "publish"],
         item' = [item EXCEPT ![t] = m]
  PROVE  HandsFull' /\ OnePerHand' /\ InHand' = InHand \cup {m}
<1>1. t \in Threads /\ Publishers \subseteq Threads
  BY DEF Threads
<1>2. Holding(t)' /\ item'[t] = m
  BY <1>1 DEF Holding, TypeOK
<1>3. \A u \in Publishers : u # t => (Holding(u)' <=> Holding(u)) /\ item'[u] = item[u]
  BY <1>1 DEF Holding, TypeOK
<1>4. InHand' = InHand \cup {m}
  <2>1. \A x : x \in InHand <=> \E u \in Publishers : Holding(u) /\ x = item[u]
    BY DEF InHand
  <2>2. \A x : x \in InHand' <=> \E u \in Publishers : Holding(u)' /\ x = item'[u]
    BY DEF InHand
  <2> QED BY <1>2, <1>3, <2>1, <2>2
<1>5. \A u \in Publishers : Holding(u) => item[u] # m
  BY DEF InHand
<1> QED
  BY <1>2, <1>3, <1>4, <1>5 DEF HandsFull, OnePerHand

\* A thread that publishes or pushes its message no longer holds it.
LEMMA HandsRelease ==
  ASSUME TypeOK, HandsFull, OnePerHand,
         NEW t \in Publishers, Holding(t),
         NEW l \in {"idle", "pop", "record"},
         pc' = [pc EXCEPT ![t] = l],
         item' = [item EXCEPT ![t] = none]
  PROVE  HandsFull' /\ OnePerHand' /\ InHand' = InHand \ {item[t]}
<1>1. t \in Threads /\ Publishers \subseteq Threads
  BY DEF Threads
<1>2. ~Holding(t)'
  BY <1>1 DEF Holding, TypeOK
<1>3. \A u \in Publishers : u # t => (Holding(u)' <=> Holding(u)) /\ item'[u] = item[u]
  BY <1>1 DEF Holding, TypeOK
<1>4. InHand' = InHand \ {item[t]}
  <2>1. \A x : x \in InHand <=> \E u \in Publishers : Holding(u) /\ x = item[u]
    BY DEF InHand
  <2>2. \A x : x \in InHand' <=> \E u \in Publishers : Holding(u)' /\ x = item'[u]
    BY DEF InHand
  <2>3. \A u \in Publishers : u # t /\ Holding(u) => item[u] # item[t]
    BY DEF OnePerHand
  <2> QED BY <1>2, <1>3, <2>1, <2>2, <2>3
<1> QED
  BY <1>2, <1>3, <1>4 DEF HandsFull, OnePerHand

\* A step that leaves the items alone and starts or ends nobody's hold changes
\* nothing in the hands.
LEMMA HandsSame ==
  ASSUME HandsFull, OnePerHand,
         \A u \in Publishers : Holding(u)' <=> Holding(u),
         UNCHANGED item
  PROVE  HandsFull' /\ OnePerHand' /\ InHand' = InHand
<1>1. HandsFull' /\ OnePerHand'
  BY DEF HandsFull, OnePerHand
<1>2. InHand' = InHand
  <2>1. \A x : x \in InHand <=> \E u \in Publishers : Holding(u) /\ x = item[u]
    BY DEF InHand
  <2>2. \A x : x \in InHand' <=> \E u \in Publishers : Holding(u)' /\ x = item'[u]
    BY DEF InHand
  <2> QED BY <2>1, <2>2
<1> QED BY <1>1, <1>2

\* Publishing m appends it to what the broker was given.
LEMMA DeliveredAppend ==
  ASSUME TypeOK, NEW m \in Messages, NEW t \in Publishers,
         published' = Append(published, [msg |-> m, by |-> t])
  PROVE  /\ published' \in Seq([msg : Messages, by : Publishers])
         /\ ToSet(Delivered') = ToSet(Delivered) \cup {m}
         /\ Injective(Delivered) /\ m \notin ToSet(Delivered) => Injective(Delivered')
<1> DEFINE R == [msg : Messages, by : Publishers]
           e == [msg |-> m, by |-> t]
           n == Len(published)
<1>1. published \in Seq(R) /\ e \in R /\ published' = Append(published, e)
  BY DEF TypeOK
<1>2. /\ published' \in Seq(R)
      /\ n \in Nat
      /\ DOMAIN published = 1..n
      /\ DOMAIN published' = 1..(n + 1)
      /\ \A i \in 1..n : published'[i] = published[i]
      /\ published'[n + 1] = e
  <2> HIDE DEF R, e
  <2> QED BY <1>1
<1>3. /\ DOMAIN Delivered = 1..n
      /\ DOMAIN Delivered' = 1..(n + 1)
      /\ \A i \in 1..n : Delivered'[i] = Delivered[i]
      /\ Delivered'[n + 1] = m
  BY <1>2 DEF Delivered
<1>4. \A i \in 1..(n + 1) : i \in 1..n \/ i = n + 1
  BY <1>2
<1>5. n + 1 \in 1..(n + 1) /\ 1..n \subseteq 1..(n + 1) /\ n + 1 \notin 1..n
  BY <1>2
<1> HIDE DEF n
<1>6. ToSet(Delivered') = ToSet(Delivered) \cup {m}
  BY <1>3, <1>4, <1>5 DEF ToSet
<1>7. Injective(Delivered) /\ m \notin ToSet(Delivered) => Injective(Delivered')
  BY <1>3, <1>4, <1>5 DEF ToSet, Injective
<1> QED BY <1>2, <1>6, <1>7

-----------------------------------------------------------------------------
(* The inductive step.                                                     *)

Apart ==
  /\ InHand \cap ToSet(queue) = {}
  /\ ToSet(Delivered) \cap (InHand \cup ToSet(queue)) = {}
  /\ dropped \cap (InHand \cup ToSet(queue) \cup ToSet(Delivered)) = {}

\* EachMessageOnce in terms of the sequences and sets the lemmas speak of.
LEMMA OnceUnfold ==
  EachMessageOnce
    <=> Injective(queue) /\ Injective(Delivered) /\ OnePerHand /\ Apart
<1>1. Injective(Delivered)
        <=> \A i, j \in DOMAIN published : published[i].msg = published[j].msg => i = j
  BY DEF Injective, Delivered
<1> QED BY <1>1 DEF EachMessageOnce, Injective, OnePerHand, Apart

\* A step that moves no message keeps the invariant, its types aside.
LEMMA NothingMoves ==
  ASSUME IInv,
         \A u \in Publishers : Holding(u)' <=> Holding(u),
         UNCHANGED <<item, queue, published, dropped>>,
         arrived \subseteq arrived'
  PROVE  (BufferBounded /\ HandsFull /\ EachMessageOnce /\ AllArrived)'
<1>1. HandsFull /\ OnePerHand
  BY OnceUnfold DEF IInv
<1>2. HandsFull' /\ OnePerHand' /\ InHand' = InHand
  BY <1>1, HandsSame
<1>3. Delivered' = Delivered
  BY DEF Delivered
<1>4. BufferBounded' /\ AllArrived'
  BY <1>2, <1>3 DEF IInv, BufferBounded, AllArrived
<1>5. (Injective(queue) /\ Injective(Delivered) /\ OnePerHand /\ Apart)'
  BY <1>2, <1>3, OnceUnfold DEF IInv, Injective, Apart
<1>6. EachMessageOnce'
  <2>1. Injective(Delivered')
        <=> \A i, j \in DOMAIN published' : published'[i].msg = published'[j].msg => i = j
    BY DEF Injective, Delivered
  <2> QED BY <1>5, <2>1 DEF EachMessageOnce, Injective, OnePerHand, Apart
<1> QED BY <1>2, <1>4, <1>6

\* The conjuncts of the invariant other than its types, in the next state, from
\* the effect of a step on the four places a message can be in.
LEMMA OnceNext ==
  ASSUME Injective(queue'), Injective(Delivered'), OnePerHand',
         InHand' \cap ToSet(queue') = {},
         ToSet(Delivered') \cap (InHand' \cup ToSet(queue')) = {},
         dropped' \cap (InHand' \cup ToSet(queue') \cup ToSet(Delivered')) = {}
  PROVE  EachMessageOnce'
<1>1. Injective(Delivered')
        <=> \A i, j \in DOMAIN published' : published'[i].msg = published'[j].msg => i = j
  BY DEF Injective, Delivered
<1> QED BY <1>1 DEF EachMessageOnce, Injective, OnePerHand

\* The steps of start and stop, of the connection and of subscribing.
LEMMA ControlStep ==
  ASSUME IInv,
         \/ \E c \in Controllers :
              \/ StartUdp(c) \/ StartReset(c) \/ StartRunning(c)
              \/ StopServices(c) \/ StopUdp(c) \/ StopRunning(c)
         \/ SubscribeSomeipEventgroup
         \/ SetMqttConnected
  PROVE  IInv'
<1>1. Controllers \subseteq Threads /\ Publishers \subseteq Threads
  BY DEF Threads
<1>2. \A c \in Controllers : c \notin Publishers
  BY ThreadAssumption DEF Publishers
<1>3. UNCHANGED <<item, queue, published, dropped, arrived, stats>>
  BY DEF StartUdp, StartReset, StartRunning, StopServices, StopUdp, StopRunning,
         SubscribeSomeipEventgroup, SetMqttConnected
<1>4. \A u \in Publishers : pc'[u] = pc[u]
  BY <1>1, <1>2 DEF IInv, TypeOK, Goto, StartUdp, StartReset, StartRunning,
         StopServices, StopUdp, StopRunning, SubscribeSomeipEventgroup, SetMqttConnected
<1>5. \A u \in Publishers : Holding(u)' <=> Holding(u)
  BY <1>4 DEF Holding
<1>6. (BufferBounded /\ HandsFull /\ EachMessageOnce /\ AllArrived)'
  BY <1>3, <1>5, NothingMoves
<1>7. pc' \in [Threads -> Labels]
  BY <1>1 DEF IInv, TypeOK, Labels, Goto, StartUdp, StartReset, StartRunning,
         StopServices, StopUdp, StopRunning, SubscribeSomeipEventgroup, SetMqttConnected
<1>8. /\ running' \in BOOLEAN /\ connected' \in BOOLEAN /\ udp' \in BOOLEAN
      /\ event_subscriber' \in {"null", "initialized", "shutdown"}
      /\ subscribed' \in BOOLEAN
  BY TransportAssumption DEF IInv, TypeOK, lifecycle, StartUdp, StartReset, StartRunning,
         StopServices, StopUdp, StopRunning, SubscribeSomeipEventgroup, SetMqttConnected
<1>9. TypeOK'
  BY <1>3, <1>7, <1>8 DEF IInv, TypeOK
<1> QED BY <1>6, <1>9 DEF IInv

\* on_someip_message either takes a message that is nowhere in the system, or
\* returns early.
LEMMA ReceiveStep ==
  ASSUME IInv, NEW r \in Receivers, NEW m \in Messages, OnSomeipMessage(r, m)
  PROVE  IInv'
<1>1. r \in Publishers /\ r \in Threads /\ Publishers \subseteq Threads
  BY DEF Publishers, Threads
<1>2. m \notin InHand \cup ToSet(queue) \cup ToSet(Delivered) \cup dropped
  BY DEF OnSomeipMessage, IInv, AllArrived
<1>3. arrived' = arrived \cup {m} /\ UNCHANGED <<queue, published, dropped, connected>>
  BY DEF OnSomeipMessage
<1>4. TypeOK'
  <2>1. pc' \in [Threads -> Labels] /\ item' \in [Publishers -> Messages \cup {none}]
    BY <1>1 DEF OnSomeipMessage, Goto, IInv, TypeOK, Labels
  <2>2. stats' \in [messages_someip_to_external : Nat, translation_errors : Nat]
    BY DEF OnSomeipMessage, IInv, TypeOK
  <2>3. arrived' \subseteq Messages
    BY <1>3 DEF IInv, TypeOK
  <2> QED BY <1>3, <2>1, <2>2, <2>3 DEF OnSomeipMessage, lifecycle, IInv, TypeOK
<1>5. CASE UNCHANGED <<pc, item>>
  <2>1. \A u \in Publishers : Holding(u)' <=> Holding(u)
    BY <1>5 DEF Holding
  <2> QED BY <1>3, <1>4, <1>5, <2>1, NothingMoves DEF IInv
<1>6. CASE Goto(r, "publish") /\ item' = [item EXCEPT ![r] = m]
  <2>1. TypeOK /\ HandsFull /\ OnePerHand
    BY OnceUnfold DEF IInv
  <2>2. ~Holding(r)
    BY DEF OnSomeipMessage, Idle, Holding
  <2>3. HandsFull' /\ OnePerHand' /\ InHand' = InHand \cup {m}
    BY <1>1, <1>2, <1>6, <2>1, <2>2, HandsTake DEF Goto
  <2>4. Delivered' = Delivered /\ queue' = queue
    BY <1>3 DEF Delivered
  <2>5. Injective(queue') /\ Injective(Delivered') /\ Apart
    BY <2>4, OnceUnfold DEF IInv
  <2>6. EachMessageOnce'
    BY <1>2, <1>3, <2>3, <2>4, <2>5, OnceNext DEF Apart
  <2>7. AllArrived' /\ BufferBounded'
    BY <1>3, <2>3, <2>4 DEF AllArrived, BufferBounded, IInv
  <2> QED BY <1>4, <2>3, <2>6, <2>7 DEF IInv
<1> QED BY <1>5, <1>6 DEF OnSomeipMessage

\* Entering flush_offline_buffer and counting a forwarded message move nothing.
LEMMA CallStep ==
  ASSUME IInv,
         \/ \E f \in Flushers : FlushCall(f)
         \/ \E r \in Receivers : RecordForwarded(r)
  PROVE  IInv'
<1>1. Receivers \cup Flushers \subseteq Threads /\ Publishers \subseteq Threads
  BY DEF Publishers, Threads
<1>2. UNCHANGED <<item, queue, published, dropped, arrived, connected, lifecycle>>
  BY DEF FlushCall, RecordForwarded
<1>3. PICK t \in Receivers \cup Flushers, l \in {"pop", "idle"} :
        ~Holding(t) /\ pc' = [pc EXCEPT ![t] = l]
  BY DEF FlushCall, RecordForwarded, Goto, Holding, Idle
<1>4. \A u \in Publishers : Holding(u)' <=> Holding(u)
  BY <1>1, <1>3 DEF Holding, IInv, TypeOK
<1>5. pc' \in [Threads -> Labels]
  BY <1>1, <1>3 DEF IInv, TypeOK, Labels
<1>6. stats' \in [messages_someip_to_external : Nat, translation_errors : Nat]
  BY DEF FlushCall, RecordForwarded, IInv, TypeOK
<1>7. TypeOK'
  BY <1>2, <1>5, <1>6 DEF IInv, TypeOK, lifecycle
<1> QED BY <1>2, <1>4, <1>7, NothingMoves DEF IInv

\* A flush moves the oldest publish from the buffer to the flusher's hands.
LEMMA PopStep ==
  ASSUME IInv, NEW f \in Flushers, FlushPop(f)
  PROVE  IInv'
<1>1. f \in Publishers /\ f \in Threads /\ Publishers \subseteq Threads
  BY DEF Publishers, Threads
<1>2. UNCHANGED <<published, dropped, arrived, connected, lifecycle, stats>>
  BY DEF FlushPop
<1>3. ~Holding(f)
  BY DEF FlushPop, Holding
<1>4. CASE queue = <<>>
  <2>1. pc' = [pc EXCEPT ![f] = "idle"] /\ UNCHANGED <<queue, item>>
    BY <1>4 DEF FlushPop, Goto
  <2>2. \A u \in Publishers : Holding(u)' <=> Holding(u)
    BY <1>1, <1>3, <2>1 DEF Holding, IInv, TypeOK
  <2>3. pc' \in [Threads -> Labels]
    BY <2>1 DEF IInv, TypeOK, Labels
  <2>4. TypeOK'
    BY <1>2, <2>1, <2>3 DEF IInv, TypeOK, lifecycle
  <2> QED BY <1>2, <2>1, <2>2, <2>4, NothingMoves DEF IInv
<1>5. CASE queue # <<>>
  <2> DEFINE m == Head(queue)
  <2>1. /\ pc' = [pc EXCEPT ![f] = "publish"]
        /\ item' = [item EXCEPT ![f] = m]
        /\ queue' = Tail(queue)
    BY <1>5 DEF FlushPop, Goto
  <2>2. queue \in Seq(Messages) /\ Len(queue) <= Capacity
    BY DEF IInv, TypeOK, BufferBounded
  <2>3. TypeOK /\ HandsFull /\ OnePerHand /\ Injective(queue) /\ Injective(Delivered) /\ Apart
    BY OnceUnfold DEF IInv
  <2>4. /\ m \in Messages /\ m \in ToSet(queue)
        /\ queue' \in Seq(Messages)
        /\ Len(queue') = Len(queue) - 1
        /\ Injective(queue')
        /\ ToSet(queue') = ToSet(queue) \ {m}
    BY <1>5, <2>1, <2>2, <2>3, TailFacts
  <2>5. BufferBounded'
    BY <2>2, <2>4, CapacityAssumption DEF BufferBounded
  <2> HIDE DEF m
  <2>6. m \notin InHand
    BY <2>3, <2>4 DEF Apart
  <2>7. HandsFull' /\ OnePerHand' /\ InHand' = InHand \cup {m}
    BY <1>1, <1>3, <2>1, <2>3, <2>4, <2>6, HandsTake
  <2>8. Delivered' = Delivered
    BY <1>2 DEF Delivered
  <2>9. EachMessageOnce'
    BY <1>2, <2>3, <2>4, <2>7, <2>8, OnceNext DEF Apart
  <2>10. AllArrived'
    BY <1>2, <2>4, <2>7, <2>8 DEF AllArrived, IInv
  <2>11. TypeOK'
    <3>1. pc' \in [Threads -> Labels] /\ item' \in [Publishers -> Messages \cup {none}]
      BY <1>1, <2>1, <2>4 DEF IInv, TypeOK, Labels
    <3> QED BY <1>2, <2>4, <3>1 DEF IInv, TypeOK, lifecycle
  <2> QED BY <2>5, <2>7, <2>9, <2>10, <2>11 DEF IInv
<1> QED BY <1>4, <1>5

\* publish_mqtt hands the message to the broker, or goes on to buffer it.
LEMMA PublishStep ==
  ASSUME IInv, NEW t \in Publishers, PublishMqtt(t)
  PROVE  IInv'
<1>1. t \in Threads /\ Publishers \subseteq Threads
  BY DEF Threads
<1>2. UNCHANGED <<queue, dropped, arrived, connected, lifecycle, stats>>
  BY DEF PublishMqtt
<1>3. Holding(t)
  BY DEF PublishMqtt, Holding
<1>4. CASE ~connected
  <2>1. pc' = [pc EXCEPT ![t] = "push"] /\ UNCHANGED <<published, item>>
    BY <1>4 DEF PublishMqtt, Goto
  <2>2. \A u \in Publishers : Holding(u)' <=> Holding(u)
    BY <1>1, <1>3, <2>1 DEF Holding, IInv, TypeOK
  <2>3. pc' \in [Threads -> Labels]
    BY <2>1 DEF IInv, TypeOK, Labels
  <2>4. TypeOK'
    BY <1>2, <2>1, <2>3 DEF IInv, TypeOK, lifecycle
  <2> QED BY <1>2, <2>1, <2>2, <2>4, NothingMoves DEF IInv
<1>5. CASE connected
  <2> DEFINE m == item[t]
  <2>1. /\ pc' = [pc EXCEPT ![t] = AfterPublish(t)]
        /\ item' = [item EXCEPT ![t] = none]
        /\ published' = Append(published, [msg |-> m, by |-> t])
    BY <1>5 DEF PublishMqtt, Goto
  <2>2. AfterPublish(t) \in {"idle", "pop", "record"}
    BY DEF AfterPublish
  <2>3. TypeOK /\ HandsFull /\ OnePerHand /\ Injective(queue) /\ Injective(Delivered) /\ Apart
    BY OnceUnfold DEF IInv
  <2>4. m \in Messages /\ m \in InHand
    BY <1>3, <2>3 DEF HandsFull, InHand
  <2>5. HandsFull' /\ OnePerHand' /\ InHand' = InHand \ {m}
    BY <1>3, <2>1, <2>2, <2>3, HandsRelease
  <2> HIDE DEF m
  <2>6. m \notin ToSet(Delivered) /\ m \notin ToSet(queue) /\ m \notin dropped
    BY <2>3, <2>4 DEF Apart
  <2>7. /\ published' \in Seq([msg : Messages, by : Publishers])
        /\ ToSet(Delivered') = ToSet(Delivered) \cup {m}
        /\ Injective(Delivered')
    BY <2>1, <2>3, <2>4, <2>6, DeliveredAppend
  <2>8. queue' = queue /\ dropped' = dropped /\ arrived' = arrived
    BY <1>2
  <2>9. EachMessageOnce'
    <3>1. Injective(queue')
      BY <2>3, <2>8
    <3> QED BY <2>3, <2>5, <2>6, <2>7, <2>8, <3>1, OnceNext DEF Apart
  <2>10. AllArrived' /\ BufferBounded'
    BY <2>4, <2>5, <2>7, <2>8 DEF AllArrived, BufferBounded, IInv
  <2>11. TypeOK'
    <3>1. pc' \in [Threads -> Labels] /\ item' \in [Publishers -> Messages \cup {none}]
      BY <1>1, <2>1, <2>2 DEF IInv, TypeOK, Labels
    <3> QED BY <1>2, <2>7, <3>1 DEF IInv, TypeOK, lifecycle
  <2> QED BY <2>5, <2>9, <2>10, <2>11 DEF IInv
<1> QED BY <1>4, <1>5

\* Buffering moves the message from the thread's hands to the end of the buffer
\* and, when the buffer is full, the oldest buffered one to the dropped ones.
LEMMA PushStep ==
  ASSUME IInv, NEW t \in Publishers, PushOffline(t)
  PROVE  IInv'
<1> DEFINE m == item[t]
<1>1. t \in Threads /\ Publishers \subseteq Threads
  BY DEF Threads
<1>2. /\ UNCHANGED <<published, arrived, connected, lifecycle, stats>>
      /\ pc' = [pc EXCEPT ![t] = AfterPush(t)]
      /\ item' = [item EXCEPT ![t] = none]
      /\ queue' = RingPush(queue, m)
      /\ dropped' = dropped \cup Evicted(queue)
  BY DEF PushOffline, Goto
<1>3. Holding(t)
  BY DEF PushOffline, Holding
<1>4. AfterPush(t) \in {"idle", "pop", "record"}
  BY DEF AfterPush
<1>5. TypeOK /\ HandsFull /\ OnePerHand /\ Injective(queue) /\ Injective(Delivered) /\ Apart
  BY OnceUnfold DEF IInv
<1>6. m \in Messages /\ m \in InHand
  BY <1>3, <1>5 DEF HandsFull, InHand
<1>7. HandsFull' /\ OnePerHand' /\ InHand' = InHand \ {m}
  BY <1>2, <1>3, <1>4, <1>5, HandsRelease
<1> HIDE DEF m
<1>8. m \notin ToSet(Delivered) /\ m \notin ToSet(queue) /\ m \notin dropped
  BY <1>5, <1>6 DEF Apart
<1>9. queue \in Seq(Messages) /\ Len(queue) <= Capacity
  BY DEF IInv, TypeOK, BufferBounded
<1>10. /\ queue' \in Seq(Messages)
       /\ Len(queue') <= Capacity
       /\ Evicted(queue) \subseteq ToSet(queue)
       /\ Evicted(queue) \subseteq Messages
       /\ Injective(queue')
       /\ ToSet(queue') = (ToSet(queue) \ Evicted(queue)) \cup {m}
  BY <1>2, <1>5, <1>6, <1>8, <1>9, RingPushFacts
<1>11. Delivered' = Delivered
  BY <1>2 DEF Delivered
<1>12. EachMessageOnce'
  BY <1>2, <1>5, <1>6, <1>7, <1>8, <1>10, <1>11, OnceNext DEF Apart
<1>13. AllArrived' /\ BufferBounded'
  BY <1>2, <1>6, <1>7, <1>10, <1>11 DEF AllArrived, BufferBounded, IInv
<1>14. TypeOK'
  <2>1. pc' \in [Threads -> Labels] /\ item' \in [Publishers -> Messages \cup {none}]
    BY <1>1, <1>2, <1>4 DEF IInv, TypeOK, Labels
  <2>2. dropped' \subseteq Messages
    BY <1>2, <1>10 DEF IInv, TypeOK
  <2> QED BY <1>2, <1>10, <2>1, <2>2 DEF IInv, TypeOK, lifecycle
<1> QED BY <1>7, <1>12, <1>13, <1>14 DEF IInv

-----------------------------------------------------------------------------
(* The theorems.                                                           *)

\* A freshly constructed gateway satisfies the invariant: no message is anywhere.
LEMMA InitInvariant == Init => IInv
<1> SUFFICES ASSUME Init PROVE IInv
  OBVIOUS
<1>1. Publishers \subseteq Threads
  BY DEF Threads
<1>2. TypeOK
  <2>1. queue \in Seq(Messages) /\ published \in Seq([msg : Messages, by : Publishers])
    BY DEF Init
  <2>2. pc \in [Threads -> Labels] /\ item \in [Publishers -> Messages \cup {none}]
    BY DEF Init, Labels
  <2>3. stats \in [messages_someip_to_external : Nat, translation_errors : Nat]
    BY DEF Init
  <2> QED BY <2>1, <2>2, <2>3 DEF Init, TypeOK
<1>3. \A t \in Publishers : ~Holding(t)
  BY <1>1 DEF Init, Holding
<1>4. HandsFull /\ InHand = {}
  BY <1>3 DEF HandsFull, InHand
<1>5. ToSet(queue) = {} /\ ToSet(Delivered) = {} /\ DOMAIN queue = {} /\ DOMAIN published = {}
  BY DEF Init, ToSet, Delivered
<1>6. BufferBounded
  BY CapacityAssumption DEF Init, BufferBounded
<1>7. EachMessageOnce
  BY <1>3, <1>4, <1>5 DEF EachMessageOnce, Init
<1>8. AllArrived
  BY <1>4, <1>5 DEF AllArrived, Init
<1> QED BY <1>2, <1>4, <1>6, <1>7, <1>8 DEF IInv

\* Every step of every thread keeps the invariant, one action at a time.
LEMMA NextInvariant == IInv /\ [Next]_vars => IInv'
<1> SUFFICES ASSUME IInv, [Next]_vars PROVE IInv'
  OBVIOUS
<1>1. CASE UNCHANGED vars
  <2>1. UNCHANGED <<running, connected, udp, event_subscriber, subscribed, queue, pc,
                    item, arrived, published, dropped, stats>>
    BY <1>1 DEF vars
  <2>2. \A u \in Publishers : Holding(u)' <=> Holding(u)
    BY <2>1 DEF Holding
  <2>3. TypeOK'
    BY <2>1 DEF IInv, TypeOK
  <2> QED BY <2>1, <2>2, <2>3, NothingMoves DEF IInv
<1>2. CASE Next
  BY <1>2, ControlStep, ReceiveStep, CallStep, PopStep, PublishStep, PushStep
     DEF Next, Continue
<1> QED BY <1>1, <1>2

\* In every reachable state, for any threads, messages, mappings and capacity, the
\* variables have the types of the members they model.
THEOREM MqttTypeCorrect == Spec => []TypeOK
<1>1. IInv => TypeOK
  BY DEF IInv
<1> QED BY <1>1, InitInvariant, NextInvariant, PTL DEF Spec

\* The offline buffer never holds more than offline_buffer_capacity publishes, in
\* any interleaving of receivers and flushers.
THEOREM MqttBufferBounded == Spec => []BufferBounded
<1>1. IInv => BufferBounded
  BY DEF IInv
<1> QED BY <1>1, InitInvariant, NextInvariant, PTL DEF Spec

\* No interleaving of on_someip_message and flush_offline_buffer duplicates a
\* message or publishes one that was dropped.
THEOREM MqttEachMessageOnce == Spec => []EachMessageOnce
<1>1. IInv => EachMessageOnce
  BY DEF IInv
<1> QED BY <1>1, InitInvariant, NextInvariant, PTL DEF Spec

-----------------------------------------------------------------------------
(* MqttGateway implements AtMostOnceChannel: receiving a message accepts   *)
(* it, publishing delivers it, pushing onto a full buffer loses the        *)
(* publish it evicts, and every other step is invisible.                   *)

Outstanding == InHand \cup ToSet(queue)

-----------------------------------------------------------------------------
(* Counting what is outstanding.                                           *)

\* A sequence without repetitions has as many elements as it is long.
LEMMA InjectiveCardinality ==
  ASSUME NEW S, NEW s \in Seq(S), Injective(s)
  PROVE  IsFiniteSet(ToSet(s)) /\ Cardinality(ToSet(s)) = Len(s)
<1>1. Len(s) \in Nat /\ DOMAIN s = 1 .. Len(s)
  OBVIOUS
<1>2. s \in Bijection(1 .. Len(s), ToSet(s))
  <2>1. s \in [1 .. Len(s) -> ToSet(s)]
    BY <1>1 DEF ToSet
  <2>2. \A i, j \in 1 .. Len(s) : s[i] = s[j] => i = j
    BY <1>1 DEF Injective
  <2>3. \A x \in ToSet(s) : \E i \in 1 .. Len(s) : s[i] = x
    BY <1>1 DEF ToSet
  <2> QED BY <1>1, <2>1, <2>2, <2>3 DEF Bijection, Injection, Surjection, IsInjective
<1>3. ExistsBijection(1 .. Len(s), ToSet(s))
  BY <1>2 DEF ExistsBijection
<1> QED BY <1>1, <1>3, FS_NatBijection, FS_CountingElements

\* Finitely many threads hold finitely many messages, and the buffer is finite.
LEMMA OutstandingFinite ==
  ASSUME IInv
  PROVE  IsFiniteSet(Outstanding)
<1> DEFINE H == {u \in Publishers : Holding(u)}
           held == [u \in H |-> item[u]]
<1>1. IsFiniteSet(H)
  <2>1. IsFiniteSet(Publishers)
    BY ThreadAssumption, FS_Union DEF Publishers
  <2> QED BY <2>1, FS_Subset
<1>2. InHand = {item[u] : u \in H}
  BY DEF InHand
<1>3. held \in Surjection(H, InHand)
  <2>1. held \in [H -> InHand]
    BY <1>2
  <2>2. \A x \in InHand : \E u \in H : held[u] = x
    BY <1>2
  <2> QED BY <2>1, <2>2 DEF Surjection
<1>4. IsFiniteSet(InHand)
  <2> HIDE DEF H, held
  <2> QED BY <1>1, <1>3, FS_Surjection
<1>5. IsFiniteSet(ToSet(queue))
  <2>1. queue \in Seq(Messages) /\ Injective(queue)
    BY OnceUnfold DEF IInv, TypeOK
  <2> QED BY <2>1, InjectiveCardinality
<1> QED BY <1>4, <1>5, FS_Union DEF Outstanding

\* When a thread is about to push onto a full buffer, the message in its hands is
\* one more than the buffer holds.
LEMMA FullMeansMore ==
  ASSUME IInv, NEW t \in Publishers, Holding(t), Len(queue) >= Capacity
  PROVE  Cardinality(Outstanding) > Capacity
<1> DEFINE Q == ToSet(queue)
           m == item[t]
<1>1. queue \in Seq(Messages) /\ Injective(queue) /\ Len(queue) = Capacity
  BY OnceUnfold, CapacityAssumption DEF IInv, TypeOK, BufferBounded
<1>2. IsFiniteSet(Q) /\ Cardinality(Q) = Capacity
  BY <1>1, InjectiveCardinality
<1>3. m \in InHand /\ m \notin Q
  <2>1. m \in InHand
    BY DEF InHand
  <2> QED BY <2>1 DEF IInv, EachMessageOnce
<1> HIDE DEF Q, m
<1>4. IsFiniteSet(Q \cup {m}) /\ Cardinality(Q \cup {m}) = Capacity + 1
  BY <1>2, <1>3, FS_AddElement
<1>5. Q \cup {m} \subseteq Outstanding
  BY <1>3 DEF Outstanding, Q
<1>6. Cardinality(Q \cup {m}) <= Cardinality(Outstanding)
  BY <1>5, OutstandingFinite, FS_Subset
<1>7. Cardinality(Outstanding) \in Nat
  BY OutstandingFinite, FS_CardinalityType
<1> QED BY <1>4, <1>6, <1>7, CapacityAssumption

-----------------------------------------------------------------------------
(* Each step is a step of the channel.                                     *)

ChannelStep == Channel!Next \/ UNCHANGED <<Outstanding, Delivered, dropped>>

\* Steps that move no message are invisible.
LEMMA Invisible ==
  ASSUME IInv,
         \A u \in Publishers : Holding(u)' <=> Holding(u),
         UNCHANGED <<item, queue, published, dropped>>
  PROVE  ChannelStep
<1>1. HandsFull /\ OnePerHand
  BY OnceUnfold DEF IInv
<1>2. InHand' = InHand
  BY <1>1, HandsSame
<1> QED BY <1>2 DEF ChannelStep, Outstanding, Delivered

\* start, stop, subscribing and the connection are invisible.
LEMMA ControlInvisible ==
  ASSUME IInv,
         \/ \E c \in Controllers :
              \/ StartUdp(c) \/ StartReset(c) \/ StartRunning(c)
              \/ StopServices(c) \/ StopUdp(c) \/ StopRunning(c)
         \/ SubscribeSomeipEventgroup
         \/ SetMqttConnected
  PROVE  ChannelStep
<1>1. Controllers \subseteq Threads /\ Publishers \subseteq Threads
  BY DEF Threads
<1>2. \A c \in Controllers : c \notin Publishers
  BY ThreadAssumption DEF Publishers
<1>3. UNCHANGED <<item, queue, published, dropped>>
  BY DEF StartUdp, StartReset, StartRunning, StopServices, StopUdp, StopRunning,
         SubscribeSomeipEventgroup, SetMqttConnected
<1>4. \A u \in Publishers : pc'[u] = pc[u]
  BY <1>1, <1>2 DEF IInv, TypeOK, Goto, StartUdp, StartReset, StartRunning,
         StopServices, StopUdp, StopRunning, SubscribeSomeipEventgroup, SetMqttConnected
<1>5. \A u \in Publishers : Holding(u)' <=> Holding(u)
  BY <1>4 DEF Holding
<1> QED BY <1>3, <1>5, Invisible

\* So are entering flush_offline_buffer and counting a forwarded message.
LEMMA CallInvisible ==
  ASSUME IInv,
         \/ \E f \in Flushers : FlushCall(f)
         \/ \E r \in Receivers : RecordForwarded(r)
  PROVE  ChannelStep
<1>1. Receivers \cup Flushers \subseteq Threads /\ Publishers \subseteq Threads
  BY DEF Publishers, Threads
<1>2. UNCHANGED <<item, queue, published, dropped>>
  BY DEF FlushCall, RecordForwarded
<1>3. PICK t \in Receivers \cup Flushers, l \in {"pop", "idle"} :
        ~Holding(t) /\ pc' = [pc EXCEPT ![t] = l]
  BY DEF FlushCall, RecordForwarded, Goto, Holding, Idle
<1>4. \A u \in Publishers : Holding(u)' <=> Holding(u)
  BY <1>1, <1>3 DEF Holding, IInv, TypeOK
<1> QED BY <1>2, <1>4, Invisible

\* on_someip_message accepts the message it goes on to publish.
LEMMA ReceiveAccepts ==
  ASSUME IInv, NEW r \in Receivers, NEW m \in Messages, OnSomeipMessage(r, m)
  PROVE  ChannelStep
<1>1. r \in Publishers
  BY DEF Publishers
<1>2. m \notin InHand \cup ToSet(queue) \cup ToSet(Delivered) \cup dropped
  BY DEF OnSomeipMessage, IInv, AllArrived
<1>3. UNCHANGED <<queue, published, dropped>>
  BY DEF OnSomeipMessage
<1>4. CASE UNCHANGED <<pc, item>>
  <2>1. \A u \in Publishers : Holding(u)' <=> Holding(u)
    BY <1>4 DEF Holding
  <2> QED BY <1>3, <1>4, <2>1, Invisible
<1>5. CASE Goto(r, "publish") /\ item' = [item EXCEPT ![r] = m]
  <2>1. TypeOK /\ HandsFull /\ OnePerHand
    BY OnceUnfold DEF IInv
  <2>2. ~Holding(r)
    BY DEF OnSomeipMessage, Idle, Holding
  <2>3. InHand' = InHand \cup {m}
    BY <1>1, <1>2, <1>5, <2>1, <2>2, HandsTake DEF Goto
  <2>4. Channel!Fresh(m)
    BY <1>2 DEF Channel!Fresh, ToSet
  <2>5. Delivered' = Delivered
    BY <1>3 DEF Delivered
  <2>6. Channel!Accept(m)
    BY <1>3, <2>3, <2>4, <2>5 DEF Channel!Accept
  <2> QED BY <2>6 DEF ChannelStep, Channel!Next
<1> QED BY <1>4, <1>5 DEF OnSomeipMessage

\* A flush moves a publish from the buffer to its hands: it stays outstanding.
LEMMA PopInvisible ==
  ASSUME IInv, NEW f \in Flushers, FlushPop(f)
  PROVE  ChannelStep
<1>1. f \in Publishers /\ f \in Threads /\ Publishers \subseteq Threads
  BY DEF Publishers, Threads
<1>2. UNCHANGED <<published, dropped>>
  BY DEF FlushPop
<1>3. ~Holding(f)
  BY DEF FlushPop, Holding
<1>4. CASE queue = <<>>
  <2>1. pc' = [pc EXCEPT ![f] = "idle"] /\ UNCHANGED <<queue, item>>
    BY <1>4 DEF FlushPop, Goto
  <2>2. \A u \in Publishers : Holding(u)' <=> Holding(u)
    BY <1>1, <1>3, <2>1 DEF Holding, IInv, TypeOK
  <2> QED BY <1>2, <2>1, <2>2, Invisible
<1>5. CASE queue # <<>>
  <2> DEFINE m == Head(queue)
  <2>1. /\ pc' = [pc EXCEPT ![f] = "publish"]
        /\ item' = [item EXCEPT ![f] = m]
        /\ queue' = Tail(queue)
    BY <1>5 DEF FlushPop, Goto
  <2>2. TypeOK /\ HandsFull /\ OnePerHand /\ Injective(queue) /\ Apart
    BY OnceUnfold DEF IInv
  <2>3. /\ m \in Messages /\ m \in ToSet(queue)
        /\ ToSet(queue') = ToSet(queue) \ {m}
    BY <1>5, <2>1, <2>2, TailFacts DEF TypeOK
  <2> HIDE DEF m
  <2>4. m \notin InHand
    BY <2>2, <2>3 DEF Apart
  <2>5. InHand' = InHand \cup {m}
    BY <1>1, <1>3, <2>1, <2>2, <2>3, <2>4, HandsTake
  <2>6. Outstanding' = Outstanding
    BY <2>3, <2>5 DEF Outstanding
  <2> QED BY <1>2, <2>6 DEF ChannelStep, Delivered
<1> QED BY <1>4, <1>5

\* A publish that finds the connection up delivers its message.
LEMMA PublishDelivers ==
  ASSUME IInv, NEW t \in Publishers, PublishMqtt(t)
  PROVE  ChannelStep
<1>1. t \in Threads /\ Publishers \subseteq Threads
  BY DEF Threads
<1>2. UNCHANGED <<queue, dropped>>
  BY DEF PublishMqtt
<1>3. Holding(t)
  BY DEF PublishMqtt, Holding
<1>4. CASE ~connected
  <2>1. pc' = [pc EXCEPT ![t] = "push"] /\ UNCHANGED <<published, item>>
    BY <1>4 DEF PublishMqtt, Goto
  <2>2. \A u \in Publishers : Holding(u)' <=> Holding(u)
    BY <1>1, <1>3, <2>1 DEF Holding, IInv, TypeOK
  <2> QED BY <1>2, <2>1, <2>2, Invisible
<1>5. CASE connected
  <2> DEFINE m == item[t]
             n == Len(published)
  <2>1. /\ pc' = [pc EXCEPT ![t] = AfterPublish(t)]
        /\ item' = [item EXCEPT ![t] = none]
        /\ published' = Append(published, [msg |-> m, by |-> t])
    BY <1>5 DEF PublishMqtt, Goto
  <2>2. AfterPublish(t) \in {"idle", "pop", "record"}
    BY DEF AfterPublish
  <2>3. TypeOK /\ HandsFull /\ OnePerHand /\ Apart
    BY OnceUnfold DEF IInv
  <2>4. m \in Messages /\ m \in InHand /\ m \notin ToSet(queue)
    BY <1>3, <2>3 DEF HandsFull, InHand, Apart
  <2>5. InHand' = InHand \ {m}
    BY <1>3, <2>1, <2>2, <2>3, HandsRelease
  <2>6. Delivered' = Append(Delivered, m)
    <3> DEFINE R == [msg : Messages, by : Publishers]
               e == [msg |-> m, by |-> t]
    <3>1. published \in Seq(R) /\ e \in R /\ published' = Append(published, e)
      BY <2>1, <2>3, <2>4 DEF TypeOK
    <3>2. \A i \in DOMAIN published : published[i].msg \in Messages
      <4>1. \A i \in DOMAIN published : published[i] \in R
        <5> HIDE DEF R
        <5> QED BY <3>1
      <4> QED BY <4>1
    <3>3. n \in Nat /\ Delivered \in Seq(Messages) /\ Len(Delivered) = n
      BY <3>1, <3>2 DEF Delivered
    <3>4. /\ DOMAIN published = 1 .. n
          /\ DOMAIN published' = 1 .. (n + 1)
          /\ \A i \in 1 .. n : published'[i] = published[i]
          /\ published'[n + 1] = e
      <4> HIDE DEF R, e
      <4> QED BY <3>1
    <3>5. Delivered' = [i \in 1 .. (n + 1) |-> IF i = n + 1 THEN m ELSE Delivered[i]]
      BY <3>3, <3>4 DEF Delivered
    <3>6. Append(Delivered, m) = [i \in 1 .. (n + 1) |-> IF i = n + 1 THEN m ELSE Delivered[i]]
      <4> DEFINE a == Append(Delivered, m)
                 b == [i \in 1 .. (n + 1) |-> IF i = n + 1 THEN m ELSE Delivered[i]]
      <4> HIDE DEF m, n
      <4>1. /\ a \in Seq(Messages) /\ Len(a) = n + 1
            /\ \A i \in 1 .. n : a[i] = Delivered[i]
            /\ a[n + 1] = m
        BY <2>4, <3>3, AppendProperties
      <4>2. b \in Seq(Messages) /\ Len(b) = n + 1
        BY <2>4, <3>3
      <4>3. \A i \in 1 .. n + 1 : a[i] = b[i]
        BY <3>3, <4>1
      <4> HIDE DEF a, b
      <4>4. a = b
        BY <4>1, <4>2, <4>3, SeqEqual
      <4> QED BY <4>4 DEF a, b
    <3> QED BY <3>5, <3>6
  <2> HIDE DEF m
  <2>7. Outstanding' = Outstanding \ {m} /\ m \in Outstanding
    BY <1>2, <2>4, <2>5 DEF Outstanding
  <2>8. Channel!Deliver(m)
    BY <1>2, <2>6, <2>7 DEF Channel!Deliver, Outstanding
  <2> QED BY <2>4, <2>8 DEF ChannelStep, Channel!Next
<1> QED BY <1>4, <1>5

\* Pushing onto a full buffer loses the oldest publish; otherwise the message only
\* changes places.
LEMMA PushLoses ==
  ASSUME IInv, NEW t \in Publishers, PushOffline(t)
  PROVE  ChannelStep
<1> DEFINE m == item[t]
<1>1. /\ UNCHANGED published
      /\ pc' = [pc EXCEPT ![t] = AfterPush(t)]
      /\ item' = [item EXCEPT ![t] = none]
      /\ queue' = RingPush(queue, m)
      /\ dropped' = dropped \cup Evicted(queue)
  BY DEF PushOffline, Goto
<1>2. Holding(t)
  BY DEF PushOffline, Holding
<1>3. AfterPush(t) \in {"idle", "pop", "record"}
  BY DEF AfterPush
<1>4. TypeOK /\ HandsFull /\ OnePerHand /\ Injective(queue) /\ Apart
  BY OnceUnfold DEF IInv
<1>5. m \in Messages /\ m \in InHand /\ m \notin ToSet(queue)
  BY <1>2, <1>4 DEF HandsFull, InHand, Apart
<1>6. InHand' = InHand \ {m}
  BY <1>1, <1>2, <1>3, <1>4, HandsRelease
<1> HIDE DEF m
<1>7. queue \in Seq(Messages) /\ Len(queue) <= Capacity
  BY DEF IInv, TypeOK, BufferBounded
<1>8. /\ Evicted(queue) \subseteq ToSet(queue)
      /\ ToSet(queue') = (ToSet(queue) \ Evicted(queue)) \cup {m}
  BY <1>1, <1>4, <1>5, <1>7, RingPushFacts
<1>9. Outstanding' = Outstanding \ Evicted(queue)
  BY <1>4, <1>5, <1>6, <1>8 DEF Outstanding, Apart
<1>10. Delivered' = Delivered
  BY <1>1 DEF Delivered
<1>11. CASE Len(queue) >= Capacity
  <2> DEFINE x == Head(queue)
  <2>1. Evicted(queue) = {x}
    BY <1>11 DEF Evicted
  <2>2. x \in Messages /\ x \in Outstanding
    <3>1. queue # <<>>
      BY <1>11, CapacityAssumption
    <3> QED BY <1>7, <3>1, TailFacts DEF Outstanding
  <2>3. Cardinality(Outstanding) > Capacity
    BY <1>2, <1>11, FullMeansMore
  <2> HIDE DEF x
  <2>4. Channel!Lose(x)
    <3>1. dropped' = dropped \cup {x} /\ Outstanding' = Outstanding \ {x}
      BY <1>1, <1>9, <2>1
    <3>2. Channel!Cardinality(Outstanding) = Cardinality(Outstanding)
      BY DEF Channel!Cardinality, Cardinality
    <3> QED BY <1>10, <2>2, <2>3, <3>1, <3>2, Zenon DEF Channel!Lose, Outstanding
  <2> QED BY <2>2, <2>4 DEF ChannelStep, Channel!Next
<1>12. CASE ~(Len(queue) >= Capacity)
  <2>1. Evicted(queue) = {}
    BY <1>12 DEF Evicted
  <2> QED BY <1>1, <1>9, <1>10, <2>1 DEF ChannelStep
<1> QED BY <1>11, <1>12

\* Every step of the gateway is a step of the channel or leaves it unchanged.
LEMMA StepSimulation == IInv /\ [Next]_vars => [Channel!Next]_(Channel!vars)
<1> SUFFICES ASSUME IInv, [Next]_vars PROVE ChannelStep
  BY DEF ChannelStep, Channel!vars, Outstanding
<1>1. CASE UNCHANGED vars
  BY <1>1 DEF vars, ChannelStep, Outstanding, InHand, Holding, Delivered
<1>2. CASE Next
  BY <1>2, ControlInvisible, ReceiveAccepts, CallInvisible, PopInvisible, PublishDelivers,
     PushLoses DEF Next, Continue
<1> QED BY <1>1, <1>2

\* The gateway's publishing, for any threads, messages, mappings and capacity, is a
\* channel that delivers each message at most once and loses one only when more
\* than offline_buffer_capacity messages are outstanding.
THEOREM MqttImplementsChannel == Spec => ImplementsChannel
<1>1. Init => Channel!Init
  <2>1. Publishers \subseteq Threads
    BY DEF Threads
  <2> QED BY <2>1 DEF Init, Channel!Init, InHand, Holding, Delivered, ToSet
<1> QED BY <1>1, InitInvariant, NextInvariant, StepSimulation, PTL
        DEF Spec, ImplementsChannel, Channel!Spec

-----------------------------------------------------------------------------
(* start() and stop().                                                     *)

OneController == \A c, d \in Controllers : c = d

\* LifecycleConsistent speaks of the states between calls; inside them, the
\* transport is up before start() sets running_, and down before stop() clears it.
ControllerPhase ==
  /\ LifecycleConsistent
  /\ \A c \in Controllers :
       /\ pc[c] \in {"reset", "set_running"} => (udp <=> HasTransport)
       /\ pc[c] = "clear_running" => ~udp

\* The steps of the controller keep the phases, if it is the only one.
LEMMA PhaseControl ==
  ASSUME TypeOK, OneController, ControllerPhase, NEW c \in Controllers,
         \/ StartUdp(c) \/ StartReset(c) \/ StartRunning(c)
         \/ StopServices(c) \/ StopUdp(c) \/ StopRunning(c)
  PROVE  ControllerPhase'
<1>1. c \in Threads /\ Controllers = {c}
  BY DEF OneController, Threads
<1>2. pc \in [Threads -> Labels] /\ running \in BOOLEAN /\ udp \in BOOLEAN
  BY DEF TypeOK
<1>3. /\ pc[c] = "idle" => (udp <=> running /\ HasTransport)
      /\ pc[c] \in {"reset", "set_running"} => (udp <=> HasTransport)
      /\ pc[c] = "clear_running" => ~udp
  BY <1>1 DEF ControllerPhase, LifecycleConsistent, Idle
<1>4. SUFFICES /\ pc'[c] = "idle" => (udp' <=> running' /\ HasTransport)
               /\ pc'[c] \in {"reset", "set_running"} => (udp' <=> HasTransport)
               /\ pc'[c] = "clear_running" => ~udp'
  BY <1>1 DEF ControllerPhase, LifecycleConsistent, Idle
<1>5. CASE StartUdp(c)
  BY <1>1, <1>2, <1>3, <1>5 DEF StartUdp, Idle, Goto
<1>6. CASE StartReset(c) \/ StartRunning(c)
  BY <1>1, <1>2, <1>3, <1>6 DEF StartReset, StartRunning, Goto, lifecycle
<1>7. CASE StopServices(c) \/ StopUdp(c) \/ StopRunning(c)
  BY <1>1, <1>2, <1>3, <1>7 DEF StopServices, StopUdp, StopRunning, Goto
<1> QED BY <1>5, <1>6, <1>7

\* No other thread touches running_, the transport or the controller's progress.
LEMMA PhaseSame ==
  ASSUME ControllerPhase, UNCHANGED <<running, udp>>, \A c \in Controllers : pc'[c] = pc[c]
  PROVE  ControllerPhase'
BY DEF ControllerPhase, LifecycleConsistent, Idle

\* A step of a thread that publishes leaves the controllers where they are.
LEMMA PublisherApart ==
  ASSUME TypeOK, NEW t \in Publishers, NEW l, pc' = [pc EXCEPT ![t] = l] \/ UNCHANGED pc
  PROVE  \A c \in Controllers : pc'[c] = pc[c]
<1>1. \A c \in Controllers : c # t /\ c \in Threads
  BY ThreadAssumption DEF Publishers, Threads
<1> QED BY <1>1 DEF TypeOK

\* Every step keeps the phases.
LEMMA PhaseNext ==
  ASSUME TypeOK, OneController, ControllerPhase, [Next]_vars
  PROVE  ControllerPhase'
<1>1. CASE UNCHANGED vars
  BY <1>1, PhaseSame DEF vars
<1>2. CASE SubscribeSomeipEventgroup \/ SetMqttConnected
  BY <1>2, PhaseSame DEF SubscribeSomeipEventgroup, SetMqttConnected, lifecycle
<1>3. ASSUME NEW r \in Receivers, NEW m \in Messages, OnSomeipMessage(r, m)
      PROVE  ControllerPhase'
  <2>1. UNCHANGED <<running, udp>> /\ (pc' = [pc EXCEPT ![r] = "publish"] \/ UNCHANGED pc)
    BY <1>3 DEF OnSomeipMessage, Goto, lifecycle
  <2>2. r \in Publishers
    BY DEF Publishers
  <2> QED BY <2>1, <2>2, PublisherApart, PhaseSame
<1>4. ASSUME NEW t \in Publishers,
             PublishMqtt(t) \/ PushOffline(t)
      PROVE  ControllerPhase'
  <2>1. PICK l \in {AfterPublish(t), AfterPush(t), "push"} : pc' = [pc EXCEPT ![t] = l]
    BY <1>4 DEF PublishMqtt, PushOffline, Goto
  <2>2. UNCHANGED <<running, udp>>
    BY <1>4 DEF PublishMqtt, PushOffline, lifecycle
  <2> QED BY <2>1, <2>2, PublisherApart, PhaseSame
<1>5. ASSUME NEW f \in Flushers, FlushCall(f) \/ FlushPop(f)
      PROVE  ControllerPhase'
  <2>1. PICK l \in {"pop", "idle", "publish"} : pc' = [pc EXCEPT ![f] = l]
    BY <1>5 DEF FlushCall, FlushPop, Goto
  <2>2. UNCHANGED <<running, udp>> /\ f \in Publishers
    BY <1>5 DEF FlushCall, FlushPop, lifecycle, Publishers
  <2> QED BY <2>1, <2>2, PublisherApart, PhaseSame
<1>6. ASSUME NEW r \in Receivers, RecordForwarded(r)
      PROVE  ControllerPhase'
  <2>1. pc' = [pc EXCEPT ![r] = "idle"] /\ UNCHANGED <<running, udp>> /\ r \in Publishers
    BY <1>6 DEF RecordForwarded, Goto, lifecycle, Publishers
  <2> QED BY <2>1, PublisherApart, PhaseSame
<1> QED BY <1>1, <1>2, <1>3, <1>4, <1>5, <1>6, PhaseControl DEF Next, Continue

\* With one thread that calls start and stop, whatever the others do, a gateway
\* between calls runs exactly when its UDP transport does.
THEOREM MqttLifecycleConsistent ==
  ASSUME OneController
  PROVE  Spec => []LifecycleConsistent
<1>1. Init => ControllerPhase
  <2> SUFFICES ASSUME Init PROVE ControllerPhase
    OBVIOUS
  <2>1. \A c \in Controllers : pc[c] = "idle"
    BY DEF Init, Threads
  <2> QED BY <2>1 DEF Init, ControllerPhase, LifecycleConsistent
<1>2. TypeOK /\ ControllerPhase /\ [Next]_vars => ControllerPhase'
  BY OneController, PhaseNext
<1>3. ControllerPhase => LifecycleConsistent
  BY DEF ControllerPhase
<1>4. IInv => TypeOK
  BY DEF IInv
<1> QED BY <1>1, <1>2, <1>3, <1>4, InitInvariant, NextInvariant, PTL DEF Spec

-----------------------------------------------------------------------------
(* The message counter.                                                    *)

\* The receivers that have published and not yet counted, and the positions of
\* what receivers published.
Recording == {r \in Receivers : pc[r] = "record"}
Direct == {i \in DOMAIN published : published[i].by \in Receivers}

\* Both are finite.
LEMMA CountsFinite ==
  ASSUME TypeOK
  PROVE  /\ IsFiniteSet(Recording) /\ IsFiniteSet(Direct)
         /\ Cardinality(Recording) \in Nat /\ Cardinality(Direct) \in Nat
         /\ stats.messages_someip_to_external \in Nat
<1>1. IsFiniteSet(Recording)
  BY ThreadAssumption, FS_Subset DEF Recording
<1>2. IsFiniteSet(Direct)
  <2>1. Len(published) \in Nat /\ DOMAIN published = 1 .. Len(published)
    BY DEF TypeOK
  <2>2. IsFiniteSet(1 .. Len(published))
    BY <2>1, FS_Interval
  <2>3. Direct \subseteq 1 .. Len(published)
    BY <2>1 DEF Direct
  <2> QED BY <2>2, <2>3, FS_Subset
<1> QED BY <1>1, <1>2, FS_CardinalityType DEF TypeOK

\* A step that publishes nothing, counts nothing, and moves no receiver to or from
\* the point where it counts.
LEMMA CountsSame ==
  ASSUME StatsCountDirectPublishes, UNCHANGED published, Recording' = Recording,
         stats'.messages_someip_to_external = stats.messages_someip_to_external
  PROVE  StatsCountDirectPublishes'
BY DEF StatsCountDirectPublishes, Recording

\* A thread that is not a receiver, or a receiver that neither comes from nor goes
\* to the point where it counts.
LEMMA RecordingSame ==
  ASSUME TypeOK, NEW t \in Threads, NEW l,
         \/ UNCHANGED pc
         \/ /\ pc' = [pc EXCEPT ![t] = l]
            /\ t \notin Receivers \/ (pc[t] # "record" /\ l # "record")
  PROVE  Recording' = Recording
<1>1. Receivers \subseteq Threads
  BY DEF Threads, Publishers
<1>2. \A r \in Receivers : pc'[r] = "record" <=> pc[r] = "record"
  BY <1>1 DEF TypeOK
<1> QED BY <1>2 DEF Recording

\* A receiver that publishes adds itself to those who have to count, and its
\* publish to what has to be counted.
LEMMA DirectPublish ==
  ASSUME TypeOK, HandsFull, StatsCountDirectPublishes,
         NEW t \in Publishers, PublishMqtt(t), connected
  PROVE  StatsCountDirectPublishes'
<1> DEFINE e == [msg |-> item[t], by |-> t]
           n == Len(published)
<1>1. /\ pc[t] = "publish" /\ UNCHANGED stats
      /\ published' = Append(published, e)
      /\ pc' = [pc EXCEPT ![t] = AfterPublish(t)]
  BY DEF PublishMqtt, Goto
<1>2. t \in Threads /\ Receivers \subseteq Threads
  BY DEF Threads, Publishers
<1>3. /\ n \in Nat /\ DOMAIN published = 1 .. n /\ DOMAIN published' = 1 .. (n + 1)
      /\ \A i \in 1 .. n : published'[i] = published[i]
      /\ published'[n + 1] = e
  <2>1. e \in [msg : Messages, by : Publishers] /\ published \in Seq([msg : Messages, by : Publishers])
    BY <1>1 DEF TypeOK, HandsFull, Holding
  <2> HIDE DEF e
  <2> QED BY <1>1, <2>1
<1>4. 1 .. (n + 1) = (1 .. n) \cup {n + 1} /\ n + 1 \notin 1 .. n
  BY <1>3
<1>5. e.by = t
  OBVIOUS
<1> HIDE DEF n, e
<1>6. CASE t \in Receivers
  <2>1. t \notin Recording /\ Recording' = Recording \cup {t}
    <3>1. AfterPublish(t) = "record"
      BY <1>6, ThreadAssumption DEF AfterPublish
    <3>2. \A r \in Receivers : pc'[r] = IF r = t THEN "record" ELSE pc[r]
      BY <1>1, <1>2, <3>1 DEF TypeOK
    <3> QED BY <1>1, <1>6, <3>2 DEF Recording
  <2>2. n + 1 \notin Direct /\ Direct' = Direct \cup {n + 1}
    BY <1>3, <1>4, <1>5, <1>6 DEF Direct
  <2>3. Cardinality(Recording') = Cardinality(Recording) + 1
    BY <2>1, CountsFinite, FS_AddElement
  <2>4. Cardinality(Direct') = Cardinality(Direct) + 1
    BY <2>2, CountsFinite, FS_AddElement
  <2>5. /\ stats.messages_someip_to_external + Cardinality(Recording) = Cardinality(Direct)
        /\ Cardinality(Recording) \in Nat /\ Cardinality(Direct) \in Nat
        /\ stats.messages_someip_to_external \in Nat
    BY CountsFinite DEF StatsCountDirectPublishes, Recording, Direct
  <2>6. stats'.messages_someip_to_external + Cardinality(Recording') = Cardinality(Direct')
    BY <1>1, <2>3, <2>4, <2>5
  <2> QED BY <2>6 DEF StatsCountDirectPublishes, Recording, Direct
<1>7. CASE t \notin Receivers
  <2>1. Recording' = Recording
    BY <1>1, <1>2, <1>7, RecordingSame
  <2>2. Direct' = Direct
    BY <1>3, <1>4, <1>5, <1>7 DEF Direct
  <2> QED BY <1>1, <2>1, <2>2 DEF StatsCountDirectPublishes, Recording, Direct
<1> QED BY <1>6, <1>7

\* Counting takes the receiver off those who have to count.
LEMMA CountOne ==
  ASSUME TypeOK, StatsCountDirectPublishes, NEW r \in Receivers, RecordForwarded(r)
  PROVE  StatsCountDirectPublishes'
<1>1. /\ pc[r] = "record" /\ UNCHANGED published
      /\ stats' = [stats EXCEPT !.messages_someip_to_external = @ + 1]
      /\ pc' = [pc EXCEPT ![r] = "idle"]
  BY DEF RecordForwarded, Goto
<1>2. r \in Recording /\ Recording' = Recording \ {r}
  <2>1. Receivers \subseteq Threads
    BY DEF Threads, Publishers
  <2>2. \A u \in Receivers : pc'[u] = IF u = r THEN "idle" ELSE pc[u]
    BY <1>1, <2>1 DEF TypeOK
  <2> QED BY <1>1, <2>2 DEF Recording
<1>3. Cardinality(Recording') = Cardinality(Recording) - 1
  BY <1>2, CountsFinite, FS_RemoveElement
<1>4. stats'.messages_someip_to_external = stats.messages_someip_to_external + 1
  BY <1>1 DEF TypeOK
<1>5. Direct' = Direct
  BY <1>1 DEF Direct
<1>6. /\ stats.messages_someip_to_external + Cardinality(Recording) = Cardinality(Direct)
      /\ Cardinality(Recording) \in Nat /\ stats.messages_someip_to_external \in Nat
  BY CountsFinite DEF StatsCountDirectPublishes, Recording, Direct
<1>7. stats'.messages_someip_to_external + Cardinality(Recording') = Cardinality(Direct')
  BY <1>3, <1>4, <1>5, <1>6
<1> QED BY <1>7 DEF StatsCountDirectPublishes, Recording, Direct

\* Every step keeps the counter in step with what receivers published: a step
\* either publishes, counts, or does neither.
LEMMA CountsNext ==
  ASSUME TypeOK, HandsFull, StatsCountDirectPublishes, [Next]_vars
  PROVE  StatsCountDirectPublishes'
<1> USE DEF Goto
<1>1. CASE UNCHANGED vars \/ SubscribeSomeipEventgroup \/ SetMqttConnected
  BY <1>1, CountsSame DEF vars, SubscribeSomeipEventgroup, SetMqttConnected, Recording
<1>2. ASSUME NEW c \in Controllers,
             \/ StartUdp(c) \/ StartReset(c) \/ StartRunning(c)
             \/ StopServices(c) \/ StopUdp(c) \/ StopRunning(c)
      PROVE  StatsCountDirectPublishes'
  <2>1. c \in Threads /\ c \notin Receivers
    BY ThreadAssumption DEF Threads
  <2>2. PICK l \in Labels : pc' = [pc EXCEPT ![c] = l] \/ UNCHANGED pc
    BY <1>2 DEF StartUdp, StartReset, StartRunning, StopServices, StopUdp, StopRunning, Labels
  <2>3. UNCHANGED <<published, stats>>
    BY <1>2 DEF StartUdp, StartReset, StartRunning, StopServices, StopUdp, StopRunning
  <2> QED BY <2>1, <2>2, <2>3, RecordingSame, CountsSame
<1>3. ASSUME NEW r \in Receivers, NEW m \in Messages, OnSomeipMessage(r, m)
      PROVE  StatsCountDirectPublishes'
  <2>1. r \in Threads
    BY DEF Threads, Publishers
  <2>2. pc[r] # "record" /\ (pc' = [pc EXCEPT ![r] = "publish"] \/ UNCHANGED pc)
    BY <1>3 DEF OnSomeipMessage, Idle
  <2>3. UNCHANGED published
    BY <1>3 DEF OnSomeipMessage
  <2>4. stats'.messages_someip_to_external = stats.messages_someip_to_external
    BY <1>3 DEF OnSomeipMessage, TypeOK
  <2> QED BY <2>1, <2>2, <2>3, <2>4, RecordingSame, CountsSame
<1>4. ASSUME NEW f \in Flushers, FlushCall(f) \/ FlushPop(f)
      PROVE  StatsCountDirectPublishes'
  <2>1. f \in Threads /\ f \notin Receivers
    BY ThreadAssumption DEF Threads, Publishers
  <2>2. PICK l \in Labels : pc' = [pc EXCEPT ![f] = l]
    BY <1>4 DEF FlushCall, FlushPop, Labels
  <2>3. UNCHANGED <<published, stats>>
    BY <1>4 DEF FlushCall, FlushPop
  <2> QED BY <2>1, <2>2, <2>3, RecordingSame, CountsSame
<1>5. ASSUME NEW t \in Publishers, (PublishMqtt(t) /\ ~connected) \/ PushOffline(t)
      PROVE  StatsCountDirectPublishes'
  <2>1. t \in Threads /\ AfterPush(t) # "record"
    BY DEF Threads, AfterPush
  <2>2. /\ pc[t] # "record"
        /\ pc' = [pc EXCEPT ![t] = "push"] \/ pc' = [pc EXCEPT ![t] = AfterPush(t)]
    BY <1>5 DEF PublishMqtt, PushOffline
  <2>3. UNCHANGED <<published, stats>>
    BY <1>5 DEF PublishMqtt, PushOffline
  <2> QED BY <2>1, <2>2, <2>3, RecordingSame, CountsSame
<1> QED BY <1>1, <1>2, <1>3, <1>4, <1>5, DirectPublish, CountOne DEF Next, Continue

\* messages_someip_to_external counts exactly what on_someip_message published,
\* late only by the calls between publishing and recording, for any number of
\* receivers, flushers and controllers.
THEOREM MqttStatsCountDirectPublishes == Spec => []StatsCountDirectPublishes
<1>1. Init => StatsCountDirectPublishes
  <2> SUFFICES ASSUME Init PROVE StatsCountDirectPublishes
    OBVIOUS
  <2>1. Recording = {} /\ Direct = {}
    BY DEF Init, Recording, Direct, Threads, Publishers
  <2>2. stats.messages_someip_to_external = 0
    BY DEF Init
  <2> QED BY <2>1, <2>2, FS_EmptySet DEF StatsCountDirectPublishes, Recording, Direct
<1>2. IInv => TypeOK /\ HandsFull
  BY DEF IInv
<1>3. TypeOK /\ HandsFull /\ StatsCountDirectPublishes /\ [Next]_vars
        => StatsCountDirectPublishes'
  BY CountsNext
<1> QED BY <1>1, <1>2, <1>3, InitInvariant, NextInvariant, PTL DEF Spec
=============================================================================
