-------------------------- MODULE DdsGatewayProofs --------------------------
(***************************************************************************)
(* What holds of DdsGateway for every set of receivers, messages, samples  *)
(* and mappings: the reader thread belongs to the participant, a request   *)
(* is unreliable only where a message of another type shares its topic and *)
(* with it its writer, an echo needs a topic that a mapping names, and the *)
(* outbound direction is a CountingBridge.                                 *)
(***************************************************************************)
EXTENDS DdsGateway, FiniteSetTheorems, SequenceTheorems, WellFoundedInduction, TLAPS

-----------------------------------------------------------------------------
(* The reader thread.                                                      *)

\* Outside stop() a live participant has a reader thread that was not told to
\* stop; from the join on, stop() has none.
ThreadInv ==
  /\ ReaderThreadOwned
  /\ control \in {"idle", "set_running"} /\ participant = "live" =>
       ~reader_stop /\ reader \in {"check", "take"}
  /\ control \in {"delete", "clear_running"} => reader = "none"
  /\ control = "clear_running" => participant # "live"

\* A step that touches none of this keeps it.
LEMMA ThreadSame ==
  ASSUME ThreadInv, UNCHANGED <<participant, control, reader_stop, reader>>
  PROVE  ThreadInv'
BY DEF ThreadInv, ReaderThreadOwned

\* Every step of the gateway keeps it.
LEMMA ThreadNext == ThreadInv /\ [Next]_vars => ThreadInv'
<1> SUFFICES ASSUME ThreadInv, [Next]_vars PROVE ThreadInv'
  OBVIOUS
<1>1. CASE StartImpl
  <2>1. /\ control = "idle"
        /\ \/ control' = "set_running" /\ UNCHANGED <<participant, reader_stop, reader>>
           \/ participant' = "error" /\ participant = "zero"
              /\ UNCHANGED <<control, reader_stop, reader>>
           \/ /\ participant = "zero" /\ participant' = "live" /\ control' = "set_running"
              /\ reader_stop' = FALSE /\ reader' = "check"
    BY <1>1, Zenon DEF StartImpl
  <2> QED BY <2>1 DEF ThreadInv, ReaderThreadOwned
<1>2. CASE StartRunning
  BY <1>2 DEF ThreadInv, ReaderThreadOwned, StartRunning, inbound
<1>3. CASE StopUdp
  BY <1>3 DEF ThreadInv, ReaderThreadOwned, StopUdp
<1>4. CASE StopJoin
  BY <1>4 DEF ThreadInv, ReaderThreadOwned, StopJoin
<1>5. CASE StopDelete
  BY <1>5, Zenon DEF ThreadInv, ReaderThreadOwned, StopDelete
<1>6. CASE StopRunning
  BY <1>6 DEF ThreadInv, ReaderThreadOwned, StopRunning, inbound
<1>7. ASSUME NEW r \in Receivers, NEW m \in Messages, OnSomeipMessage(r, m)
      PROVE  ThreadInv'
  BY <1>7, ThreadSame DEF OnSomeipMessage, lifecycle, inbound
<1>8. ASSUME NEW r \in Receivers,
             CheckParticipant(r) \/ EnsureTopic(r) \/ EnsureWriter(r) \/ Record(r)
      PROVE  ThreadInv'
  BY <1>8, ThreadSame DEF CheckParticipant, EnsureTopic, EnsureWriter, Record, lifecycle, inbound
<1>9. ASSUME NEW r \in Receivers, DdsWrite(r) PROVE ThreadInv'
  BY <1>9, ThreadSame DEF DdsWrite, lifecycle
<1>10. ASSUME NEW x \in Samples, RemoteWrites(x) \/ InjectDdsSample(x)
       PROVE  ThreadInv'
  BY <1>10, ThreadSame DEF RemoteWrites, InjectDdsSample, lifecycle
<1>11. CASE ReaderCheck
  BY <1>11 DEF ThreadInv, ReaderThreadOwned, ReaderCheck, lifecycle
<1>12. ASSUME NEW t \in Topics, ReaderTake(t) PROVE ThreadInv'
  BY <1>12 DEF ThreadInv, ReaderThreadOwned, ReaderTake, lifecycle
<1>13. CASE UNCHANGED vars
  BY <1>13, ThreadSame DEF vars
<1> QED BY <1>1, <1>2, <1>3, <1>4, <1>5, <1>6, <1>7, <1>8, <1>9, <1>10, <1>11, <1>12,
           <1>13 DEF Next

\* stop() joins the reader thread before it deletes the participant, and start()
\* creates one only with a new participant: the thread never outlives it, and
\* start() never assigns over a thread that was not joined.
THEOREM DdsReaderThreadOwned == Spec => []ReaderThreadOwned
<1>1. Init => ThreadInv
  BY DEF Init, ThreadInv, ReaderThreadOwned
<1>2. ThreadInv => ReaderThreadOwned
  BY DEF ThreadInv
<1> QED BY <1>1, <1>2, ThreadNext, PTL DEF Spec

-----------------------------------------------------------------------------
(* Topics and their names.                                                 *)

\* find_mapping_for_service returns nothing or the index of a mapping of the
\* service.
LEMMA FindService ==
  ASSUME NEW service, NEW instance,
         find_mapping_for_service(Mappings, service, instance) # 0
  PROVE  LET i == find_mapping_for_service(Mappings, service, instance)
         IN  i \in DOMAIN Mappings /\ Mappings[i].service = service
<1> DEFINE i == find_mapping_for_service(Mappings, service, instance)
           I == {j \in 1 .. Len(Mappings) :
                   Mappings[j].service = service /\ Mappings[j].instance = instance}
           Less == {p \in Nat \X Nat : p[1] < p[2]}
<1>1. i = IF I # {} THEN Min(I) ELSE 0
  BY DEF find_mapping_for_service, SelectInSeq
<1>2. I # {}
  BY <1>1
<1>3. I \in SUBSET Nat
  OBVIOUS
<1>4. PICK k \in I : \A j \in I : ~(<<j, k>> \in Less)
  <2>1. IsWellFoundedOn(Less, Nat)
    BY NatLessThanWellFounded DEF OpToRel
  <2> HIDE DEF Less, I
  <2> QED BY <1>2, <1>3, <2>1, WFMin, Zenon
<1>5. \A j \in I : k <= j
  <2> SUFFICES ASSUME NEW j \in I PROVE k <= j
    OBVIOUS
  <2>1. k \in Nat /\ j \in Nat /\ ~(<<j, k>> \in Less)
    <3> HIDE DEF Less, I
    <3> QED BY <1>3, <1>4
  <2> QED BY <2>1
<1>6. Min(I) \in I
  <2> HIDE DEF I
  <2> QED BY <1>4, <1>5 DEF Min
<1>7. i \in 1 .. Len(Mappings) /\ Mappings[i].service = service
  <2>1. i \in I
    <3> HIDE DEF i, I
    <3> QED BY <1>1, <1>2, <1>6
  <2> QED BY <2>1
<1>8. DOMAIN Mappings = 1 .. Len(Mappings)
  BY MappingsAssumption
<1> QED BY <1>7, <1>8

\* The mapping of a message is one of its service.
LEMMA MappingOfService ==
  ASSUME NEW m \in Messages, MappingFor(m) # 0
  PROVE  /\ MappingFor(m) \in DOMAIN Mappings
         /\ Mappings[MappingFor(m)].service = m.service
<1> DEFINE Found(instance) == find_mapping_for_service(Mappings, m.service, instance)
<1>1. MappingFor(m) = Found(DefaultInstance) \/ MappingFor(m) = Found(1)
  BY DEF MappingFor
<1> QED BY <1>1, FindService

\* A number is known by its last hexadecimal digit and the ones before it.
LEMMA LastDigit ==
  ASSUME NEW u \in Nat, NEW w \in Nat, u % 16 = w % 16, u \div 16 = w \div 16
  PROVE  u = w
OBVIOUS

\* Dropping one digit after another.
LEMMA DropDigits ==
  ASSUME NEW u \in Uint16
  PROVE  /\ u \in Nat /\ u \div 16 \in Nat /\ u \div 256 \in Nat /\ u \div 4096 \in 0 .. 15
         /\ u \div 256 = (u \div 16) \div 16 /\ u \div 4096 = (u \div 256) \div 16
         /\ (u \div 4096) % 16 = u \div 4096
<1>1. u \in Nat /\ u < 65536
  BY DEF Uint16
<1>2. u \div 4096 \in 0 .. 15
  BY <1>1
<1>6. u \div 16 \in Nat
  BY <1>1
<1>7. u \div 256 \in Nat
  BY <1>1
<1>3. u \div 256 = (u \div 16) \div 16
  BY <1>1
<1>4. u \div 4096 = (u \div 256) \div 16
  BY <1>1
<1>5. \A a \in 0 .. 15 : a % 16 = a
  OBVIOUS
<1> QED BY <1>1, <1>2, <1>3, <1>4, <1>5, <1>6, <1>7

\* What follows the first two elements of a sequence.
LEMMA TailsEqual ==
  ASSUME NEW S, NEW s \in Seq(S), NEW t \in Seq(S), NEW x, NEW y, Len(s) = 4, Len(t) = 4,
         <<x, y>> \o s = <<x, y>> \o t
  PROVE  s = t
<1> DEFINE p == <<x, y>>
           T == S \cup {x, y}
<1>1. p \in Seq(T) /\ Len(p) = 2 /\ s \in Seq(T) /\ t \in Seq(T)
  OBVIOUS
<1> HIDE DEF p, T
<1>2. ASSUME NEW q \in Seq(T), Len(q) = 4, NEW k \in 1 .. 4
      PROVE  (p \o q)[k + 2] = q[k]
  <2>1. k + 2 \in 1 .. Len(p) + Len(q) /\ ~(k + 2 <= Len(p)) /\ (k + 2) - Len(p) = k
    BY <1>1, <1>2
  <2>2. \A i \in 1 .. Len(p) + Len(q) :
          (p \o q)[i] = IF i <= Len(p) THEN p[i] ELSE q[i - Len(p)]
    BY <1>1, <1>2, ConcatProperties, Zenon
  <2>3. (p \o q)[k + 2] = q[(k + 2) - Len(p)]
    BY <2>1, <2>2, Zenon
  <2> QED BY <2>1, <2>3, Zenon
<1>3. p \o s = p \o t
  BY Zenon DEF p
<1>4. \A k \in 1 .. 4 : s[k] = t[k]
  <2> TAKE k \in 1 .. 4
  <2>1. (p \o s)[k + 2] = s[k] /\ (p \o t)[k + 2] = t[k]
    BY <1>1, <1>2, Zenon
  <2> QED BY <1>3, <2>1, Zenon
<1>5. Len(s) = Len(t) /\ \A k \in 1 .. Len(s) : s[k] = t[k]
  BY <1>4, Zenon
<1> QED BY <1>5, SeqEqual, Zenon

\* Four hexadecimal digits identify a 16-bit number.
LEMMA HexIdentifies ==
  ASSUME NEW v \in Uint16, NEW w \in Uint16, format_service_id(v) = format_service_id(w)
  PROVE  v = w
<1> DEFINE D4(u) == (u \div 4096) % 16
           D3(u) == (u \div 256) % 16
           D2(u) == (u \div 16) % 16
           D1(u) == u % 16
<1>1. D4(v) = D4(w) /\ D3(v) = D3(w) /\ D2(v) = D2(w) /\ D1(v) = D1(w)
  <2>1. /\ Hex4(v) = <<D4(v), D3(v), D2(v), D1(v)>>
        /\ Hex4(w) = <<D4(w), D3(w), D2(w), D1(w)>>
    BY DEF Hex4
  <2> DEFINE S == {D4(v), D3(v), D2(v), D1(v), D4(w), D3(w), D2(w), D1(w)}
  <2> HIDE DEF D1, D2, D3, D4
  <2>2. Hex4(v) \in Seq(S) /\ Hex4(w) \in Seq(S) /\ Len(Hex4(v)) = 4 /\ Len(Hex4(w)) = 4
    BY <2>1
  <2>3. Hex4(v) = Hex4(w)
    <3> HIDE DEF S
    <3> QED BY <2>2, TailsEqual, Zenon DEF format_service_id
  <2> QED BY <2>1, <2>3
<1>2. v \div 4096 = w \div 4096
  <2>1. v \div 4096 = (v \div 4096) % 16
    BY DropDigits
  <2>2. w \div 4096 = (w \div 4096) % 16
    BY DropDigits
  <2> QED BY <1>1, <2>1, <2>2
<1>3. v \div 256 = w \div 256
  <2>1. (v \div 256) \div 16 = (w \div 256) \div 16
    BY <1>2, DropDigits
  <2> QED BY <1>1, <2>1, DropDigits, LastDigit
<1>4. v \div 16 = w \div 16
  <2>1. (v \div 16) \div 16 = (w \div 16) \div 16
    BY <1>3, DropDigits
  <2> QED BY <1>1, <2>1, DropDigits, LastDigit
<1> QED BY <1>1, <1>4, DropDigits, LastDigit

\* The kind of a message's default topic.
Kind(m) == IF m.type = NOTIFICATION THEN <<"event">> ELSE <<"method">>

\* The topic of a message whose mapping gives it no name.
LEMMA TopicOfMessage ==
  ASSUME NEW m \in Messages, MappingFor(m) # 0, OnDefaultTopic(m)
  PROVE  MessageTopic[m] = DdsTopic(m.service, Mappings[MappingFor(m)].instance, Kind(m), m.method)
<1>1. MessageTopic[m] = resolve_dds_topic(m, Mappings[MappingFor(m)])
  BY DEF MessageTopic
<1>2. Mappings[MappingFor(m)].service = m.service
  BY MappingOfService
<1> QED BY <1>1, <1>2, Zenon DEF resolve_dds_topic, OnDefaultTopic, build_dds_topic, Kind

\* Default topics are equal only for the same service, kind and method.
LEMMA DefaultTopicsIdentify ==
  ASSUME NEW m \in Messages, NEW n \in Messages, MappingFor(m) # 0, MappingFor(n) # 0,
         OnDefaultTopic(m), OnDefaultTopic(n), MessageTopic[m] = MessageTopic[n]
  PROVE  m.service = n.service /\ m.method = n.method /\ Kind(m) = Kind(n)
<1>1. DdsTopic(m.service, Mappings[MappingFor(m)].instance, Kind(m), m.method)
        = DdsTopic(n.service, Mappings[MappingFor(n)].instance, Kind(n), n.method)
  BY TopicOfMessage
<1>2. /\ format_service_id(m.service) = format_service_id(n.service)
      /\ Kind(m) = Kind(n) /\ format_service_id(m.method) = format_service_id(n.method)
  BY <1>1 DEF DdsTopic
<1> QED BY <1>2, HexIdentifies, MessagesAssumption

\* A reader's topic is the topic of a message only where one of the two mappings
\* names it: readers' default topics are of a third kind.
LEMMA InboundTopicIsNamed ==
  ASSUME NEW m \in Messages, MappingFor(m) # 0, MessageTopic[m] \in InboundTopics
  PROVE  \E j \in DOMAIN Mappings :
           /\ should_forward_to_someip(Mappings[j])
           /\ ReaderTopic(Mappings[j]) = MessageTopic[m]
           /\ Mappings[j].external # <<>> \/ ~OnDefaultTopic(m)
<1>1. PICK j \in DOMAIN Mappings :
        should_forward_to_someip(Mappings[j]) /\ MessageTopic[m] = ReaderTopic(Mappings[j])
  BY DEF InboundTopics
<1>2. ASSUME Mappings[j].external = <<>>, OnDefaultTopic(m) PROVE FALSE
  <2> DEFINE mid == Head(Mappings[j].methods \o Mappings[j].groups \o <<0>>)
             inst == Mappings[MappingFor(m)].instance
  <2>1. ReaderTopic(Mappings[j])
          = DdsTopic(Mappings[j].service, Mappings[j].instance, <<"m">>, mid)
    BY <1>2 DEF ReaderTopic, build_reader_topic
  <2>2. MessageTopic[m] = DdsTopic(m.service, inst, Kind(m), m.method)
    BY <1>2, TopicOfMessage
  <2> HIDE DEF mid, inst
  <2>3. Kind(m)[1] # "m"
    BY DEF Kind
  <2>4. Kind(m) # <<"m">>
    BY <2>3
  <2>5. \A s, i, d : DdsTopic(s, i, Kind(m), d)
                       # DdsTopic(Mappings[j].service, Mappings[j].instance, <<"m">>, mid)
    BY <2>4 DEF DdsTopic
  <2> QED BY <1>1, <2>1, <2>2, <2>5, Zenon
<1> QED BY <1>1, <1>2, Zenon

-----------------------------------------------------------------------------
(* Messages on their way out.                                              *)

Reliability == {"Reliable", "BestEffort"}
QosSet == [reliability : Reliability, durability : {"Volatile", "TransientLocal"}, depth : Nat]
Writer == [qos : QosSet \cup {<<>>}, live : BOOLEAN]
TopicState == {"none", "live", "bad"}
Call == [msg : Messages \cup {[id |-> 0]}, topic : TopicState, writer : Writer]

\* The values of what on_someip_message reads and writes.
OutTypes ==
  /\ pc \in [Receivers -> {"idle", "participant", "topic", "writer", "write", "record"}]
  /\ call \in [Receivers -> Call]
  /\ topics \in [Topics -> TopicState]
  /\ writers \in [Topics -> Writer]
  /\ written \in Seq([msg : Messages, reliability : Reliability])
  /\ arrived \subseteq Messages \cup Samples

\* A receiver has a message in hand that it has not written yet.
InHand(r) == pc[r] \in {"participant", "topic", "writer", "write"}

\* A message that arrived, has the topic t and asks for the QoS q.
CreatedFor(t, q) ==
  \E n \in arrived \cap Messages : MappingFor(n) # 0 /\ MessageTopic[n] = t /\ WriterQos(n) = q

\* What was written used the writer of a message with the same topic.
WrittenFor(w) ==
  /\ w.msg \in arrived /\ MappingFor(w.msg) # 0
  /\ \E n \in arrived \cap Messages :
       MappingFor(n) # 0 /\ MessageTopic[n] = MessageTopic[w.msg]
         /\ WriterQos(n).reliability = w.reliability

\* Every writer, in the map or in a receiver's hand, was created for a message of
\* its topic, and so was the one each message was written with.
Provenance ==
  /\ \A r \in Receivers : InHand(r) =>
       call[r].msg \in Messages /\ call[r].msg \in arrived /\ MappingFor(call[r].msg) # 0
  /\ \A t \in Topics : writers[t] = noWriter \/ CreatedFor(t, writers[t].qos)
  /\ \A r \in Receivers : pc[r] = "write" => CreatedFor(TopicOf(r), call[r].writer.qos)
  /\ \A i \in DOMAIN written : WrittenFor(written[i])

\* A message is in one hand, or written once, never both.
Once ==
  /\ \A r, s \in Receivers : InHand(r) /\ InHand(s) /\ call[r].msg = call[s].msg => r = s
  /\ \A r \in Receivers : InHand(r) => \A i \in DOMAIN written : written[i].msg # call[r].msg
  /\ \A i, j \in DOMAIN written : written[i].msg = written[j].msg => i = j

OutInv == OutTypes /\ Provenance /\ Once

\* The QoS a message asks for, and what the translator can say.
LEMMA WriterQosType == ASSUME NEW n PROVE WriterQos(n) \in QosSet
BY DEF WriterQos, qos_for_someip_message, Qos, QosSet, Reliability

\* The topic of a message that has a mapping is one of the topics.
LEMMA TopicKnown ==
  ASSUME NEW m \in Messages, MappingFor(m) # 0
  PROVE  MessageTopic[m] \in Topics
BY DEF MessageTopic, Topics, Range

\* What a message was created for stays true when more arrives.
LEMMA Monotone ==
  ASSUME arrived \subseteq arrived'
  PROVE  /\ \A t, q : CreatedFor(t, q) => CreatedFor(t, q)'
         /\ \A w : WrittenFor(w) => WrittenFor(w)'
BY DEF CreatedFor, WrittenFor

\* A step that only lets something arrive, or changes the state of topics.
LEMMA OutSame ==
  ASSUME OutInv, UNCHANGED <<pc, call, writers, written>>, topics' \in [Topics -> TopicState],
         arrived \subseteq arrived', arrived' \subseteq Messages \cup Samples
  PROVE  OutInv'
<1>1. OutTypes'
  BY DEF OutInv, OutTypes
<1>2. \A r \in Receivers : InHand(r)' = InHand(r) /\ TopicOf(r)' = TopicOf(r)
  BY DEF InHand, TopicOf
<1>3. Provenance'
  BY <1>2, Monotone DEF OutInv, Provenance
<1>4. Once'
  BY <1>2 DEF OutInv, Once
<1> QED BY <1>1, <1>3, <1>4 DEF OutInv

\* A call that returns without a change to what is shared.
LEMMA OutReturn ==
  ASSUME OutInv, NEW r \in Receivers, Return(r), UNCHANGED <<topics, writers, written, arrived>>
  PROVE  OutInv'
<1>1. noCall \in Call
  BY DEF noCall, noWriter, Call, TopicState, Writer
<1>2. /\ pc' = [pc EXCEPT ![r] = "idle"] /\ call' = [call EXCEPT ![r] = noCall]
      /\ pc \in [Receivers -> {"idle", "participant", "topic", "writer", "write", "record"}]
      /\ call \in [Receivers -> Call]
  BY DEF OutInv, OutTypes, Return, Goto
<1>3. OutTypes'
  BY <1>1, <1>2 DEF OutInv, OutTypes
<1>4. pc'[r] = "idle" /\ \A s \in Receivers \ {r} : pc'[s] = pc[s] /\ call'[s] = call[s]
  BY <1>2
<1>5. ~InHand(r)'
  BY <1>4 DEF InHand
<1>6. \A s \in Receivers \ {r} : InHand(s)' = InHand(s) /\ TopicOf(s)' = TopicOf(s)
  BY <1>4 DEF InHand, TopicOf
<1>7. Provenance'
  BY <1>4, <1>5, <1>6, Monotone DEF OutInv, Provenance
<1>8. Once'
  BY <1>4, <1>5, <1>6 DEF OutInv, Once
<1> QED BY <1>3, <1>7, <1>8 DEF OutInv

\* A call that goes on with the message it has.
LEMMA OutGoOn ==
  ASSUME OutInv, NEW r \in Receivers, NEW c \in Call, NEW label \in {"topic", "writer", "write"},
         InHand(r), c.msg = call[r].msg,
         label = "write" => CreatedFor(TopicOf(r), c.writer.qos),
         pc' = [pc EXCEPT ![r] = label], call' = [call EXCEPT ![r] = c],
         topics' \in [Topics -> TopicState], writers' \in [Topics -> Writer],
         \A t \in Topics : writers'[t] = noWriter \/ CreatedFor(t, writers'[t].qos),
         UNCHANGED <<written, arrived>>
  PROVE  OutInv'
<1>1. /\ pc \in [Receivers -> {"idle", "participant", "topic", "writer", "write", "record"}]
      /\ call \in [Receivers -> Call]
  BY DEF OutInv, OutTypes
<1>2. OutTypes'
  BY <1>1 DEF OutInv, OutTypes
<1>3. /\ pc'[r] = label /\ call'[r] = c
      /\ \A s \in Receivers \ {r} : pc'[s] = pc[s] /\ call'[s] = call[s]
  BY <1>1
<1>4. \A s \in Receivers : /\ InHand(s)' = InHand(s) /\ TopicOf(s)' = TopicOf(s)
                           /\ call'[s].msg = call[s].msg
  BY <1>3 DEF InHand, TopicOf
<1>5. Provenance'
  <2>1. \A s \in Receivers : InHand(s)' =>
          call'[s].msg \in Messages /\ call'[s].msg \in arrived' /\ MappingFor(call'[s].msg) # 0
    BY <1>4 DEF OutInv, Provenance
  <2>2. \A s \in Receivers : pc'[s] = "write" => CreatedFor(TopicOf(s), call[s].writer.qos)'
    BY <1>3, <1>4, Monotone DEF OutInv, Provenance
  <2>3. \A t \in Topics : writers'[t] = noWriter \/ CreatedFor(t, writers[t].qos)'
    BY Monotone
  <2>4. \A i \in DOMAIN written' : WrittenFor(written[i])'
    BY Monotone DEF OutInv, Provenance
  <2> QED BY <2>1, <2>2, <2>3, <2>4 DEF Provenance
<1>6. Once'
  BY <1>4 DEF OutInv, Once
<1> QED BY <1>2, <1>5, <1>6 DEF OutInv

\* A message enters: nobody has it and it was not written.
LEMMA OutArrives ==
  ASSUME OutInv, NEW r \in Receivers, NEW m \in Messages, OnSomeipMessage(r, m)
  PROVE  OutInv'
<1>1. /\ pc[r] = "idle" /\ m \notin arrived /\ arrived' = arrived \cup {m}
      /\ UNCHANGED <<topics, writers, written>>
      /\ \/ UNCHANGED <<pc, call>>
         \/ /\ MappingFor(m) # 0 /\ pc' = [pc EXCEPT ![r] = "participant"]
            /\ call' = [call EXCEPT ![r].msg = m]
  BY Zenon DEF OnSomeipMessage, Goto
<1>2. CASE UNCHANGED <<pc, call>>
  BY <1>1, <1>2, OutSame DEF OutInv, OutTypes
<1>3. CASE /\ MappingFor(m) # 0 /\ pc' = [pc EXCEPT ![r] = "participant"]
           /\ call' = [call EXCEPT ![r].msg = m]
  <2>1. /\ pc \in [Receivers -> {"idle", "participant", "topic", "writer", "write", "record"}]
        /\ call \in [Receivers -> Call]
    BY DEF OutInv, OutTypes
  <2>2. [call[r] EXCEPT !.msg = m] \in Call
    BY <2>1 DEF Call
  <2>3. OutTypes'
    BY <1>1, <1>3, <2>1, <2>2 DEF OutInv, OutTypes
  <2>4. /\ pc'[r] = "participant" /\ call'[r].msg = m
        /\ \A s \in Receivers \ {r} : pc'[s] = pc[s] /\ call'[s] = call[s]
    BY <1>3, <2>1 DEF Call
  <2>5. \A s \in Receivers \ {r} : InHand(s)' = InHand(s) /\ TopicOf(s)' = TopicOf(s)
    BY <2>4 DEF InHand, TopicOf
  <2>6. ~InHand(r) /\ (\A s \in Receivers : InHand(s) => call[s].msg # m)
          /\ \A i \in DOMAIN written : written[i].msg # m
    BY <1>1 DEF OutInv, Provenance, InHand, WrittenFor
  <2>7. Provenance'
    <3>1. \A s \in Receivers : InHand(s)' =>
            call'[s].msg \in Messages /\ call'[s].msg \in arrived' /\ MappingFor(call'[s].msg) # 0
      BY <1>1, <1>3, <2>4, <2>5 DEF OutInv, Provenance
    <3>2. \A s \in Receivers : pc'[s] = "write" => CreatedFor(TopicOf(s), call[s].writer.qos)'
      BY <1>1, <2>4, <2>5, Monotone DEF OutInv, Provenance
    <3>3. \A t \in Topics : writers'[t] = noWriter \/ CreatedFor(t, writers[t].qos)'
      BY <1>1, Monotone DEF OutInv, Provenance
    <3>4. \A i \in DOMAIN written' : WrittenFor(written[i])'
      BY <1>1, Monotone DEF OutInv, Provenance
    <3> QED BY <3>1, <3>2, <3>3, <3>4 DEF Provenance
  <2>8. Once'
    BY <1>1, <2>4, <2>5, <2>6 DEF OutInv, Once
  <2> QED BY <2>3, <2>7, <2>8 DEF OutInv
<1> QED BY <1>1, <1>2, <1>3

\* ensure_topic returns a state of a topic.
LEMMA EnsureTopicType ==
  ASSUME topics \in [Topics -> TopicState], NEW t \in Topics, NEW b \in BOOLEAN
  PROVE  ensure_topic(t, b) \in TopicState
BY DEF ensure_topic, TopicState

\* What a receiver holds while it has a message.
LEMMA InHandFacts ==
  ASSUME OutInv, NEW r \in Receivers, InHand(r)
  PROVE  /\ call[r] \in Call /\ call[r].msg \in Messages /\ call[r].msg \in arrived
         /\ MappingFor(call[r].msg) # 0 /\ TopicOf(r) \in Topics
         /\ CreatedFor(TopicOf(r), WriterQos(call[r].msg))
         /\ \A q : [call EXCEPT ![r].topic = q] = [call EXCEPT ![r] = [call[r] EXCEPT !.topic = q]]
<1>1. call[r] \in Call
  BY DEF OutInv, OutTypes
<1>2. call[r].msg \in Messages /\ call[r].msg \in arrived /\ MappingFor(call[r].msg) # 0
  BY DEF OutInv, Provenance
<1>3. TopicOf(r) \in Topics
  BY <1>2, TopicKnown DEF TopicOf
<1>4. CreatedFor(TopicOf(r), WriterQos(call[r].msg))
  BY <1>2 DEF CreatedFor, TopicOf
<1> QED BY <1>1, <1>2, <1>3, <1>4

\* The steps up to the writer keep the message.
LEMMA OutEnsure ==
  ASSUME OutInv, NEW r \in Receivers,
         CheckParticipant(r) \/ EnsureTopic(r) \/ EnsureWriter(r)
  PROVE  OutInv'
<1>1. InHand(r)
  BY DEF InHand, CheckParticipant, EnsureTopic, EnsureWriter
<1>2. /\ call \in [Receivers -> Call] /\ topics \in [Topics -> TopicState]
      /\ writers \in [Topics -> Writer]
      /\ \A t \in Topics : writers[t] = noWriter \/ CreatedFor(t, writers[t].qos)
  BY DEF OutInv, OutTypes, Provenance
<1>3. CASE CheckParticipant(r)
  <2>1. UNCHANGED <<topics, writers, written, arrived>>
    BY <1>3 DEF CheckParticipant
  <2>2. CASE Return(r)
    BY <2>1, <2>2, OutReturn
  <2>3. CASE Goto(r, "topic") /\ UNCHANGED call
    <3>1. call' = [call EXCEPT ![r] = call[r]]
      BY <1>2, <2>3
    <3> QED BY <1>1, <1>2, <2>1, <2>3, <3>1, InHandFacts, OutGoOn, Zenon DEF Goto
  <2> QED BY <1>3, <2>2, <2>3 DEF CheckParticipant
<1>4. CASE EnsureTopic(r)
  <2> DEFINE h == ensure_topic(TopicOf(r), participant = "live")
             c == [call[r] EXCEPT !.topic = h]
  <2>1. /\ topics' = [topics EXCEPT ![TopicOf(r)] = h] /\ call' = [call EXCEPT ![r].topic = h]
        /\ pc' = [pc EXCEPT ![r] = "writer"] /\ UNCHANGED <<writers, written, arrived>>
    BY <1>4 DEF EnsureTopic, Goto
  <2>2. h \in TopicState
    BY <1>1, <1>2, InHandFacts, EnsureTopicType, Zenon
  <2> HIDE DEF h
  <2>3. c \in Call /\ c.msg = call[r].msg
    BY <1>1, <2>2, InHandFacts DEF Call
  <2>4. call' = [call EXCEPT ![r] = c] /\ topics' \in [Topics -> TopicState]
    BY <1>1, <1>2, <2>1, <2>2, InHandFacts
  <2> HIDE DEF c
  <2> QED BY <1>1, <1>2, <2>1, <2>3, <2>4, OutGoOn, Zenon
<1>5. CASE EnsureWriter(r)
  <2>1. UNCHANGED <<topics, written, arrived>>
    BY <1>5 DEF EnsureWriter
  <2>2. CASE Return(r) /\ UNCHANGED writers
    BY <2>1, <2>2, OutReturn
  <2>3. CASE /\ writers[TopicOf(r)] # noWriter
             /\ call' = [call EXCEPT ![r].writer = writers[TopicOf(r)]]
             /\ Goto(r, "write") /\ UNCHANGED writers
    <3> DEFINE w == writers[TopicOf(r)]
               c == [call[r] EXCEPT !.writer = w]
    <3>1. w \in Writer /\ CreatedFor(TopicOf(r), w.qos)
      BY <1>1, <1>2, <2>3, InHandFacts
    <3>2. c \in Call /\ c.msg = call[r].msg /\ c.writer = w
      BY <1>1, <3>1, InHandFacts DEF Call
    <3>3. call' = [call EXCEPT ![r] = c]
      BY <1>2, <2>3
    <3> HIDE DEF w, c
    <3> QED BY <1>1, <1>2, <2>1, <2>3, <3>1, <3>2, <3>3, OutGoOn, Zenon DEF Goto
  <2>4. ASSUME NEW w, w = [qos |-> WriterQos(call[r].msg), live |-> TRUE],
               writers' = [writers EXCEPT ![TopicOf(r)] = w],
               call' = [call EXCEPT ![r].writer = w], Goto(r, "write")
        PROVE  OutInv'
    <3> DEFINE c == [call[r] EXCEPT !.writer = w]
    <3>1. w \in Writer /\ CreatedFor(TopicOf(r), w.qos)
      BY <1>1, <2>4, InHandFacts, WriterQosType DEF Writer
    <3>2. c \in Call /\ c.msg = call[r].msg /\ c.writer = w
      BY <1>1, <3>1, InHandFacts DEF Call
    <3>3. call' = [call EXCEPT ![r] = c]
      BY <1>2, <2>4
    <3>4. /\ writers' \in [Topics -> Writer]
          /\ \A t \in Topics : writers'[t] = noWriter \/ CreatedFor(t, writers'[t].qos)
      BY <1>1, <1>2, <2>4, <3>1, InHandFacts
    <3> HIDE DEF c
    <3> QED BY <1>1, <1>2, <2>1, <2>4, <3>1, <3>2, <3>3, <3>4, OutGoOn, Zenon DEF Goto
  <2> QED BY <1>5, <2>2, <2>3, <2>4, Zenon DEF EnsureWriter
<1> QED BY <1>3, <1>4, <1>5

\* A write: the message goes from the receiver's hand to what is written.
LEMMA OutWrite ==
  ASSUME OutInv, NEW r \in Receivers, pc[r] = "write", pc' = [pc EXCEPT ![r] = "record"],
         written' = Append(written, Written(r)), UNCHANGED <<call, topics, writers, arrived>>
  PROVE  OutInv'
<1> DEFINE w == Written(r)
<1>1. InHand(r)
  BY DEF InHand
<1>2. /\ pc \in [Receivers -> {"idle", "participant", "topic", "writer", "write", "record"}]
      /\ written \in Seq([msg : Messages, reliability : Reliability])
  BY DEF OutInv, OutTypes
<1>3. PICK n \in arrived \cap Messages :
        MappingFor(n) # 0 /\ MessageTopic[n] = TopicOf(r) /\ WriterQos(n) = call[r].writer.qos
  BY DEF OutInv, Provenance, CreatedFor
<1>4. w.msg = call[r].msg /\ w.reliability = WriterQos(n).reliability
  BY <1>3 DEF Written
<1>5. w \in [msg : Messages, reliability : Reliability]
  <2>1. WriterQos(n).reliability \in Reliability
    BY WriterQosType DEF QosSet
  <2>2. w = [msg |-> call[r].msg, reliability |-> WriterQos(n).reliability]
    BY <1>3 DEF Written
  <2> HIDE DEF w
  <2> QED BY <1>1, <2>1, <2>2, InHandFacts
<1>6. WrittenFor(w)
  <2> HIDE DEF w
  <2> QED BY <1>1, <1>3, <1>4, InHandFacts DEF WrittenFor, TopicOf
<1> HIDE DEF w
<1>7. written' = Append(written, w)
  BY DEF w
<1>8. /\ written' \in Seq([msg : Messages, reliability : Reliability])
      /\ Len(written') = Len(written) + 1
      /\ DOMAIN written' = 1 .. (Len(written) + 1) /\ DOMAIN written = 1 .. Len(written)
      /\ written'[Len(written) + 1] = w
      /\ \A i \in 1 .. Len(written) : written'[i] = written[i]
  BY <1>2, <1>5, <1>7
<1>9. OutTypes'
  BY <1>2, <1>8 DEF OutInv, OutTypes
<1>10. pc'[r] = "record" /\ \A s \in Receivers \ {r} : pc'[s] = pc[s]
  BY <1>2
<1>11. ~InHand(r)' /\ \A s \in Receivers : TopicOf(s)' = TopicOf(s) /\ (InHand(s)' => InHand(s))
  BY <1>10 DEF InHand, TopicOf
<1>12. Provenance'
  <2>1. \A s \in Receivers : InHand(s)' =>
          call'[s].msg \in Messages /\ call'[s].msg \in arrived' /\ MappingFor(call'[s].msg) # 0
    BY <1>11 DEF OutInv, Provenance
  <2>2. \A s \in Receivers : pc'[s] = "write" => CreatedFor(TopicOf(s), call[s].writer.qos)'
    BY <1>10, <1>11, Monotone DEF OutInv, Provenance
  <2>3. \A t \in Topics : writers'[t] = noWriter \/ CreatedFor(t, writers[t].qos)'
    BY Monotone DEF OutInv, Provenance
  <2>4. \A i \in DOMAIN written' : WrittenFor(written[i])'
    <3>1. \A i \in DOMAIN written' : WrittenFor(written'[i])
      BY <1>6, <1>8 DEF OutInv, Provenance
    <3> QED BY <3>1, Monotone
  <2> QED BY <2>1, <2>2, <2>3, <2>4 DEF Provenance
<1>13. Once'
  <2>1. \A s \in Receivers : s # r /\ InHand(s) => call[s].msg # w.msg
    BY <1>1, <1>4 DEF OutInv, Once
  <2>2. \A i \in 1 .. Len(written) : written[i].msg # w.msg
    BY <1>1, <1>4, <1>8, SMTT(20) DEF OutInv, Once
  <2>3. \A s, u \in Receivers : InHand(s)' /\ InHand(u)' /\ call'[s].msg = call'[u].msg => s = u
    BY <1>11 DEF OutInv, Once
  <2>4. \A s \in Receivers : InHand(s)' => \A i \in DOMAIN written' : written'[i].msg # call'[s].msg
    <3> SUFFICES ASSUME NEW s \in Receivers, InHand(s)', NEW i \in DOMAIN written'
                 PROVE  written'[i].msg # call'[s].msg
      OBVIOUS
    <3>1. s # r /\ InHand(s)
      BY <1>11
    <3>2. CASE i = Len(written) + 1
      BY <1>8, <2>1, <3>1, <3>2
    <3>3. CASE i \in 1 .. Len(written)
      BY <1>8, <3>1, <3>3 DEF OutInv, Once
    <3> QED BY <1>8, <3>2, <3>3
  <2>5. \A i, j \in DOMAIN written' : written'[i].msg = written'[j].msg => i = j
    <3> SUFFICES ASSUME NEW i \in DOMAIN written', NEW j \in DOMAIN written',
                        written'[i].msg = written'[j].msg
                 PROVE  i = j
      OBVIOUS
    <3>1. CASE i \in 1 .. Len(written) /\ j \in 1 .. Len(written)
      BY <1>8, <3>1 DEF OutInv, Once
    <3>2. CASE i = Len(written) + 1 \/ j = Len(written) + 1
      BY <1>8, <2>2, <3>2
    <3> QED BY <1>8, <3>1, <3>2
  <2> QED BY <2>3, <2>4, <2>5 DEF Once
<1> QED BY <1>9, <1>12, <1>13 DEF OutInv

\* What becomes of a writer, and of a call that holds one, when the participant is
\* deleted.
LEMMA DeletedHandles ==
  /\ \A w \in Writer :
       LET d == [w EXCEPT !.live = FALSE]
       IN  d \in Writer /\ d.qos = w.qos /\ (w = noWriter => d = noWriter)
  /\ \A c \in Call :
       LET d == [c EXCEPT !.topic = Deleted(@), !.writer.live = FALSE]
       IN  d \in Call /\ d.msg = c.msg /\ d.writer.qos = c.writer.qos
<1>1. ASSUME NEW w \in Writer
      PROVE  LET d == [w EXCEPT !.live = FALSE]
             IN  d \in Writer /\ d.qos = w.qos /\ (w = noWriter => d = noWriter)
  <2>1. [w EXCEPT !.live = FALSE] \in Writer
    BY Zenon DEF Writer
  <2>2. [w EXCEPT !.live = FALSE].qos = w.qos
    BY DEF Writer
  <2>3. [noWriter EXCEPT !.live = FALSE] = noWriter
    <3>1. \A a, b : [[qos |-> a, live |-> b] EXCEPT !.live = b] = [qos |-> a, live |-> b]
      OBVIOUS
    <3> QED BY <3>1, Zenon DEF noWriter
  <2> QED BY <2>1, <2>2, <2>3
<1>2. ASSUME NEW c \in Call
      PROVE  LET d == [c EXCEPT !.topic = Deleted(@), !.writer.live = FALSE]
             IN  d \in Call /\ d.msg = c.msg /\ d.writer.qos = c.writer.qos
  <2> DEFINE v == [c.writer EXCEPT !.live = FALSE]
             d == [c EXCEPT !.topic = Deleted(@), !.writer.live = FALSE]
  <2>1. c.writer \in Writer /\ c.topic \in TopicState
    BY DEF Call
  <2>2. v \in Writer /\ v.qos = c.writer.qos
    BY <1>1, <2>1
  <2>3. Deleted(c.topic) \in TopicState
    BY <2>1 DEF Deleted, TopicState
  <2>4. d = [c EXCEPT !.topic = Deleted(c.topic), !.writer = v]
    OBVIOUS
  <2> HIDE DEF v, d
  <2>5. d \in Call /\ d.msg = c.msg /\ d.writer = v
    BY <2>2, <2>3, <2>4, Zenon DEF Call
  <2> QED BY <2>2, <2>5, Zenon DEF d
<1> QED BY <1>1, <1>2, Zenon

\* A step that may replace writers and handles but keeps every message and QoS.
LEMMA OutKept ==
  ASSUME OutInv, UNCHANGED <<pc, written, arrived>>,
         call' \in [Receivers -> Call],
         \A r \in Receivers : /\ call'[r].msg = call[r].msg
                              /\ call'[r].writer.qos = call[r].writer.qos,
         topics' \in [Topics -> TopicState], writers' \in [Topics -> Writer],
         \A t \in Topics : writers'[t] = noWriter \/ CreatedFor(t, writers'[t].qos)
  PROVE  OutInv'
<1>1. OutTypes'
  BY DEF OutInv, OutTypes
<1>2. \A r \in Receivers : InHand(r)' = InHand(r) /\ TopicOf(r)' = TopicOf(r)
  BY DEF InHand, TopicOf
<1>3. Provenance'
  <2>1. \A r \in Receivers : InHand(r)' =>
          call'[r].msg \in Messages /\ call'[r].msg \in arrived' /\ MappingFor(call'[r].msg) # 0
    BY <1>2 DEF OutInv, Provenance
  <2>2. \A r \in Receivers : pc'[r] = "write" => CreatedFor(TopicOf(r), call[r].writer.qos)'
    BY <1>2, Monotone, SMTT(20) DEF OutInv, Provenance
  <2>3. \A t \in Topics : writers'[t] = noWriter \/ CreatedFor(t, writers[t].qos)'
    BY Monotone
  <2>4. \A i \in DOMAIN written' : WrittenFor(written[i])'
    BY Monotone DEF OutInv, Provenance
  <2> QED BY <2>1, <2>2, <2>3, <2>4, SMTT(20) DEF Provenance
<1>4. Once'
  BY <1>2 DEF OutInv, Once
<1> QED BY <1>1, <1>3, <1>4 DEF OutInv

\* start() and stop() change topics and writers and, with the participant, delete
\* what the receivers hold, but never its QoS.
LEMMA OutControl ==
  ASSUME OutInv, StartImpl \/ StopJoin \/ StopDelete
  PROVE  OutInv'
<1>1. /\ call \in [Receivers -> Call] /\ topics \in [Topics -> TopicState]
      /\ writers \in [Topics -> Writer] /\ arrived \subseteq Messages \cup Samples
      /\ \A t \in Topics : writers[t] = noWriter \/ CreatedFor(t, writers[t].qos)
  BY DEF OutInv, OutTypes, Provenance
<1>2. CASE StartImpl
  <2>1. /\ UNCHANGED <<pc, call, writers, written, arrived>>
        /\ \/ UNCHANGED topics
           \/ topics' = [t \in Topics |->
                           IF t \in InboundTopics THEN ensure_topic(t, TRUE) ELSE topics[t]]
    BY <1>2, Zenon DEF StartImpl
  <2>2. topics' \in [Topics -> TopicState]
    BY <1>1, <2>1, EnsureTopicType, Zenon
  <2> QED BY <1>1, <2>1, <2>2, OutSame, Zenon
<1>3. CASE StopJoin
  <2>1. /\ UNCHANGED <<pc, call, written, arrived>>
        /\ writers' = [t \in Topics |-> noWriter] /\ topics' = [t \in Topics |-> "none"]
    BY <1>3, Zenon DEF StopJoin
  <2>2. writers' \in [Topics -> Writer] /\ topics' \in [Topics -> TopicState]
    BY <2>1 DEF noWriter, Writer, TopicState
  <2>3. \A t \in Topics : writers'[t] = noWriter
    BY <2>1, Zenon
  <2> QED BY <1>1, <2>1, <2>2, <2>3, OutKept
<1>4. CASE StopDelete
  <2>1. /\ UNCHANGED <<pc, written, arrived>>
        /\ \/ UNCHANGED <<topics, call, writers>>
           \/ /\ topics' = [t \in Topics |-> Deleted(topics[t])]
              /\ call' = [r \in Receivers |->
                            [call[r] EXCEPT !.topic = Deleted(@), !.writer.live = FALSE]]
              /\ writers' = [t \in Topics |-> [writers[t] EXCEPT !.live = FALSE]]
    BY <1>4, Zenon DEF StopDelete
  <2>2. CASE UNCHANGED <<topics, call, writers>>
    BY <1>1, <2>1, <2>2, OutSame
  <2>3. CASE /\ topics' = [t \in Topics |-> Deleted(topics[t])]
             /\ call' = [r \in Receivers |->
                           [call[r] EXCEPT !.topic = Deleted(@), !.writer.live = FALSE]]
             /\ writers' = [t \in Topics |-> [writers[t] EXCEPT !.live = FALSE]]
    <3>1. \A r \in Receivers : /\ call'[r] \in Call /\ call'[r].msg = call[r].msg
                               /\ call'[r].writer.qos = call[r].writer.qos
      BY <1>1, <2>3, DeletedHandles, Zenon
    <3>2. call' \in [Receivers -> Call]
      BY <2>3, <3>1, Zenon
    <3>3. \A t \in Topics : /\ writers'[t] \in Writer /\ writers'[t].qos = writers[t].qos
                            /\ (writers[t] = noWriter => writers'[t] = noWriter)
      BY <1>1, <2>3, DeletedHandles, Zenon
    <3>4. writers' \in [Topics -> Writer]
      BY <2>3, <3>3, Zenon
    <3>5. topics' \in [Topics -> TopicState]
      <4>1. topics' = [t \in Topics |-> Deleted(topics[t])]
        BY <2>3, Zenon
      <4> QED BY <1>1, <4>1 DEF Deleted, TopicState
    <3>6. \A t \in Topics : writers'[t] = noWriter \/ CreatedFor(t, writers'[t].qos)
      BY <1>1, <3>3, Zenon
    <3> QED BY <2>1, <3>1, <3>2, <3>4, <3>5, <3>6, OutKept, Zenon
  <2> QED BY <2>1, <2>2, <2>3, Zenon
<1> QED BY <1>2, <1>3, <1>4

\* Every step of the gateway keeps it.
LEMMA OutNext == OutInv /\ [Next]_vars => OutInv'
<1> SUFFICES ASSUME OutInv, [Next]_vars PROVE OutInv'
  OBVIOUS
<1>1. topics \in [Topics -> TopicState] /\ arrived \subseteq Messages \cup Samples
  BY DEF OutInv, OutTypes
<1>2. CASE StartImpl \/ StopJoin \/ StopDelete
  BY <1>2, OutControl
<1>3. CASE StartRunning \/ StopUdp \/ StopRunning
  BY <1>1, <1>3, OutSame DEF StartRunning, StopUdp, StopRunning, outbound
<1>4. ASSUME NEW r \in Receivers, NEW m \in Messages, OnSomeipMessage(r, m) PROVE OutInv'
  BY <1>4, OutArrives
<1>5. ASSUME NEW r \in Receivers, CheckParticipant(r) \/ EnsureTopic(r) \/ EnsureWriter(r)
      PROVE  OutInv'
  BY <1>5, OutEnsure
<1>6. ASSUME NEW r \in Receivers, DdsWrite(r) PROVE OutInv'
  <2>1. /\ pc[r] = "write" /\ UNCHANGED <<topics, writers, arrived>>
        /\ \/ /\ written' = Append(written, Written(r)) /\ pc' = [pc EXCEPT ![r] = "record"]
              /\ UNCHANGED call
           \/ Return(r) /\ UNCHANGED written
    BY <1>6, Zenon DEF DdsWrite, Goto
  <2> QED BY <2>1, OutWrite, OutReturn
<1>7. ASSUME NEW r \in Receivers, Record(r) PROVE OutInv'
  BY <1>7, OutReturn DEF Record
<1>8. ASSUME NEW x \in Samples, RemoteWrites(x) \/ InjectDdsSample(x) PROVE OutInv'
  BY <1>1, <1>8, OutSame DEF RemoteWrites, InjectDdsSample, outbound
<1>9. CASE ReaderCheck
  BY <1>1, <1>9, OutSame DEF ReaderCheck, outbound
<1>10. ASSUME NEW t \in Topics, ReaderTake(t) PROVE OutInv'
  BY <1>1, <1>10, OutSame DEF ReaderTake, outbound
<1>11. CASE UNCHANGED vars
  BY <1>1, <1>11, OutSame DEF vars
<1> QED BY <1>2, <1>3, <1>4, <1>5, <1>6, <1>7, <1>8, <1>9, <1>10, <1>11 DEF Next

\* It holds at the start.
LEMMA OutInit == Init => OutInv
<1> SUFFICES ASSUME Init PROVE OutInv
  OBVIOUS
<1>1. noWriter \in Writer
  BY DEF noWriter, Writer
<1>2. noCall \in Call
  BY <1>1 DEF noCall, Call, TopicState
<1>3. OutTypes
  BY <1>1, <1>2, SMTT(20) DEF Init, OutTypes, TopicState
<1>4. Provenance /\ Once
  BY DEF Init, Provenance, Once, InHand
<1> QED BY <1>3, <1>4 DEF OutInv

\* What was written is a message.
LEMMA WrittenMessage ==
  ASSUME OutInv, NEW i \in DOMAIN written
  PROVE  written[i].msg \in Messages
<1> DEFINE R == [msg : Messages, reliability : Reliability]
<1>1. written \in Seq(R)
  BY DEF OutInv, OutTypes
<1>2. written[i] \in R
  <2> HIDE DEF R
  <2> QED BY <1>1
<1> QED BY <1>2

\* A request is written with best effort only if a message of the same topic came
\* in whose type asks for it: its QoS went into the writer they share.
LEMMA SharedWriter == OutInv => RpcReliableUnlessShared
<1> SUFFICES ASSUME OutInv, NEW i \in DOMAIN written, NEW m, m = written[i].msg,
                    m.type = REQUEST, written[i].reliability # "Reliable"
             PROVE  \E n \in arrived \cap DOMAIN MessageTopic :
                      /\ MessageTopic[n] = MessageTopic[m]
                      /\ n.type \notin {REQUEST, RESPONSE, ERROR}
                      /\ OnDefaultTopic(m) /\ OnDefaultTopic(n) =>
                           n.type # NOTIFICATION /\ n.service = m.service /\ n.method = m.method
  BY Zenon DEF RpcReliableUnlessShared
<1>1. m \in Messages
  BY WrittenMessage
<1>2. /\ MappingFor(m) # 0
      /\ \E n \in arrived \cap Messages :
           MappingFor(n) # 0 /\ MessageTopic[n] = MessageTopic[m]
             /\ WriterQos(n).reliability = written[i].reliability
  BY DEF OutInv, Provenance, WrittenFor
<1>3. PICK n \in arrived \cap Messages :
        MappingFor(n) # 0 /\ MessageTopic[n] = MessageTopic[m]
          /\ WriterQos(n).reliability = written[i].reliability
  BY <1>2
<1>4. n.type \notin {REQUEST, RESPONSE, ERROR}
  <2>1. n.type \in {REQUEST, RESPONSE, ERROR} => n.type # NOTIFICATION
    BY DEF REQUEST, RESPONSE, ERROR, NOTIFICATION
  <2>2. n.type \in {REQUEST, RESPONSE, ERROR} => WriterQos(n) = Qos("Reliable", "Volatile", 16)
    BY <2>1 DEF WriterQos, qos_for_someip_message
  <2>3. Qos("Reliable", "Volatile", 16).reliability = "Reliable"
    BY DEF Qos
  <2> QED BY <1>3, <2>2, <2>3
<1>5. ASSUME OnDefaultTopic(m), OnDefaultTopic(n)
      PROVE  n.type # NOTIFICATION /\ n.service = m.service /\ n.method = m.method
  <2>1. m.service = n.service /\ m.method = n.method /\ Kind(m) = Kind(n)
    BY <1>1, <1>2, <1>3, <1>5, DefaultTopicsIdentify
  <2>2. <<"event">> # <<"method">>
    OBVIOUS
  <2> QED BY <2>1, <2>2 DEF Kind, NOTIFICATION, REQUEST
<1>6. n \in arrived \cap DOMAIN MessageTopic
  BY <1>3 DEF MessageTopic
<1> QED BY <1>3, <1>4, <1>5, <1>6, Zenon

\* A request loses its reliable delivery only to a message of its topic that asks for
\* none, because the topic's writer keeps the QoS of its first message; where no
\* mapping names a topic, only to a fire-and-forget call or a segment of the same
\* method of the same service, never to an event, whatever the names are.
THEOREM DdsRpcReliableUnlessShared == Spec => []RpcReliableUnlessShared
BY OutInit, OutNext, SharedWriter, PTL DEF Spec

-----------------------------------------------------------------------------
(* Samples on their way in.                                                *)

\* The message was written reliably on a topic that the gateway reads.
Echoed(m) ==
  /\ MappingFor(m) # 0 /\ MessageTopic[m] \in InboundTopics
  /\ \E i \in DOMAIN written : written[i].msg = m /\ written[i].reliability = "Reliable"

\* What a reader may hold: samples of others, and messages that were echoed.
Readable ==
  {x \in {y.id : y \in Messages \cup Samples} : \A m \in Messages : m.id = x => Echoed(m)}

InInv ==
  /\ readers \subseteq InboundTopics
  /\ history \in [Topics -> Seq(Readable)]
  /\ delivered \subseteq Readable

\* What is readable stays so while messages are written.
LEMMA ReadableGrows ==
  ASSUME \A i \in DOMAIN written : i \in DOMAIN written' /\ written'[i] = written[i]
  PROVE  Readable \subseteq Readable'
<1>1. \A m : Echoed(m) => Echoed(m)'
  BY DEF Echoed
<1> QED BY <1>1 DEF Readable

\* Samples are nobody's messages.
LEMMA SampleReadable == ASSUME NEW x \in Samples PROVE x.id \in Readable
BY IdAssumption DEF Readable

\* A step that writes at most and leaves the readers alone.
LEMMA InSame ==
  ASSUME InInv, \A i \in DOMAIN written : i \in DOMAIN written' /\ written'[i] = written[i],
         readers' \subseteq InboundTopics,
         history' = history \/ history' \in [Topics -> Seq(Readable')],
         delivered' = delivered \/ delivered' \subseteq Readable'
  PROVE  InInv'
<1>1. Readable \subseteq Readable'
  BY ReadableGrows
<1>2. \A q \in Seq(Readable) : q \in Seq(Readable')
  BY <1>1
<1>3. history \in [Topics -> Seq(Readable')]
  BY <1>2 DEF InInv
<1> QED BY <1>1, <1>3 DEF InInv

\* dds_take splits what a reader holds in what it returns and the rest.
LEMMA TakeTypes ==
  ASSUME NEW S, NEW q \in Seq(S)
  PROVE  /\ FirstTwo(q) \in Seq(S) /\ ToSet(FirstTwo(q)) \subseteq S
         /\ SubSeq(q, Len(FirstTwo(q)) + 1, Len(q)) \in Seq(S)
<1> DEFINE n == IF Len(q) < 2 THEN Len(q) ELSE 2
<1>1. n \in 0 .. Len(q)
  OBVIOUS
<1> HIDE DEF n
<1>2. FirstTwo(q) = SubSeq(q, 1, n)
  BY DEF FirstTwo, n
<1>3. FirstTwo(q) \in Seq(S) /\ Len(FirstTwo(q)) = n
  BY <1>1, <1>2
<1>4. ToSet(FirstTwo(q)) \subseteq S
  BY <1>3 DEF ToSet
<1>5. SubSeq(q, n + 1, Len(q)) \in Seq(S)
  BY <1>1
<1> QED BY <1>3, <1>4, <1>5

\* A reader of the gateway asks for reliable delivery, so it only gets what a
\* reliable writer writes.
LEMMA MatchIsReliable ==
  ASSUME NEW t \in InboundTopics, NEW q, Matches(q, ReaderQos[t])
  PROVE  q.reliability = "Reliable"
<1>1. \A mapping : qos_for_service_mapping(mapping, FALSE).reliability = "Reliable"
  BY DEF qos_for_service_mapping, Qos
<1>2. ReaderQos[t].reliability = "Reliable"
  BY <1>1, Zenon DEF ReaderQos
<1> QED BY <1>2 DEF Matches

\* A write: what goes into a reader of the same topic is an echo.
LEMMA InWrite ==
  ASSUME OutInv, InInv, NEW r \in Receivers, DdsWrite(r)
  PROVE  InInv'
<1>1. PICK m : m = call[r].msg
  OBVIOUS
<1>2. InHand(r) /\ UNCHANGED <<readers, delivered>>
  BY DEF DdsWrite, InHand
<1>3. written \in Seq([msg : Messages, reliability : Reliability])
  BY DEF OutInv, OutTypes
<1>4. CASE UNCHANGED <<written, history>>
  BY <1>2, <1>4, InSame DEF InInv
<1>5. CASE /\ written' = Append(written, Written(r))
           /\ history' = IF TopicOf(r) \in readers
                            /\ Matches(call[r].writer.qos, ReaderQos[TopicOf(r)])
                         THEN [history EXCEPT ![TopicOf(r)] = Append(@, m.id)]
                         ELSE history
  <2>1. /\ \A i \in DOMAIN written : i \in DOMAIN written' /\ written'[i] = written[i]
        /\ Len(written) + 1 \in DOMAIN written' /\ written'[Len(written) + 1] = Written(r)
    BY <1>3, <1>5
  <2>2. Readable \subseteq Readable'
    BY <2>1, ReadableGrows
  <2>3. CASE TopicOf(r) \in readers /\ Matches(call[r].writer.qos, ReaderQos[TopicOf(r)])
    <3>1. m \in Messages /\ MappingFor(m) # 0 /\ MessageTopic[m] \in InboundTopics
      <4>1. TopicOf(r) \in InboundTopics
        BY <2>3 DEF InInv
      <4> QED BY <1>2, <1>1, <4>1, InHandFacts DEF TopicOf
    <3>2. Written(r).msg = m /\ Written(r).reliability = "Reliable"
      <4>1. call[r].writer.qos.reliability = "Reliable"
        BY <1>1, <2>3, <3>1, MatchIsReliable DEF TopicOf
      <4> QED BY <1>1, <4>1 DEF Written
    <3>3. Echoed(m)'
      BY <2>1, <3>1, <3>2 DEF Echoed
    <3>4. m.id \in Readable'
      BY <3>1, <3>3, IdAssumption DEF Readable
    <3>5. history' \in [Topics -> Seq(Readable')]
      <4>1. \A q \in Seq(Readable) : q \in Seq(Readable') /\ Append(q, m.id) \in Seq(Readable')
        BY <2>2, <3>4
      <4>2. history' = [history EXCEPT ![TopicOf(r)] = Append(@, m.id)]
        BY <1>5, <2>3
      <4> QED BY <4>1, <4>2, Zenon DEF InInv
    <3> QED BY <1>2, <2>1, <3>5, InSame DEF InInv
  <2>4. CASE ~(TopicOf(r) \in readers /\ Matches(call[r].writer.qos, ReaderQos[TopicOf(r)]))
    BY <1>2, <1>5, <2>1, <2>4, InSame DEF InInv
  <2> QED BY <2>3, <2>4
<1> QED BY <1>4, <1>5, <1>1 DEF DdsWrite

\* Every step of the gateway keeps it.
LEMMA InNext == OutInv /\ InInv /\ [Next]_vars => InInv'
<1> SUFFICES ASSUME OutInv, InInv, [Next]_vars PROVE InInv'
  OBVIOUS
<1>1. CASE StartImpl
  <2>1. readers' \subseteq InboundTopics
    BY <1>1, Zenon DEF StartImpl, InInv
  <2> QED BY <1>1, <2>1, InSame DEF StartImpl
<1>2. CASE StartRunning \/ StopUdp \/ StopRunning \/ StopJoin
  BY <1>2, InSame DEF StartRunning, StopUdp, StopRunning, StopJoin, inbound, outbound, InInv
<1>3. CASE StopDelete
  <2>1. UNCHANGED <<readers, delivered, written>>
          /\ (history' = history \/ history' = [t \in Topics |-> <<>>])
    BY <1>3, Zenon DEF StopDelete
  <2>2. \A S : [t \in Topics |-> <<>>] \in [Topics -> Seq(S)]
    OBVIOUS
  <2> QED BY <2>1, <2>2, InSame, Zenon DEF InInv
<1>4. ASSUME NEW r \in Receivers, NEW m \in Messages, OnSomeipMessage(r, m) PROVE InInv'
  BY <1>4, InSame DEF OnSomeipMessage, inbound, InInv
<1>5. ASSUME NEW r \in Receivers,
             CheckParticipant(r) \/ EnsureTopic(r) \/ EnsureWriter(r) \/ Record(r)
      PROVE  InInv'
  BY <1>5, InSame DEF CheckParticipant, EnsureTopic, EnsureWriter, Record, inbound, InInv
<1>6. ASSUME NEW r \in Receivers, DdsWrite(r) PROVE InInv'
  BY <1>6, InWrite
<1>7. ASSUME NEW x \in Samples, RemoteWrites(x) PROVE InInv'
  <2>1. /\ history' = [history EXCEPT ![x.topic] = Append(@, x.id)]
        /\ UNCHANGED <<readers, delivered, written>>
    BY <1>7 DEF RemoteWrites, outbound
  <2>2. x.id \in Readable
    BY SampleReadable
  <2>3. history' \in [Topics -> Seq(Readable)]
    <3>1. \A q \in Seq(Readable) : Append(q, x.id) \in Seq(Readable)
      BY <2>2
    <3> QED BY <2>1, <3>1, Zenon DEF InInv
  <2> QED BY <2>1, <2>3 DEF InInv, Readable, Echoed
<1>8. ASSUME NEW x \in Samples, InjectDdsSample(x) PROVE InInv'
  <2>1. /\ delivered' = delivered \cup ToSet(<<x.id>>)
        /\ UNCHANGED <<readers, history, written>>
    BY <1>8 DEF InjectDdsSample, Deliver, outbound
  <2>2. ToSet(<<x.id>>) \subseteq Readable
    BY SampleReadable DEF ToSet
  <2> QED BY <2>1, <2>2 DEF InInv, Readable, Echoed
<1>9. CASE ReaderCheck
  BY <1>9, InSame, SMTT(20) DEF ReaderCheck, outbound, InInv
<1>10. ASSUME NEW t \in Topics, ReaderTake(t) PROVE InInv'
  <2>1. /\ delivered' = delivered \cup ToSet(FirstTwo(history[t]))
        /\ history' = [history EXCEPT ![t] = SubSeq(@, Len(FirstTwo(@)) + 1, Len(@))]
        /\ UNCHANGED <<readers, written>>
    BY <1>10 DEF ReaderTake, Deliver, outbound
  <2>2. history[t] \in Seq(Readable)
    BY DEF InInv
  <2>3. /\ ToSet(FirstTwo(history[t])) \subseteq Readable
        /\ SubSeq(history[t], Len(FirstTwo(history[t])) + 1, Len(history[t])) \in Seq(Readable)
    BY <2>2, TakeTypes
  <2>4. history' \in [Topics -> Seq(Readable)] /\ delivered' \subseteq Readable
    BY <2>1, <2>3 DEF InInv
  <2> QED BY <2>1, <2>4 DEF InInv, Readable, Echoed
<1>11. CASE UNCHANGED vars
  BY <1>11, InSame DEF vars, InInv
<1> QED BY <1>1, <1>2, <1>3, <1>4, <1>5, <1>6, <1>7, <1>8, <1>9, <1>10, <1>11 DEF Next

\* A message that came back was written once, reliably and on a named topic.
LEMMA EchoIsNamed == OutInv /\ InInv => EchoOnlyOnNamedTopics
<1> SUFFICES ASSUME OutInv, InInv, NEW i \in DOMAIN written, written[i].msg.id \in delivered
             PROVE  /\ \E j \in DOMAIN Mappings :
                         /\ should_forward_to_someip(Mappings[j])
                         /\ ReaderTopic(Mappings[j]) = MessageTopic[written[i].msg]
                         /\ Mappings[j].external # <<>> \/ ~OnDefaultTopic(written[i].msg)
                    /\ written[i].reliability = "Reliable"
  BY Zenon DEF EchoOnlyOnNamedTopics
<1>1. written[i].msg \in Messages
  BY WrittenMessage
<1>2. Echoed(written[i].msg)
  BY <1>1 DEF InInv, Readable
<1>3. written[i].reliability = "Reliable"
  BY <1>2 DEF Echoed, OutInv, Once
<1> QED BY <1>1, <1>2, <1>3, InboundTopicIsNamed, Zenon DEF Echoed

\* The gateway's own readers get what its writers write, on the same participant;
\* the topics, of which the readers' default ones have a kind of their own, and
\* the QoS keep all echoes to topics that a mapping names, spelled like a default
\* topic or not.
THEOREM DdsEchoOnlyOnNamedTopics == Spec => []EchoOnlyOnNamedTopics
<1>1. Init => InInv
  BY DEF Init, InInv
<1> QED BY <1>1, OutInit, OutNext, InNext, EchoIsNamed, PTL DEF Spec

-----------------------------------------------------------------------------
(* The outbound direction is a bridge that counts.                         *)

Stats == [to_external : Nat, to_someip : Nat, errors : Nat]

\* Receivers whose write succeeded and is not counted yet.
Recording == {r \in Receivers : pc[r] = "record"}

CountInv ==
  /\ stats \in Stats
  /\ stats.to_external + Cardinality(Recording) = Len(written)

\* What a step can do to what the bridge is about: nothing but let something
\* arrive, write one message, or count one.
Quiet == UNCHANGED written /\ Recording' = Recording /\ stats'.to_external = stats.to_external
WritesOne ==
  /\ written' = Append(written, written'[Len(written) + 1])
  /\ \E r \in Receivers \ Recording : Recording' = Recording \cup {r}
  /\ stats'.to_external = stats.to_external
CountsOne ==
  /\ UNCHANGED written
  /\ \E r \in Recording : Recording' = Recording \ {r}
  /\ stats'.to_external = stats.to_external + 1

\* A receiver that neither reaches nor leaves the record step.
LEMMA RecordingSame ==
  ASSUME OutInv, NEW r \in Receivers, NEW label, pc[r] # "record", label # "record",
         pc' = [pc EXCEPT ![r] = label]
  PROVE  Recording' = Recording
BY DEF Recording, OutInv, OutTypes

\* Every step is of one of the three kinds.
LEMMA StepKinds ==
  ASSUME OutInv, InInv, stats \in Stats, [Next]_vars
  PROVE  stats' \in Stats /\ arrived \subseteq arrived' /\ (Quiet \/ WritesOne \/ CountsOne)
<1>1. CASE StartImpl \/ StartRunning \/ StopUdp \/ StopJoin \/ StopDelete \/ StopRunning
           \/ ReaderCheck \/ UNCHANGED vars
  <2>1. UNCHANGED <<pc, written, stats, arrived>>
    BY <1>1, Zenon DEF StartImpl, StartRunning, StopUdp, StopJoin, StopDelete, StopRunning,
                ReaderCheck, vars, outbound
  <2> QED BY <2>1 DEF Quiet, Recording
<1>2. ASSUME NEW r \in Receivers, NEW m \in Messages, OnSomeipMessage(r, m)
      PROVE  stats' \in Stats /\ arrived \subseteq arrived' /\ Quiet
  <2>1. /\ pc[r] = "idle" /\ arrived' = arrived \cup {m} /\ UNCHANGED written
        /\ UNCHANGED pc \/ pc' = [pc EXCEPT ![r] = "participant"]
        /\ UNCHANGED stats \/ stats' = [stats EXCEPT !.errors = @ + 1]
    BY <1>2, Zenon DEF OnSomeipMessage, Goto
  <2>2. Recording' = Recording
    BY <2>1, RecordingSame DEF Recording
  <2>3. stats' \in Stats /\ stats'.to_external = stats.to_external
    BY <2>1 DEF Stats
  <2> QED BY <2>1, <2>2, <2>3 DEF Quiet
<1>3. ASSUME NEW r \in Receivers, CheckParticipant(r) \/ EnsureTopic(r) \/ EnsureWriter(r)
      PROVE  stats' \in Stats /\ arrived \subseteq arrived' /\ Quiet
  <2>1. /\ UNCHANGED <<written, stats, arrived>> /\ pc[r] # "record"
        /\ \E label \in {"topic", "writer", "write", "idle"} : pc' = [pc EXCEPT ![r] = label]
    BY <1>3 DEF CheckParticipant, EnsureTopic, EnsureWriter, Goto, Return
  <2> QED BY <2>1, RecordingSame, Zenon DEF Quiet
<1>4. ASSUME NEW r \in Receivers, DdsWrite(r)
      PROVE  stats' \in Stats /\ arrived \subseteq arrived' /\ (Quiet \/ WritesOne)
  <2>1. /\ pc[r] = "write" /\ UNCHANGED <<stats, arrived>>
        /\ \/ written' = Append(written, Written(r)) /\ pc' = [pc EXCEPT ![r] = "record"]
           \/ pc' = [pc EXCEPT ![r] = "idle"] /\ UNCHANGED written
    BY <1>4, Zenon DEF DdsWrite, Goto, Return
  <2>2. CASE pc' = [pc EXCEPT ![r] = "idle"] /\ UNCHANGED written
    BY <2>1, <2>2, RecordingSame, Zenon DEF Quiet
  <2>3. CASE written' = Append(written, Written(r)) /\ pc' = [pc EXCEPT ![r] = "record"]
    <3>1. r \in Receivers \ Recording /\ Recording' = Recording \cup {r}
      BY <2>1, <2>3 DEF Recording, OutInv, OutTypes
    <3>2. written'[Len(written) + 1] = Written(r)
      BY <2>3 DEF OutInv, OutTypes
    <3> QED BY <2>1, <2>3, <3>1, <3>2, SMTT(20) DEF WritesOne
  <2> QED BY <2>1, <2>2, <2>3
<1>5. ASSUME NEW r \in Receivers, Record(r)
      PROVE  stats' \in Stats /\ arrived \subseteq arrived' /\ CountsOne
  <2>1. /\ pc[r] = "record" /\ pc' = [pc EXCEPT ![r] = "idle"] /\ UNCHANGED <<written, arrived>>
        /\ stats' = [stats EXCEPT !.to_external = @ + 1]
    BY <1>5 DEF Record, Return, Goto
  <2>2. r \in Recording /\ Recording' = Recording \ {r}
    BY <2>1 DEF Recording, OutInv, OutTypes
  <2>3. stats' \in Stats /\ stats'.to_external = stats.to_external + 1
    BY <2>1 DEF Stats
  <2> QED BY <2>1, <2>2, <2>3 DEF CountsOne
<1>6. ASSUME NEW x \in Samples, RemoteWrites(x)
      PROVE  stats' \in Stats /\ arrived \subseteq arrived' /\ Quiet
  BY <1>6 DEF RemoteWrites, outbound, Quiet, Recording
<1>7. ASSUME NEW n \in Nat, stats' = [stats EXCEPT !.to_someip = @ + n]
      PROVE  stats' \in Stats /\ stats'.to_external = stats.to_external
  BY <1>7 DEF Stats
<1>8. ASSUME NEW x \in Samples, InjectDdsSample(x)
      PROVE  stats' \in Stats /\ arrived \subseteq arrived' /\ Quiet
  <2>1. Len(<<x.id>>) \in Nat
    OBVIOUS
  <2> QED BY <1>7, <1>8, <2>1 DEF InjectDdsSample, Deliver, outbound, Quiet, Recording
<1>9. ASSUME NEW t \in Topics, ReaderTake(t)
      PROVE  stats' \in Stats /\ arrived \subseteq arrived' /\ Quiet
  <2>1. Len(FirstTwo(history[t])) \in Nat
    BY <1>9, TakeTypes DEF InInv
  <2> QED BY <1>7, <1>9, <2>1 DEF ReaderTake, Deliver, outbound, Quiet, Recording
<1> QED BY <1>1, <1>2, <1>3, <1>4, <1>5, <1>6, <1>8, <1>9 DEF Next

\* The counter lags behind what was written by the writes in hand.
LEMMA CountNext ==
  ASSUME OutInv, CountInv, stats' \in Stats, Quiet \/ WritesOne \/ CountsOne
  PROVE  CountInv'
<1>1. IsFiniteSet(Recording) /\ Cardinality(Recording) \in Nat
  BY ReceiversAssumption, FS_Subset, FS_CardinalityType DEF Recording
<1>2. /\ stats.to_external \in Nat /\ Len(written) \in Nat
      /\ stats.to_external + Cardinality(Recording) = Len(written)
  BY DEF CountInv, Stats, OutInv, OutTypes
<1>3. CASE Quiet
  BY <1>2, <1>3 DEF CountInv, Quiet
<1>4. CASE WritesOne
  <2>1. Cardinality(Recording') = Cardinality(Recording) + 1
    BY <1>1, <1>4, FS_AddElement, Zenon DEF WritesOne
  <2>2. Len(written') = Len(written) + 1
    BY <1>4 DEF WritesOne, OutInv, OutTypes
  <2>3. stats'.to_external = stats.to_external
    BY <1>4 DEF WritesOne
  <2> QED BY <1>1, <1>2, <2>1, <2>2, <2>3 DEF CountInv
<1>5. CASE CountsOne
  <2>1. Cardinality(Recording') = Cardinality(Recording) - 1
    BY <1>1, <1>5, FS_RemoveElement, Zenon DEF CountsOne
  <2> QED BY <1>1, <1>2, <1>5, <2>1 DEF CountInv, CountsOne
<1> QED BY <1>3, <1>4, <1>5

\* What the bridge calls forwarded.
Forwarded == [i \in DOMAIN written |-> written[i].msg]

\* A step of the gateway is progress of the bridge: nothing that was forwarded is
\* taken back or forwarded again, and the counter never passes it.
LEMMA BridgeStep ==
  ASSUME OutInv, OutInv', CountInv, CountInv', arrived \subseteq arrived',
         Quiet \/ WritesOne \/ CountsOne
  PROVE  Outbound!Next
<1>1. /\ written \in Seq([msg : Messages, reliability : Reliability])
      /\ written' \in Seq([msg : Messages, reliability : Reliability])
  BY DEF OutInv, OutTypes
<1> DEFINE R == [msg : Messages, reliability : Reliability]
<1>2. \/ written' = written
      \/ \E w \in R : written' = Append(written, w)
  <2>1. CASE WritesOne
    <3>1. written'[Len(written) + 1] \in R
      <4> HIDE DEF R
      <4>1. written \in Seq(R) /\ written' \in Seq(R)
        BY <1>1 DEF R
      <4> QED BY <2>1, <4>1 DEF WritesOne
    <3> QED BY <2>1, <3>1 DEF WritesOne
  <2> QED BY <2>1 DEF Quiet, CountsOne
<1>3. /\ Len(written) <= Len(written')
      /\ DOMAIN written = 1 .. Len(written) /\ DOMAIN written' = 1 .. Len(written')
      /\ Len(written) \in Nat /\ Len(written') \in Nat
      /\ \A i \in 1 .. Len(written) : written'[i] = written[i]
  <2> HIDE DEF R
  <2>1. written \in Seq(R) /\ written' \in Seq(R)
    BY <1>1 DEF R
  <2> QED BY <1>2, <2>1
<1>4. /\ Forwarded \in Seq(Messages) /\ Forwarded' \in Seq(Messages)
      /\ Len(Forwarded) = Len(written) /\ Len(Forwarded') = Len(written')
      /\ \A i \in 1 .. Len(written) : Forwarded'[i] = Forwarded[i]
      /\ \A i \in 1 .. Len(written') : Forwarded'[i] = written'[i].msg
  <2>1. \A i \in 1 .. Len(written) : written[i].msg \in Messages
    BY <1>3, WrittenMessage
  <2>2. \A i \in 1 .. Len(written') : written'[i].msg \in Messages
    <3>1. written' \in Seq(R)
      BY <1>1
    <3>2. \A i \in 1 .. Len(written') : written'[i] \in R
      <4> HIDE DEF R
      <4> QED BY <3>1
    <3> QED BY <3>2
  <2> QED BY <1>3, <2>1, <2>2 DEF Forwarded
<1>5. arrived \cap Messages \subseteq arrived' \cap Messages
  OBVIOUS
<1>6. SubSeq(Forwarded', 1, Len(Forwarded)) = Forwarded
  BY <1>3, <1>4
<1>7. \A i, j \in DOMAIN Forwarded' : Forwarded'[i] = Forwarded'[j] => i = j
  <2>1. DOMAIN Forwarded' = 1 .. Len(written')
    BY <1>3, <1>4
  <2>2. \A i, j \in DOMAIN written' : written'[i].msg = written'[j].msg => i = j
    BY Zenon DEF OutInv, Once
  <2> QED BY <1>3, <1>4, <2>1, <2>2
<1>8. \A i \in DOMAIN Forwarded' : Forwarded'[i] \in arrived' \cap Messages
  <2>1. DOMAIN Forwarded' = 1 .. Len(written')
    BY <1>3, <1>4
  <2>2. \A i \in DOMAIN written' : written'[i].msg \in arrived'
    BY Zenon DEF OutInv, Provenance, WrittenFor
  <2>3. \A i \in DOMAIN Forwarded' : Forwarded'[i] \in Messages
    BY <1>4
  <2> QED BY <1>3, <1>4, <2>1, <2>2, <2>3, SMTT(20)
<1>9. stats'.to_external \in stats.to_external .. Len(Forwarded')
  <2>1. stats.to_external \in Nat /\ stats'.to_external \in Nat
    BY DEF CountInv, Stats
  <2>2. stats.to_external <= stats'.to_external
    BY <2>1 DEF Quiet, WritesOne, CountsOne
  <2>3. stats'.to_external <= Len(written')
    <3>1. Cardinality(Recording') \in Nat
      BY ReceiversAssumption, FS_Subset, FS_CardinalityType DEF Recording
    <3> QED BY <1>3, <2>1, <3>1 DEF CountInv
  <2> QED BY <1>3, <1>4, <2>1, <2>2, <2>3
<1>10. Outbound!IsInjective(Forwarded')
  BY <1>7 DEF Outbound!IsInjective
<1>11. Outbound!Range(Forwarded') \subseteq arrived' \cap Messages
  BY <1>8 DEF Outbound!Range
<1>12. Outbound!Progress
  BY <1>3, <1>4, <1>5, <1>6, <1>9, <1>10, <1>11, Zenon DEF Outbound!Progress, Forwarded
<1> QED BY <1>12 DEF Outbound!Next

\* Messages cross to DDS as the bridge says, but for the fairness of its counter:
\* each at most once, only if it arrived, and the counter never runs ahead.
THEOREM DdsBridgeSafety == Spec => Outbound!Safety
<1>1. Init => Outbound!Init
  BY DEF Init, Outbound!Init
<1>2. Init => InInv
  BY DEF Init, InInv
<1>3. Init => CountInv
  <2> SUFFICES ASSUME Init PROVE CountInv
    OBVIOUS
  <2>1. Recording = {}
    BY DEF Init, Recording
  <2> QED BY <2>1, FS_EmptySet DEF Init, CountInv, Stats
<1>4. OutInv /\ InInv /\ CountInv /\ [Next]_vars => CountInv'
  BY StepKinds, CountNext DEF CountInv
<1>5. OutInv /\ OutInv' /\ InInv /\ CountInv /\ CountInv' /\ [Next]_vars
        => [Outbound!Next]_(Outbound!vars)
  BY StepKinds, BridgeStep DEF CountInv
<1> QED BY <1>1, <1>2, <1>3, <1>4, <1>5, OutInit, OutNext, InNext, PTL
        DEF Spec, Outbound!Safety
=============================================================================
