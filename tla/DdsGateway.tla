----------------------------- MODULE DdsGateway -----------------------------
(***************************************************************************)
(* DdsGateway and its DdsGatewayImpl: start and stop on a controller       *)
(* thread, on_someip_message on receiver threads, which find or create a   *)
(* DDS topic and a writer for it, and the reader thread, which polls the   *)
(* readers and hands samples to the SOME/IP sink.  The maps of topics,     *)
(* writers and readers have no lock.  Cyclone DDS is external: what is     *)
(* done with a handle of a deleted participant fails.                      *)
(***************************************************************************)
EXTENDS DdsTranslator, FiniteSets

CONSTANTS Receivers,        \* threads that call on_someip_message
          Batches,          \* bound: the sets of messages that arrive in one behaviour
          Samples,          \* [id, topic]; written once by remote DDS writers
          Mappings,         \* service_mappings_, with the fields external, methods, groups
          UseE2e,           \* use_e2e, with an e2e_config
          AssumeTcpForRpc,  \* assume_tcp_semantics_for_rpc
          DefaultInstance   \* default_someip_instance_id

\* [id, service, method, type]; each arrives once.
Messages == UNION Batches

\* SOME/IP ids are 16 bits wide.
Uint16 == {v \in Nat : v < 65536}

\* The field external is a topic; it is empty where the identifier is.
ASSUME MappingsAssumption ==
  /\ Mappings \in Seq(Range(Mappings))
  /\ \A mapping \in Range(Mappings) :
       /\ mapping.service \in Uint16 /\ mapping.instance \in Uint16
       /\ mapping.direction \in GatewayDirection
       /\ mapping.methods \in Seq(Uint16) /\ mapping.groups \in Seq(Uint16)

ASSUME MessagesAssumption ==
  \A m \in Messages : m.service \in Uint16 /\ m.method \in Uint16 /\ m.type \in MessageType

\* The id names the message or the sample.
ASSUME IdAssumption ==
  /\ \A m, n \in Messages : m.id = n.id => m = n
  /\ \A m \in Messages, x \in Samples : m.id # x.id

ASSUME ReceiversAssumption == IsFiniteSet(Receivers)

VARIABLES running,      \* running_
          participant,  \* participant_: "zero", "error" (negative) or "live"
          topics,       \* topics_: topic -> "none", "live" or "bad" (failed or deleted)
          writers,      \* writers_: topic -> [qos, live]
          readers,      \* the topics of readers_
          reader_stop,  \* reader_stop_
          reader,       \* reader_thread_: "none", "check", "take" or "exited"
          todo,         \* topics the reader thread still polls in this round
          history,      \* samples waiting in each reader
          arrived,      \* messages and samples that have entered the gateway
          written,      \* what was written to DDS
          delivered,    \* samples given to the SOME/IP sink
          call,         \* the message, topic handle and writer of each receiver's call
          stats,        \* the message counters
          control,      \* the step of the controller
          pc            \* the step of each receiver

vars == <<running, participant, topics, writers, readers, reader_stop, reader, todo,
          history, arrived, written, delivered, call, stats, control, pc>>

lifecycle == <<running, participant, control>>
inbound == <<readers, reader_stop, reader, todo, history, delivered>>
outbound == <<topics, writers, written, call, pc>>

noWriter == [qos |-> <<>>, live |-> FALSE]
noCall == [msg |-> [id |-> 0], topic |-> "none", writer |-> noWriter]
Deleted(topic) == IF topic = "live" THEN "bad" ELSE topic
Goto(r, label) == pc' = [pc EXCEPT ![r] = label]
Return(r) == Goto(r, "idle") /\ call' = [call EXCEPT ![r] = noCall]

-----------------------------------------------------------------------------
(* Topics and QoS.                                                         *)

MappingFor(m) ==
  LET primary == find_mapping_for_service(Mappings, m.service, DefaultInstance)
  IN  IF primary # 0 THEN primary
                     ELSE find_mapping_for_service(Mappings, m.service, 1)

resolve_dds_topic(m, mapping) ==
  IF mapping.external # <<>> THEN mapping.external
  ELSE build_dds_topic(mapping.service, mapping.instance, m.method, m)

\* The readers' topics do not have a kind.
ReaderTopic(mapping) ==
  LET mid == Head(mapping.methods \o mapping.groups \o <<0>>)
  IN  IF mapping.external # <<>> THEN mapping.external
      ELSE build_reader_topic(mapping.service, mapping.instance, mid)

WriterQos(m) == qos_for_someip_message(m, AssumeTcpForRpc /\ is_request(m))

InboundTopics ==
  {ReaderTopic(Mappings[i]) : i \in {j \in DOMAIN Mappings : should_forward_to_someip(Mappings[j])}}

\* The topic of each message that has one, and the QoS of each reader.
MessageTopic ==
  [m \in {n \in Messages : MappingFor(n) # 0} |-> resolve_dds_topic(m, Mappings[MappingFor(m)])]

Topics == InboundTopics \cup Range(MessageTopic)

ReaderQos ==
  [t \in InboundTopics |->
     LET i == SelectInSeq(Mappings, LAMBDA m : should_forward_to_someip(m) /\ ReaderTopic(m) = t)
     IN  qos_for_service_mapping(Mappings[i], FALSE)]

-----------------------------------------------------------------------------
(* start().                                                                *)

\* The handle that is cached, if only an error or a deleted one, or that of a new
\* topic, which is cached; it cannot be created without a participant.
ensure_topic(t, with_participant) ==
  CASE topics[t] # "none" -> topics[t]
    [] with_participant -> "live"
    [] OTHER -> "bad"

\* DdsGatewayImpl::start, once the UDP transport is up (if that fails, nothing
\* has changed); a reader that cannot be created is left out.
StartImpl ==
  /\ control = "idle"
  /\ \/ /\ participant # "zero"
        /\ control' = "set_running"
        /\ UNCHANGED <<participant, topics, readers, reader_stop, reader, todo>>
     \/ /\ participant = "zero"
        /\ participant' = "error"
        /\ UNCHANGED <<control, topics, readers, reader_stop, reader, todo>>
     \/ /\ participant = "zero"
        /\ participant' = "live"
        /\ topics' = [t \in Topics |->
                        IF t \in InboundTopics THEN ensure_topic(t, TRUE) ELSE topics[t]]
        /\ readers' \in SUBSET {t \in InboundTopics : topics'[t] = "live"}
        /\ reader_stop' = FALSE
        /\ reader' = "check"
        /\ todo' = {}
        /\ control' = "set_running"
  /\ UNCHANGED <<running, history, delivered, writers, written, call, pc, arrived,
                 stats>>

StartRunning ==
  /\ control = "set_running"
  /\ running' = TRUE
  /\ control' = "idle"
  /\ UNCHANGED <<participant, inbound, outbound, arrived, stats>>

-----------------------------------------------------------------------------
(* stop().                                                                 *)

StopUdp ==
  /\ control = "idle"
  /\ reader_stop' = TRUE
  /\ control' = "join"
  /\ UNCHANGED <<running, participant, readers, reader, todo, history, delivered, outbound,
                 arrived, stats>>

\* Mutant: the reader thread is not joined.
StopDetach ==
  /\ control = "join"
  /\ writers' = [t \in Topics |-> noWriter]
  /\ topics' = [t \in Topics |-> "none"]
  /\ readers' = {}
  /\ control' = "delete"
  /\ UNCHANGED <<running, participant, reader_stop, reader, todo, history, delivered,
                 written, call, pc, arrived, stats>>

\* Join the reader thread, then clear the maps.
StopJoin ==
  /\ control = "join"
  /\ reader \in {"none", "exited"}
  /\ reader' = "none"
  /\ writers' = [t \in Topics |-> noWriter]
  /\ topics' = [t \in Topics |-> "none"]
  /\ readers' = {}
  /\ control' = "delete"
  /\ UNCHANGED <<running, participant, reader_stop, todo, history, delivered, written,
                 call, pc, arrived, stats>>

\* Deleting the participant deletes its topics and writers, those in the maps and
\* those a receiver holds, and what its readers hold; a
\* negative participant_ is left as it is.
StopDelete ==
  /\ control = "delete"
  /\ IF participant = "live"
     THEN /\ participant' = "zero"
          /\ topics' = [t \in Topics |-> Deleted(topics[t])]
          /\ call' = [r \in Receivers |->
                        [call[r] EXCEPT !.topic = Deleted(@), !.writer.live = FALSE]]
          /\ writers' = [t \in Topics |-> [writers[t] EXCEPT !.live = FALSE]]
          /\ history' = [t \in Topics |-> <<>>]
     ELSE UNCHANGED <<participant, topics, call, writers, history>>
  /\ control' = "clear_running"
  /\ UNCHANGED <<running, readers, reader_stop, reader, todo, delivered, written, pc,
                 arrived, stats>>

StopRunning ==
  /\ control = "clear_running"
  /\ running' = FALSE
  /\ control' = "idle"
  /\ UNCHANGED <<participant, inbound, outbound, arrived, stats>>

-----------------------------------------------------------------------------
(* on_someip_message and write_someip.                                     *)

\* The message is dropped unless a mapping forwards it; E2E validation, where it
\* is configured, may refuse it.
OnSomeipMessage(r, m) ==
  /\ pc[r] = "idle"
  /\ m \notin arrived
  /\ \E batch \in Batches : {m} \cup (arrived \cap Messages) \subseteq batch
  /\ arrived' = arrived \cup {m}
  /\ IF running /\ MappingFor(m) # 0 /\ should_forward_to_external(Mappings[MappingFor(m)])
     THEN \/ /\ Goto(r, "participant")
             /\ call' = [call EXCEPT ![r].msg = m]
             /\ UNCHANGED stats
          \/ /\ UseE2e
             /\ stats' = [stats EXCEPT !.errors = @ + 1]
             /\ UNCHANGED <<pc, call>>
     ELSE UNCHANGED <<pc, call, stats>>
  /\ UNCHANGED <<lifecycle, inbound, topics, writers, written>>

CheckParticipant(r) ==
  /\ pc[r] = "participant"
  /\ IF participant = "live" THEN Goto(r, "topic") /\ UNCHANGED call ELSE Return(r)
  /\ UNCHANGED <<lifecycle, inbound, topics, writers, written, arrived, stats>>

TopicOf(r) == MessageTopic[call[r].msg]

EnsureTopic(r) ==
  /\ pc[r] = "topic"
  /\ LET h == ensure_topic(TopicOf(r), participant = "live")
     IN  /\ topics' = [topics EXCEPT ![TopicOf(r)] = h]
         /\ call' = [call EXCEPT ![r].topic = h]
  /\ Goto(r, "writer")
  /\ UNCHANGED <<lifecycle, inbound, writers, written, arrived, stats>>

\* The writer of the topic is reused, with the QoS it was created with; creating
\* one may fail, and fails without a participant or a topic.
EnsureWriter(r) ==
  /\ pc[r] = "writer"
  /\ \/ /\ writers[TopicOf(r)] # noWriter
        /\ call' = [call EXCEPT ![r].writer = writers[TopicOf(r)]]
        /\ Goto(r, "write")
        /\ UNCHANGED writers
     \/ /\ writers[TopicOf(r)] = noWriter /\ participant = "live" /\ call[r].topic = "live"
        /\ LET w == [qos |-> WriterQos(call[r].msg), live |-> TRUE]
           IN  /\ writers' = [writers EXCEPT ![TopicOf(r)] = w]
               /\ call' = [call EXCEPT ![r].writer = w]
        /\ Goto(r, "write")
     \/ /\ writers[TopicOf(r)] = noWriter
        /\ Return(r)
        /\ UNCHANGED writers
  /\ UNCHANGED <<lifecycle, inbound, topics, written, arrived, stats>>

Written(r) == [msg |-> call[r].msg, reliability |-> call[r].writer.qos.reliability]

\* Mutant: a failed write is recorded too.
WriteUnchecked(r) ==
  /\ pc[r] = "write"
  /\ written' = IF call[r].writer.live THEN Append(written, Written(r)) ELSE written
  /\ Goto(r, "record")
  /\ UNCHANGED <<lifecycle, inbound, topics, writers, call, arrived, stats>>

\* dds_write.  A reader of this participant on the same topic gets the sample too,
\* if the writer offers the QoS it asks for.
DdsWrite(r) ==
  /\ pc[r] = "write"
  /\ \/ /\ call[r].writer.live
        /\ written' = Append(written, Written(r))
        /\ history' = IF TopicOf(r) \in readers
                         /\ Matches(call[r].writer.qos, ReaderQos[TopicOf(r)])
                      THEN [history EXCEPT ![TopicOf(r)] = Append(@, call[r].msg.id)]
                      ELSE history
        /\ Goto(r, "record")
        /\ UNCHANGED call
     \/ /\ Return(r)
        /\ UNCHANGED <<written, history>>
  /\ UNCHANGED <<lifecycle, readers, reader_stop, reader, todo, delivered, topics, writers,
                 arrived, stats>>

Record(r) ==
  /\ pc[r] = "record"
  /\ stats' = [stats EXCEPT !.to_external = @ + 1]
  /\ Return(r)
  /\ UNCHANGED <<lifecycle, inbound, topics, writers, written, arrived>>

-----------------------------------------------------------------------------
(* Samples: remote writers, the reader thread, inject_dds_sample.          *)

RemoteWrites(x) ==
  /\ x \notin arrived
  /\ x.topic \in readers
  /\ arrived' = arrived \cup {x}
  /\ history' = [history EXCEPT ![x.topic] = Append(@, x.id)]
  /\ UNCHANGED <<lifecycle, readers, reader_stop, reader, todo, delivered, outbound, stats>>

\* Mutant: the loop tests the flag only after a round without readers.
ReaderNeverStops ==
  /\ reader = "check"
  /\ reader' = IF readers = {} THEN "check" ELSE "take"
  /\ todo' = readers
  /\ UNCHANGED <<lifecycle, readers, reader_stop, history, delivered, outbound, arrived, stats>>

ReaderCheck ==
  /\ reader = "check"
  /\ IF reader_stop
     THEN reader' = "exited" /\ UNCHANGED todo
     ELSE reader' = (IF readers = {} THEN "check" ELSE "take") /\ todo' = readers
  /\ UNCHANGED <<lifecycle, readers, reader_stop, history, delivered, outbound, arrived, stats>>

Deliver(ids) ==
  /\ delivered' = delivered \cup ToSet(ids)
  /\ stats' = [stats EXCEPT !.to_someip = @ + Len(ids)]

FirstTwo(q) == SubSeq(q, 1, IF Len(q) < 2 THEN Len(q) ELSE 2)

\* dds_take takes two samples at most; each is recorded and given to the sink.
\* After the last reader of the round the thread sleeps.
ReaderTake(t) ==
  /\ reader = "take"
  /\ t \in todo
  /\ Deliver(FirstTwo(history[t]))
  /\ history' = [history EXCEPT ![t] = SubSeq(@, Len(FirstTwo(@)) + 1, Len(@))]
  /\ todo' = todo \ {t}
  /\ reader' = IF todo' = {} THEN "check" ELSE "take"
  /\ UNCHANGED <<lifecycle, readers, reader_stop, outbound, arrived>>

\* The application hands a sample in, whether or not the gateway runs.
InjectDdsSample(x) ==
  /\ x \notin arrived
  /\ arrived' = arrived \cup {x}
  /\ Deliver(<<x.id>>)
  /\ UNCHANGED <<lifecycle, readers, reader_stop, reader, todo, history, outbound>>

-----------------------------------------------------------------------------
Init ==
  /\ running = FALSE /\ participant = "zero" /\ control = "idle"
  /\ topics = [t \in Topics |-> "none"] /\ writers = [t \in Topics |-> noWriter]
  /\ readers = {} /\ reader_stop = TRUE /\ reader = "none" /\ todo = {}
  /\ history = [t \in Topics |-> <<>>]
  /\ arrived = {} /\ written = <<>> /\ delivered = {}
  /\ call = [r \in Receivers |-> noCall]
  /\ stats = [to_external |-> 0, to_someip |-> 0, errors |-> 0]
  /\ pc = [r \in Receivers |-> "idle"]

Next ==
  \/ StartImpl \/ StartRunning
  \/ StopUdp \/ StopJoin \/ StopDelete \/ StopRunning
  \/ \E r \in Receivers, m \in Messages : OnSomeipMessage(r, m)
  \/ \E r \in Receivers : CheckParticipant(r) \/ EnsureTopic(r) \/ EnsureWriter(r) \/ DdsWrite(r)
                            \/ Record(r)
  \/ \E x \in Samples : RemoteWrites(x) \/ InjectDdsSample(x)
  \/ ReaderCheck
  \/ \E t \in Topics : ReaderTake(t)

Spec == Init /\ [][Next]_vars

\* The reader thread and the controller, inside stop(), keep running, and so does
\* a receiver once its write has returned.
Fairness ==
  /\ WF_vars(ReaderCheck \/ (\E t \in Topics : ReaderTake(t)))
  /\ WF_vars(StopJoin \/ StopDelete \/ StopRunning)
  /\ \A r \in Receivers : WF_vars(Record(r))

FairSpec == Spec /\ Fairness
-----------------------------------------------------------------------------
(* Correctness.                                                            *)

\* The reader thread lives exactly as long as the participant: a start never
\* assigns a thread over one that is still running, and after stop() nothing is
\* delivered by it.
ReaderThreadOwned ==
  /\ reader # "none" => participant = "live"
  /\ control = "idle" /\ participant = "live" => reader \in {"check", "take"}

\* Messages cross to DDS as CountingBridge says: each at most once, and a write
\* that succeeded is counted in the end, however receivers and a stop interleave.
Outbound == INSTANCE CountingBridge WITH
  Items <- Messages, arrived <- arrived \cap Messages,
  forwarded <- [i \in DOMAIN written |-> written[i].msg], counted <- stats.to_external
ImplementsBridge == Outbound!Spec

OnDefaultTopic(m) == Mappings[MappingFor(m)].external = <<>>

\* A request is written unreliably only after a message of its topic that is no
\* request, response or error; if no mapping names the topic of either, that is a
\* fire-and-forget call or a segment of the same method of the same service, never
\* an event, however receivers interleave while they create the topic's writer.
RpcReliableUnlessShared ==
  \A i \in DOMAIN written :
    LET m == written[i].msg
    IN  m.type = REQUEST /\ written[i].reliability # "Reliable" =>
          \E n \in arrived \cap DOMAIN MessageTopic :
            /\ MessageTopic[n] = MessageTopic[m]
            /\ n.type \notin {REQUEST, RESPONSE, ERROR}
            /\ OnDefaultTopic(m) /\ OnDefaultTopic(n) =>
                 n.type # NOTIFICATION /\ n.service = m.service /\ n.method = m.method

\* What the gateway writes comes back to SOME/IP only where an inbound mapping reads
\* its topic and one of the two mappings names that topic, and only through a
\* reliable writer: default topics alone never make a loop.
EchoOnlyOnNamedTopics ==
  \A i \in DOMAIN written :
    LET m == written[i].msg
    IN  m.id \in delivered =>
          /\ \E j \in DOMAIN Mappings :
               /\ should_forward_to_someip(Mappings[j])
               /\ ReaderTopic(Mappings[j]) = MessageTopic[m]
               /\ Mappings[j].external # <<>> \/ ~OnDefaultTopic(m)
          /\ written[i].reliability = "Reliable"

\* stop() returns: the reader thread sees reader_stop_ in its next round.
StopReturns == control = "join" ~> control = "idle"

\* "RPC request/response ... Ordered delivery expected ... Reliable": requests are
\* written with reliable QoS.
RpcIsReliable ==
  \A i \in DOMAIN written :
    written[i].msg.type = REQUEST => written[i].reliability = "Reliable"

\* A start that returned SUCCESS means "Cyclone DDS" is "available": a running
\* gateway has a participant to write with.
RunningHasParticipant == running /\ control = "idle" => participant = "live"

\* A writer that the next message will use belongs to the current participant:
\* "Thread safety is ensured by the gateway base class's internal mutex".
WritersAreCurrent ==
  participant = "live" => \A t \in Topics : writers[t] # noWriter => writers[t].live
=============================================================================
