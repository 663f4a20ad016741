----------------------------- MODULE MqttGateway -----------------------------
(***************************************************************************)
(* The SOME/IP to MQTT direction of MqttGateway and its offline ring       *)
(* buffer.  Three kinds of threads meet on it:                             *)
(*   Receivers    deliver SOME/IP messages: the UDP transport's thread,    *)
(*                the event subscriber's thread, application threads;      *)
(*   Flushers     application threads that call flush_offline_buffer;      *)
(*   Controllers  application threads that call start and stop.            *)
(* One step is one access to shared state: an atomic load or store, or a   *)
(* critical section of the buffer's mutex.  The mapping table is           *)
(* configured before the gateway is used, so it is a constant.             *)
(* stop_reconnect_ and current_backoff_ are written and never read.        *)
(***************************************************************************)
EXTENDS Naturals, Sequences, FiniteSets, ServiceMappings

CONSTANTS Receivers,        \* threads that call on_someip_message
          Source,           \* where each receiver gets its messages from
          Flushers,         \* threads that call flush_offline_buffer
          Controllers,      \* threads that call start and stop
          Messages,         \* [id, service, e2e_ok]; each arrives at most once
          Mappings,         \* service_mappings_
          DefaultInstance,  \* default_someip_instance_id
          Capacity,         \* offline_buffer_capacity
          HasTransport      \* enable_someip_udp_bridge made a transport

none == [id |-> 0]

ASSUME CapacityAssumption == Capacity \in Nat \ {0}

ASSUME TransportAssumption == HasTransport \in BOOLEAN

ASSUME ThreadAssumption ==
  /\ Receivers \cap Flushers = {}
  /\ Receivers \cap Controllers = {}
  /\ Flushers \cap Controllers = {}
  /\ IsFiniteSet(Receivers) /\ IsFiniteSet(Flushers)

\* No message is the empty item.
ASSUME NoneAssumption == none \notin Messages

ASSUME SourceAssumption == Source \in [Receivers -> {"udp", "event", "app"}]

VARIABLES running,           \* GatewayBase::running_
          connected,         \* mqtt_connected_
          udp,               \* udp_transport_ has been started
          event_subscriber,  \* event_subscriber_ : null, initialized or shutdown
          subscribed,        \* an event group was subscribed
          queue,             \* offline_buffer_.queue_
          pc,                \* the next step of each thread
          item,              \* the publish each thread is working on
          arrived,           \* messages handed to on_someip_message
          published,         \* publishes that found the broker connected
          dropped,           \* publishes evicted from a full buffer
          stats              \* messages_someip_to_external, translation_errors

vars == <<running, connected, udp, event_subscriber, subscribed, queue, pc, item,
          arrived, published, dropped, stats>>

lifecycle == <<running, udp, event_subscriber, subscribed>>

Publishers == Receivers \cup Flushers
Threads == Publishers \cup Controllers
Idle(t) == pc[t] = "idle"
Goto(t, label) == pc' = [pc EXCEPT ![t] = label]

-----------------------------------------------------------------------------
(* The ring buffer: push evicts the oldest publish when it is full.        *)

\* Mutant: a full buffer grows.
RingPushUnbounded(q, x) == Append(q, x)

RingPush(q, x) ==
  IF Len(q) >= Capacity THEN Append(Tail(q), x) ELSE Append(q, x)

Evicted(q) == IF Len(q) >= Capacity THEN {Head(q)} ELSE {}

-----------------------------------------------------------------------------
(* start() and stop().  Starting the UDP transport, if there is one, may    *)
(* fail.                                                                   *)

\* Mutant: the result of starting the transport is ignored.
StartUdpUnchecked(c) ==
  /\ Idle(c)
  /\ udp' \in {udp, HasTransport}
  /\ Goto(c, "reset")
  /\ UNCHANGED <<running, connected, event_subscriber, subscribed, queue, item,
                 arrived, published, dropped, stats>>

StartUdp(c) ==
  /\ Idle(c)
  /\ \/ /\ udp' = HasTransport
        /\ Goto(c, "reset")
     \/ HasTransport /\ UNCHANGED <<udp, pc>>
  /\ UNCHANGED <<running, connected, event_subscriber, subscribed, queue, item,
                 arrived, published, dropped, stats>>

StartReset(c) ==
  /\ pc[c] = "reset"
  /\ connected' = FALSE
  /\ Goto(c, "set_running")
  /\ UNCHANGED <<lifecycle, queue, item, arrived, published, dropped, stats>>

StartRunning(c) ==
  /\ pc[c] = "set_running"
  /\ running' = TRUE
  /\ Goto(c, "idle")
  /\ UNCHANGED <<connected, udp, event_subscriber, subscribed, queue, item, arrived,
                 published, dropped, stats>>

StopServices(c) ==
  /\ Idle(c)
  /\ event_subscriber' = IF event_subscriber = "null" THEN "null" ELSE "shutdown"
  /\ Goto(c, "stop_udp")
  /\ UNCHANGED <<running, connected, udp, subscribed, queue, item, arrived, published,
                 dropped, stats>>

StopUdp(c) ==
  /\ pc[c] = "stop_udp"
  /\ udp' = FALSE
  /\ Goto(c, "clear_running")
  /\ UNCHANGED <<running, connected, event_subscriber, subscribed, queue, item, arrived,
                 published, dropped, stats>>

StopRunning(c) ==
  /\ pc[c] = "clear_running"
  /\ running' = FALSE
  /\ Goto(c, "idle")
  /\ UNCHANGED <<connected, udp, event_subscriber, subscribed, queue, item, arrived,
                 published, dropped, stats>>

\* The subscriber is created and initialized by the first subscription only.
SubscribeSomeipEventgroup ==
  /\ event_subscriber' = IF event_subscriber = "null" THEN "initialized"
                                                      ELSE event_subscriber
  /\ subscribed' \in {subscribed, TRUE}
  /\ UNCHANGED <<running, connected, udp, queue, pc, item, arrived, published, dropped,
                 stats>>

\* The broker connection comes and goes (test_set_mqtt_connected).
SetMqttConnected ==
  /\ connected' = ~connected
  /\ UNCHANGED <<lifecycle, queue, pc, item, arrived, published, dropped, stats>>

-----------------------------------------------------------------------------
(* on_someip_message, up to its call of publish_mqtt.                      *)

MappingFor(m) ==
  LET primary == find_mapping_for_service(Mappings, m.service, DefaultInstance)
  IN  IF primary # 0 THEN primary
                     ELSE find_mapping_for_service(Mappings, m.service, 1)

Routed(m) ==
  /\ MappingFor(m) # 0
  /\ should_forward_to_external(Mappings[MappingFor(m)])

\* Where a receiver's messages come from: the transport calls back while it is
\* started, the subscriber while it is initialized.
CanReceive(r) ==
  \/ Source[r] = "app"
  \/ Source[r] = "udp" /\ udp
  \/ Source[r] = "event" /\ subscribed /\ event_subscriber = "initialized"

OnSomeipMessage(r, m) ==
  /\ Idle(r)
  /\ CanReceive(r)
  /\ m \notin arrived
  /\ arrived' = arrived \cup {m}
  /\ IF running /\ Routed(m) /\ m.e2e_ok
     THEN Goto(r, "publish") /\ item' = [item EXCEPT ![r] = m]
     ELSE UNCHANGED <<pc, item>>
  /\ stats' = IF running /\ Routed(m) /\ ~m.e2e_ok
              THEN [stats EXCEPT !.translation_errors = @ + 1]
              ELSE stats
  /\ UNCHANGED <<lifecycle, connected, queue, published, dropped>>

-----------------------------------------------------------------------------
(* flush_offline_buffer: pop and publish until the buffer is empty.        *)

FlushCall(f) ==
  /\ Idle(f)
  /\ Goto(f, "pop")
  /\ UNCHANGED <<lifecycle, connected, queue, item, arrived, published, dropped, stats>>

\* Mutant: the oldest publish is read and left in the buffer.
FlushPeek(f) ==
  /\ pc[f] = "pop"
  /\ IF queue = <<>>
     THEN Goto(f, "idle") /\ UNCHANGED item
     ELSE Goto(f, "publish") /\ item' = [item EXCEPT ![f] = Head(queue)]
  /\ UNCHANGED <<lifecycle, connected, queue, arrived, published, dropped, stats>>

FlushPop(f) ==
  /\ pc[f] = "pop"
  /\ IF queue = <<>>
     THEN /\ Goto(f, "idle")
          /\ UNCHANGED <<queue, item>>
     ELSE /\ item' = [item EXCEPT ![f] = Head(queue)]
          /\ queue' = Tail(queue)
          /\ Goto(f, "publish")
  /\ UNCHANGED <<lifecycle, connected, arrived, published, dropped, stats>>

-----------------------------------------------------------------------------
(* publish_mqtt: load mqtt_connected_, then publish or push.               *)

\* Where the caller of publish_mqtt continues.
AfterPublish(t) == IF t \in Flushers THEN "pop" ELSE "record"

\* Mutant: a buffered publish is recorded like a sent one.
AfterPushRecords(t) == IF t \in Flushers THEN "pop" ELSE "record"

AfterPush(t) == IF t \in Flushers THEN "pop" ELSE "idle"

\* Mutant: every publish goes through the buffer.
PublishViaBuffer(t) ==
  /\ pc[t] = "publish"
  /\ Goto(t, "push")
  /\ UNCHANGED <<lifecycle, connected, queue, item, arrived, published, dropped, stats>>

PublishMqtt(t) ==
  /\ pc[t] = "publish"
  /\ \/ /\ connected
        /\ published' = Append(published, [msg |-> item[t], by |-> t])
        /\ item' = [item EXCEPT ![t] = none]
        /\ Goto(t, AfterPublish(t))
     \/ /\ ~connected
        /\ Goto(t, "push")
        /\ UNCHANGED <<published, item>>
  /\ UNCHANGED <<lifecycle, connected, queue, arrived, dropped, stats>>

\* Mutant: the publish is moved away before it is pushed.
PushMovedFrom(t) ==
  /\ pc[t] = "push"
  /\ queue' = RingPush(queue, none)
  /\ dropped' = dropped \cup Evicted(queue)
  /\ item' = [item EXCEPT ![t] = none]
  /\ Goto(t, AfterPush(t))
  /\ UNCHANGED <<lifecycle, connected, arrived, published, stats>>

\* Mutant: a publish popped by a flush is not pushed back.
PushForgets(t) ==
  /\ pc[t] = "push"
  /\ queue' = IF t \in Flushers THEN queue ELSE RingPush(queue, item[t])
  /\ dropped' = IF t \in Flushers THEN dropped ELSE dropped \cup Evicted(queue)
  /\ item' = [item EXCEPT ![t] = none]
  /\ Goto(t, AfterPush(t))
  /\ UNCHANGED <<lifecycle, connected, arrived, published, stats>>

PushOffline(t) ==
  /\ pc[t] = "push"
  /\ queue' = RingPush(queue, item[t])
  /\ dropped' = dropped \cup Evicted(queue)
  /\ item' = [item EXCEPT ![t] = none]
  /\ Goto(t, AfterPush(t))
  /\ UNCHANGED <<lifecycle, connected, arrived, published, stats>>

\* Only a publish that returned SUCCESS is counted.
RecordForwarded(r) ==
  /\ pc[r] = "record"
  /\ stats' = [stats EXCEPT !.messages_someip_to_external = @ + 1]
  /\ Goto(r, "idle")
  /\ UNCHANGED <<lifecycle, connected, queue, item, arrived, published, dropped>>

-----------------------------------------------------------------------------
Init ==
  /\ running = FALSE
  /\ connected = FALSE
  /\ udp = FALSE
  /\ event_subscriber = "null"
  /\ subscribed = FALSE
  /\ queue = <<>>
  /\ pc = [t \in Threads |-> "idle"]
  /\ item = [t \in Publishers |-> none]
  /\ arrived = {}
  /\ published = <<>>
  /\ dropped = {}
  /\ stats = [messages_someip_to_external |-> 0, translation_errors |-> 0]

\* Steps a thread takes once it has entered a call of the gateway.
Continue ==
  \/ \E c \in Controllers :
       StartReset(c) \/ StartRunning(c) \/ StopUdp(c) \/ StopRunning(c)
  \/ \E t \in Publishers : PublishMqtt(t) \/ PushOffline(t)
  \/ \E r \in Receivers : RecordForwarded(r)
  \/ \E f \in Flushers : FlushPop(f)

Next ==
  \/ \E c \in Controllers : StartUdp(c) \/ StopServices(c)
  \/ SubscribeSomeipEventgroup
  \/ SetMqttConnected
  \/ \E r \in Receivers, m \in Messages : OnSomeipMessage(r, m)
  \/ \E f \in Flushers : FlushCall(f)
  \/ Continue

Spec == Init /\ [][Next]_vars

\* A thread inside a call keeps running; nobody has to call the gateway.
Fairness ==
  /\ \A t \in Publishers : WF_vars(PublishMqtt(t) \/ PushOffline(t))
  /\ \A r \in Receivers : WF_vars(RecordForwarded(r))
  /\ \A f \in Flushers : WF_vars(FlushPop(f))
  /\ \A c \in Controllers :
       WF_vars(StartReset(c) \/ StartRunning(c) \/ StopUdp(c) \/ StopRunning(c))

FairSpec == Spec /\ Fairness
-----------------------------------------------------------------------------
(* Correctness.                                                            *)

Labels == {"idle", "reset", "set_running", "stop_udp", "clear_running",
           "pop", "publish", "push", "record"}

\* Every variable keeps the type of the member it models.
TypeOK ==
  /\ running \in BOOLEAN /\ connected \in BOOLEAN /\ udp \in BOOLEAN
  /\ event_subscriber \in {"null", "initialized", "shutdown"}
  /\ subscribed \in BOOLEAN
  /\ queue \in Seq(Messages)
  /\ pc \in [Threads -> Labels]
  /\ item \in [Publishers -> Messages \cup {none}]
  /\ arrived \subseteq Messages
  /\ published \in Seq([msg : Messages, by : Publishers])
  /\ dropped \subseteq Messages
  /\ stats \in [messages_someip_to_external : Nat, translation_errors : Nat]

\* The buffer is a "Fixed-capacity queue" whichever threads push, pop and push
\* back what they popped (OfflineMqttRingBuffer::push).
BufferBounded == Len(queue) <= Capacity

Holding(t) == pc[t] \in {"publish", "push"}
InHand == {item[t] : t \in {u \in Publishers : Holding(u)}}
Delivered == [i \in DOMAIN published |-> published[i].msg]

\* A message is in one place at most: in the hands of one thread, in one slot of
\* the buffer, published once, or dropped.  Flushing pops, tests the connection
\* and pushes back in separate critical sections, so this is where a duplicate
\* or a publish of an evicted message would show.
EachMessageOnce ==
  /\ \A i, j \in DOMAIN queue : queue[i] = queue[j] => i = j
  /\ \A i, j \in DOMAIN published : published[i].msg = published[j].msg => i = j
  /\ \A t, u \in Publishers :
       Holding(t) /\ Holding(u) /\ item[t] = item[u] => t = u
  /\ InHand \cap ToSet(queue) = {}
  /\ ToSet(Delivered) \cap (InHand \cup ToSet(queue)) = {}
  /\ dropped \cap (InHand \cup ToSet(queue) \cup ToSet(Delivered)) = {}

\* The counter messages_someip_to_external is the number of messages published by
\* on_someip_message, late only by the calls between publishing and recording:
\* neither a buffered publish nor one made by a flush is ever counted.
StatsCountDirectPublishes ==
  stats.messages_someip_to_external + Cardinality({r \in Receivers : pc[r] = "record"})
    = Cardinality({i \in DOMAIN published : published[i].by \in Receivers})

\* Between calls of start and stop, the UDP transport, if there is one, runs
\* exactly when the gateway does, also after a start whose transport failed.
LifecycleConsistent ==
  (\A c \in Controllers : Idle(c)) => (udp <=> running /\ HasTransport)

Channel == INSTANCE AtMostOnceChannel
             WITH pending <- InHand \cup ToSet(queue),
                  delivered <- Delivered,
                  lost <- dropped

\* Publishing through the buffer is a channel that delivers at most once, forgets
\* nothing, and loses a message only when more than Capacity are outstanding.
ImplementsChannel == Channel!Spec

\* Once the connection stays up, flush_offline_buffer returns.  (While it is down
\* the loop pops and pushes back the same publishes without end.)
FlushReturns ==
  <>[]connected => \A f \in Flushers : pc[f] = "pop" ~> Idle(f)

\* "When true, flush_offline_buffer runs automatically after connect" (the
\* default): what is buffered leaves the buffer once the broker is connected.
FlushedOnConnect ==
  (connected /\ queue # <<>>) ~> (~connected \/ queue = <<>>)

\* "Subscribe SOME/IP event groups; notifications are mirrored to MQTT": a running
\* gateway that has subscribed can receive the notifications.
SubscriptionsLive ==
  (\A c \in Controllers : Idle(c)) /\ running /\ subscribed
    => event_subscriber = "initialized"
=============================================================================
