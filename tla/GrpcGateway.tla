----------------------------- MODULE GrpcGateway -----------------------------
(***************************************************************************)
(* The calls of GrpcGateway's service.  Every StreamSomeIpEvents call runs *)
(* on a gRPC thread with a sink of its own, a queue the thread drains;     *)
(* frames are put into it by the event subscriber's thread (on_evt) and by *)
(* threads that call on_someip_message (broadcast_notification).  start    *)
(* and stop run on a controller thread; Shutdown cancels the calls and     *)
(* waits for their handlers.  A UnarySomeIp call waits for the vehicle or  *)
(* for a cloud target and does not look at its context; what it answers is *)
(* GrpcTranslator's part.                                                  *)
(*   The gRPC server and someip's EventSubscriber are external.  A         *)
(* subscription is dropped by its key alone, so the subscriber is modelled *)
(* as a set of callbacks per key.                                          *)
(***************************************************************************)
EXTENDS Naturals, Sequences, FiniteSets

CONSTANTS Streams,       \* StreamSomeIpEvents calls, each made at most once
          Key,           \* the event group each stream asks for: ids of 32 bits
          Calls,         \* UnarySomeIp calls, each made at most once
          Notifications  \* [id, key]; each arrives at most once

ASSUME KeyAssumption ==
  \A s \in Streams : Key[s] \in [service : Nat, instance : Nat, group : Nat]

none == [id |-> 0]

\* No notification is the empty frame.
ASSUME NoneAssumption == none \notin Notifications

VARIABLES running,      \* running_
          clients,      \* which of "rpc", "subscriber" and "sd" are initialized
          server,       \* grpc_server_: "null", "serving" or "closing"
          callbacks,    \* on_evt callbacks the event subscriber holds
          registry,     \* stream_subscribers_
          closed,       \* sinks whose closed flag is set
          pending,      \* the queue of each sink
          cancelled,    \* calls whose context is cancelled
          frame,        \* the frame each stream took from its sink
          written,      \* frames each client was sent
          accepted,     \* frames each sink accepted
          arrived,      \* notifications seen
          inflight,     \* on_evt callbacks the event thread still has to run
          control,      \* the step of the controller
          pc,           \* the step of each stream
          unary         \* the step of each UnarySomeIp call

vars == <<running, clients, server, callbacks, registry, closed, pending, cancelled, frame,
          written, accepted, arrived, inflight, control, pc, unary>>

\* What the steps of a stream leave alone.
lifecycle == <<running, clients, server, control, unary>>
sinks == <<closed, pending, accepted>>
delivery == <<arrived, inflight>>

\* static_cast<uint16_t>: what of a stream's key reaches the event subscriber.
Group(s) == [service  |-> Key[s].service % 65536,
             instance |-> Key[s].instance % 65536,
             group    |-> Key[s].group % 65536]

Keys == {Group(s) : s \in Streams}
Active == {s \in Streams : pc[s] \notin {"new", "done"}}
Waiting == {c \in Calls : unary[c] \in {"cloud", "vehicle"}}
Goto(s, label) == pc' = [pc EXCEPT ![s] = label]

-----------------------------------------------------------------------------
(* start() and stop().                                                     *)

\* Each client is initialized in turn; the first failure returns and leaves the
\* ones before it initialized.
StartClients ==
  /\ control = "idle" /\ ~running
  /\ \/ clients' = clients \cup {"rpc", "subscriber", "sd"} /\ control' = "serve"
     \/ clients' \in {clients, clients \cup {"rpc"}, clients \cup {"rpc", "subscriber"}}
        /\ UNCHANGED control
  /\ UNCHANGED <<running, server, callbacks, registry, sinks, cancelled, frame, written,
                 delivery, pc, unary>>

\* BuildAndStart returns no server when the port cannot be bound.
StartServer ==
  /\ control = "serve"
  /\ \/ server' = "serving" /\ control' = "set_running"
     \/ server' = "null" /\ control' = "idle"
  /\ UNCHANGED <<running, clients, callbacks, registry, sinks, cancelled, frame, written,
                 delivery, pc, unary>>

StartRunning ==
  /\ control = "set_running"
  /\ running' = TRUE
  /\ control' = "idle"
  /\ UNCHANGED <<clients, server, callbacks, registry, sinks, cancelled, frame, written,
                 delivery, pc, unary>>

\* Shutdown with a deadline that has passed cancels every call.
StopShutdown ==
  /\ control = "idle" /\ running
  /\ server' = "closing"
  /\ cancelled' = cancelled \cup Active
  /\ control' = "join"
  /\ UNCHANGED <<running, clients, callbacks, registry, sinks, frame, written, delivery, pc,
                 unary>>

\* Mutant: Shutdown does not wait for the handlers.
StopNoJoin ==
  /\ control = "join"
  /\ server' = "null"
  /\ clients' = {}
  /\ callbacks' = [k \in Keys |-> {}]
  /\ registry' = {}
  /\ control' = "clear_running"
  /\ UNCHANGED <<running, sinks, cancelled, frame, written, delivery, pc, unary>>

\* It returns when the handlers have; then everything else is shut down.
StopRelease ==
  /\ control = "join"
  /\ Active = {} /\ Waiting = {}
  /\ server' = "null"
  /\ clients' = {}
  /\ callbacks' = [k \in Keys |-> {}]
  /\ registry' = {}
  /\ control' = "clear_running"
  /\ UNCHANGED <<running, sinks, cancelled, frame, written, delivery, pc, unary>>

StopRunning ==
  /\ control = "clear_running"
  /\ running' = FALSE
  /\ control' = "idle"
  /\ UNCHANGED <<clients, server, callbacks, registry, sinks, cancelled, frame, written,
                 delivery, pc, unary>>

-----------------------------------------------------------------------------
(* StreamSomeIpEvents.                                                     *)

\* The server dispatches a call: its sink is registered.
RegisterEventStream(s) ==
  /\ pc[s] = "new"
  /\ server = "serving"
  /\ registry' = registry \cup {s}
  /\ Goto(s, "subscribe")
  /\ UNCHANGED <<lifecycle, callbacks, sinks, cancelled, frame, written, delivery>>

SubscribeEventgroup(s) ==
  /\ pc[s] = "subscribe"
  /\ \/ /\ callbacks' = [callbacks EXCEPT ![Group(s)] = @ \cup {s}]
        /\ Goto(s, "check")
     \/ /\ UNCHANGED callbacks
        /\ Goto(s, "unregister")
  /\ UNCHANGED <<lifecycle, registry, sinks, cancelled, frame, written, delivery>>

\* Mutant: only a closed sink ends the loop.
CheckNothing(s) ==
  /\ pc[s] = "check"
  /\ Goto(s, "wait")
  /\ UNCHANGED <<lifecycle, callbacks, registry, sinks, cancelled, frame, written, delivery>>

CheckCancelled(s) ==
  /\ pc[s] = "check"
  /\ Goto(s, IF s \in cancelled THEN "unsubscribe" ELSE "wait")
  /\ UNCHANGED <<lifecycle, callbacks, registry, sinks, cancelled, frame, written, delivery>>

\* Mutant: the newest frame is taken.
WaitNewest(s) ==
  /\ pc[s] = "wait"
  /\ IF pending[s] = <<>>
     THEN Goto(s, "check") /\ UNCHANGED <<pending, frame>>
     ELSE /\ frame' = [frame EXCEPT ![s] = pending[s][Len(pending[s])]]
          /\ pending' = [pending EXCEPT ![s] = SubSeq(@, 1, Len(@) - 1)]
          /\ Goto(s, "write")
  /\ UNCHANGED <<lifecycle, callbacks, registry, closed, accepted, cancelled, written, delivery>>

\* wait_for returns after 250 ms at the latest, with or without a frame.
WaitFrame(s) ==
  /\ pc[s] = "wait"
  /\ IF pending[s] = <<>>
     THEN /\ Goto(s, IF s \in closed THEN "unsubscribe" ELSE "check")
          /\ UNCHANGED <<pending, frame>>
     ELSE /\ frame' = [frame EXCEPT ![s] = Head(pending[s])]
          /\ pending' = [pending EXCEPT ![s] = Tail(@)]
          /\ Goto(s, "write")
  /\ UNCHANGED <<lifecycle, callbacks, registry, closed, accepted, cancelled, written, delivery>>

\* Mutant: the frame is cleared before it is written.
WriteMovedFrom(s) ==
  /\ pc[s] = "write"
  /\ written' = [written EXCEPT ![s] = Append(@, none)]
  /\ frame' = [frame EXCEPT ![s] = none]
  /\ Goto(s, "check")
  /\ UNCHANGED <<lifecycle, callbacks, registry, sinks, cancelled, delivery>>

\* Writing fails when the call is cancelled under it.
WriteFrame(s) ==
  /\ pc[s] = "write"
  /\ \/ /\ written' = [written EXCEPT ![s] = Append(@, frame[s])]
        /\ Goto(s, "check")
     \/ /\ s \in cancelled
        /\ UNCHANGED written
        /\ Goto(s, "unsubscribe")
  /\ frame' = [frame EXCEPT ![s] = none]
  /\ UNCHANGED <<lifecycle, callbacks, registry, sinks, cancelled, delivery>>

UnsubscribeEventgroup(s) ==
  /\ pc[s] = "unsubscribe"
  /\ callbacks' = [callbacks EXCEPT ![Group(s)] = {}]
  /\ Goto(s, "unregister")
  /\ UNCHANGED <<lifecycle, registry, sinks, cancelled, frame, written, delivery>>

\* Mutant: the weak pointer is left in the multimap.
UnregisterNothing(s) ==
  /\ pc[s] = "unregister"
  /\ Goto(s, "close")
  /\ UNCHANGED <<lifecycle, callbacks, registry, sinks, cancelled, frame, written, delivery>>

UnregisterEventStream(s) ==
  /\ pc[s] = "unregister"
  /\ registry' = registry \ {s}
  /\ Goto(s, "close")
  /\ UNCHANGED <<lifecycle, callbacks, sinks, cancelled, frame, written, delivery>>

CloseSink(s) ==
  /\ pc[s] = "close"
  /\ closed' = closed \cup {s}
  /\ Goto(s, "done")
  /\ UNCHANGED <<lifecycle, callbacks, registry, pending, accepted, cancelled, frame, written,
                 delivery>>

\* The client cancels its call or disconnects.
ClientCancels(s) ==
  /\ s \in Active
  /\ cancelled' = cancelled \cup {s}
  /\ UNCHANGED <<lifecycle, callbacks, registry, sinks, frame, written, delivery, pc>>

-----------------------------------------------------------------------------
(* UnarySomeIp.                                                            *)

streaming == <<callbacks, registry, sinks, cancelled, frame, written, delivery, pc>>

\* A call is refused at once, is passed on to its cloud target, or is made on the
\* vehicle; its context is not looked at again.
UnarySomeIp(c) ==
  /\ unary[c] = "new"
  /\ server = "serving"
  /\ \E wait \in {"done", "cloud", "vehicle"} : unary' = [unary EXCEPT ![c] = wait]
  /\ UNCHANGED <<running, clients, server, control, streaming>>

\* call_method_sync returns after rpc_response_timeout at the latest.
VehicleAnswers(c) ==
  /\ unary[c] = "vehicle"
  /\ unary' = [unary EXCEPT ![c] = "done"]
  /\ UNCHANGED <<running, clients, server, control, streaming>>

\* The call to a cloud target is made without a deadline.
CloudAnswers(c) ==
  /\ unary[c] = "cloud"
  /\ unary' = [unary EXCEPT ![c] = "done"]
  /\ UNCHANGED <<running, clients, server, control, streaming>>

-----------------------------------------------------------------------------
(* Notifications.                                                          *)

\* deliver_event_frame for each target: a closed sink drops the frame.
deliver_event_frame(targets, n) ==
  LET open == targets \ closed
  IN  /\ pending' = [s \in Streams |-> IF s \in open THEN Append(pending[s], n) ELSE pending[s]]
      /\ accepted' = [s \in Streams |-> IF s \in open THEN Append(accepted[s], n) ELSE accepted[s]]

\* The event thread receives a notification and looks its callbacks up.
EventArrives(n) ==
  /\ "subscriber" \in clients
  /\ n \notin arrived
  /\ inflight = {}
  /\ n.key \in Keys
  /\ callbacks[n.key] # {}
  /\ arrived' = arrived \cup {n}
  /\ inflight' = callbacks[n.key] \X {n}
  /\ UNCHANGED <<lifecycle, callbacks, registry, sinks, cancelled, frame, written, pc>>

OnEvt(s, n) ==
  /\ <<s, n>> \in inflight
  /\ deliver_event_frame({s}, n)
  /\ inflight' = inflight \ {<<s, n>>}
  /\ UNCHANGED <<lifecycle, callbacks, registry, closed, cancelled, frame, written, arrived, pc>>

\* on_someip_message looks for a mapping of instance 0, so that it broadcasts to
\* instance 0 whether or not it finds one; stream_mu_ is held throughout.
BroadcastNotification(n) ==
  /\ n \notin arrived
  /\ arrived' = arrived \cup {n}
  /\ deliver_event_frame({s \in registry : Key[s].service = n.key.service
                                           /\ Key[s].instance = 0}, n)
  /\ UNCHANGED <<lifecycle, callbacks, registry, closed, cancelled, frame, written, inflight, pc>>

-----------------------------------------------------------------------------
Init ==
  /\ running = FALSE /\ clients = {} /\ server = "null" /\ control = "idle"
  /\ callbacks = [k \in Keys |-> {}]
  /\ registry = {} /\ closed = {} /\ cancelled = {}
  /\ pending = [s \in Streams |-> <<>>]
  /\ accepted = [s \in Streams |-> <<>>]
  /\ written = [s \in Streams |-> <<>>]
  /\ frame = [s \in Streams |-> none]
  /\ arrived = {} /\ inflight = {}
  /\ pc = [s \in Streams |-> "new"]
  /\ unary = [c \in Calls |-> "new"]

\* The steps of a StreamSomeIpEvents call after its registration.
StreamStep(s) ==
  \/ SubscribeEventgroup(s) \/ CheckCancelled(s) \/ WaitFrame(s) \/ WriteFrame(s)
  \/ UnsubscribeEventgroup(s) \/ UnregisterEventStream(s) \/ CloseSink(s)

Next ==
  \/ StartClients \/ StartServer \/ StartRunning
  \/ StopShutdown \/ StopRelease \/ StopRunning
  \/ \E s \in Streams : RegisterEventStream(s) \/ StreamStep(s) \/ ClientCancels(s)
  \/ \E c \in Calls : UnarySomeIp(c) \/ VehicleAnswers(c) \/ CloudAnswers(c)
  \/ \E n \in Notifications : EventArrives(n) \/ BroadcastNotification(n)
  \/ \E s \in Streams, n \in Notifications : OnEvt(s, n)

Spec == Init /\ [][Next]_vars

\* gRPC threads and the controller keep running inside a call, and a call on the
\* vehicle times out; a cloud target may never answer.
Fairness ==
  /\ \A s \in Streams : WF_vars(StreamStep(s))
  /\ \A c \in Calls : WF_vars(VehicleAnswers(c))
  /\ WF_vars(StartServer \/ StartRunning \/ StopRelease \/ StopRunning)

FairSpec == Spec /\ Fairness

-----------------------------------------------------------------------------
(* Correctness.                                                            *)

\* Every variable keeps the type of the member it models.
TypeOK ==
  /\ running \in BOOLEAN
  /\ clients \subseteq {"rpc", "subscriber", "sd"}
  /\ server \in {"null", "serving", "closing"}
  /\ control \in {"idle", "serve", "set_running", "join", "clear_running"}
  /\ callbacks \in [Keys -> SUBSET Streams]
  /\ registry \subseteq Streams /\ closed \subseteq Streams /\ cancelled \subseteq Streams
  /\ pending \in [Streams -> Seq(Notifications)]
  /\ accepted \in [Streams -> Seq(Notifications)]
  /\ written \in [Streams -> Seq(Notifications)]
  /\ frame \in [Streams -> Notifications \cup {none}]
  /\ arrived \subseteq Notifications
  /\ inflight \subseteq Streams \X Notifications
  /\ pc \in [Streams -> {"new", "subscribe", "check", "wait", "write", "unsubscribe",
                         "unregister", "close", "done"}]
  /\ unary \in [Calls -> {"new", "cloud", "vehicle", "done"}]

InHand(s) == IF frame[s] = none THEN <<>> ELSE <<frame[s]>>

\* A client is sent the frames its sink accepted, in order, none twice and none
\* left out, while frames are put into the sink by other threads.
StreamIsFifo ==
  \A s \in Streams \ cancelled : written[s] \o InHand(s) \o pending[s] = accepted[s]

\* A finished stream leaves nothing behind that a notification could reach: its
\* sink is closed and neither the subscriber nor the multimap knows it, although
\* the frames of a callback still in flight may be dropped.
FinishedIsForgotten ==
  \A s \in Streams :
    pc[s] = "done" =>
      /\ s \in closed
      /\ s \notin registry
      /\ s \notin callbacks[Group(s)]

\* A gateway that runs has its server and its clients, a call that waits has the
\* client it was made with, also while stop() waits for it, and a gateway that has
\* been stopped serves no stream and no call and holds no callback.
StreamsOnlyWhileServing ==
  /\ running /\ control = "idle" => server = "serving" /\ {"rpc", "subscriber"} \subseteq clients
  /\ Waiting # {} => "rpc" \in clients
  /\ ~running /\ control = "idle" =>
       Active = {} /\ Waiting = {} /\ server = "null" /\ registry = {}

\* A cancelled stream ends, whether or not frames keep arriving.
CancelledStreamEnds == \A s \in Streams : s \in cancelled ~> pc[s] = "done"

\* stop() returns when the cloud targets answer: Shutdown waits for handlers that
\* wait for frames, for the vehicle and for cloud targets, and only the first two
\* end by themselves.
StopReturns ==
  (\A c \in Calls : unary[c] = "cloud" ~> unary[c] # "cloud")
    => (control = "join" ~> control = "idle")

\* stop() returns whatever the cloud targets do.
StopAlwaysReturns == control = "join" ~> control = "idle"

\* "Server-streaming: SOME/IP events -> gRPC server streams": a stream that is
\* open on a running gateway is subscribed to its event group.
OpenStreamsSubscribed ==
  \A s \in Streams :
    pc[s] \in {"check", "wait", "write"} /\ s \notin cancelled => s \in callbacks[Group(s)]
=============================================================================
