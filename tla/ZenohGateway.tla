---------------------------- MODULE ZenohGateway ----------------------------
(***************************************************************************)
(* The Zenoh gateway: start() and stop() run under mutex_, and so do the   *)
(* callback of the UDP receive thread and the callback of the Zenoh        *)
(* subscribers.  Messages handed in by a host stack, event notifications,  *)
(* RPC calls and Zenoh queries are handled without it.  udp_->stop() and   *)
(* the destructor of the transport wait for the receive thread; that a     *)
(* Zenoh callback is waited for is not assumed.                            *)
(***************************************************************************)
EXTENDS Naturals, FiniteSets, ServiceMappings

CONSTANTS Mappings,              \* service_mappings_
          Controllers,           \* threads that call start() and stop()
          UdpMessages,           \* [id, service]: of the UDP listener
          HostMessages,          \* [id, service]: of on_someip_message
          Events,                \* [id, mapping]: of the event subscriber
          Calls,                 \* [id, service]: of the SOME/IP RPC server
          Samples,               \* [id, service, instance]: of a Zenoh subscriber
          Queries,               \* [id]: of a Zenoh queryable
          enable_udp_transport, enable_e2e_validation

ASSUME ConfigAssumption == {enable_udp_transport, enable_e2e_validation} \subseteq BOOLEAN

\* The other owners of mutex_ are not controllers.
ASSUME ControllerAssumption == {"free", "udp"} \cap Controllers = {}

\* What the receive thread handles is nobody else's input.
ASSUME InputAssumption ==
  UdpMessages \cap (HostMessages \cup Events \cup Calls \cup Samples \cup Queries) = {}

VARIABLES mutex_,      \* its owner, or "free"
          running,
          udp_,        \* "none", "idle": not started, "listening", "closing"
          rpc_client_, \* whether it exists, with the RPC server
          subscribed,  \* the mappings whose event groups are subscribed
          session_,    \* whether a session is open
          declared,    \* whether the session's subscribers and queryables are
          at,          \* the step each input has reached
          published,   \* ids put on Zenoh
          counted,     \* ids counted by record_someip_to_external
          sent,        \* ids sent on UDP
          received,    \* ids counted by record_external_to_someip
          control      \* the step of each controller

bridge == <<at, published, counted, sent, received>>
parts == <<udp_, rpc_client_, subscribed, session_, declared>>
vars == <<mutex_, running, parts, bridge, control>>

Messages == UdpMessages \cup HostMessages
Inputs == Messages \cup Events \cup Calls \cup Samples \cup Queries

Goto(c, label) == control' = [control EXCEPT ![c] = label]
Step(x, label) == at' = [at EXCEPT ![x] = label]
Return(c) == Goto(c, "idle") /\ mutex_' = "free"

\* The receive thread is inside on_message_received.
InCallback(m) == at[m] \in {"lock", "publish", "record"}
ReceiverIdle == \A m \in UdpMessages : ~InCallback(m)

-----------------------------------------------------------------------------
(* start(); on a running gateway it returns at once.  A failure returns    *)
(* without undoing what was done before it.                                *)

StartLock(c) ==
  /\ control[c] = "idle" /\ mutex_ = "free" /\ ~running
  /\ mutex_' = c /\ Goto(c, "udp")
  /\ UNCHANGED <<running, parts, bridge>>

\* A transport left over from a failed start() is replaced, which joins its thread.
StartUdp(c) ==
  /\ control[c] = "udp"
  /\ udp_ = "listening" => ReceiverIdle
  /\ \/ /\ enable_udp_transport
        /\ udp_' = "listening" /\ Goto(c, "clients") /\ UNCHANGED mutex_
     \/ enable_udp_transport /\ udp_' = "idle" /\ Return(c)
     \/ ~enable_udp_transport /\ Goto(c, "clients") /\ UNCHANGED <<udp_, mutex_>>
  /\ UNCHANGED <<running, rpc_client_, subscribed, session_, declared, bridge>>

\* RPC client and server, event publishers, and the event subscriptions: those of
\* the mappings that forward to SOME/IP.
StartClients(c) ==
  /\ control[c] = "clients"
  /\ rpc_client_' = TRUE
  /\ subscribed' = {i \in DOMAIN Mappings : should_forward_to_someip(Mappings[i])}
  /\ Goto(c, "session")
  /\ UNCHANGED <<mutex_, running, udp_, session_, declared, bridge>>

\* Mutant: a session that does not open is ignored.
OpenSessionUnchecked(c) ==
  /\ control[c] = "session"
  /\ session_' \in BOOLEAN
  /\ declared' = FALSE
  /\ Goto(c, "declare")
  /\ UNCHANGED <<mutex_, running, udp_, rpc_client_, subscribed, bridge>>

OpenSession(c) ==
  /\ control[c] = "session"
  /\ \/ session_' = TRUE /\ declared' = FALSE /\ Goto(c, "declare") /\ UNCHANGED mutex_
     \/ Return(c) /\ UNCHANGED <<session_, declared>>
  /\ UNCHANGED <<running, udp_, rpc_client_, subscribed, bridge>>

\* Publishers, queryables, subscribers, liveliness.  A declaration that throws
\* leaves start() through the lock guard.
Declare(c) ==
  /\ control[c] = "declare"
  /\ \/ declared' = TRUE /\ running' = TRUE
     \/ declared' \in BOOLEAN /\ UNCHANGED running
  /\ Return(c)
  /\ UNCHANGED <<udp_, rpc_client_, subscribed, session_, bridge>>

-----------------------------------------------------------------------------
(* stop(), which holds mutex_ until it returns.                            *)

CallStop(c) ==
  /\ control[c] = "idle"
  /\ Goto(c, "stop_lock")
  /\ UNCHANGED <<mutex_, running, parts, bridge>>

StopLock(c) ==
  /\ control[c] = "stop_lock" /\ mutex_ = "free"
  /\ \/ running /\ mutex_' = c /\ Goto(c, "stop_session")
     \/ ~running /\ Goto(c, "idle") /\ UNCHANGED mutex_
  /\ UNCHANGED <<running, parts, bridge>>

StopSession(c) ==
  /\ control[c] = "stop_session"
  /\ declared' = FALSE /\ session_' = FALSE
  /\ Goto(c, "stop_clients")
  /\ UNCHANGED <<mutex_, running, udp_, rpc_client_, subscribed, bridge>>

StopClients(c) ==
  /\ control[c] = "stop_clients"
  /\ subscribed' = {} /\ rpc_client_' = FALSE
  /\ udp_' = IF udp_ = "none" THEN "none" ELSE "closing"
  /\ Goto(c, "stop_udp")
  /\ UNCHANGED <<mutex_, running, session_, declared, bridge>>

\* Mutant: the receive thread is not waited for.
StopUdpNoJoin(c) ==
  /\ control[c] = "stop_udp"
  /\ udp_' = "none" /\ running' = FALSE
  /\ Return(c)
  /\ UNCHANGED <<rpc_client_, subscribed, session_, declared, bridge>>

\* udp_->stop() joins the receive thread.
StopUdp(c) ==
  /\ control[c] = "stop_udp"
  /\ ReceiverIdle
  /\ udp_' = "none" /\ running' = FALSE
  /\ Return(c)
  /\ UNCHANGED <<rpc_client_, subscribed, session_, declared, bridge>>

-----------------------------------------------------------------------------
(* SOME/IP to Zenoh.                                                       *)

\* publish_to_zenoh does nothing without a session.
publish_to_zenoh(id) == published' = IF session_ THEN published \cup {id} ELSE published

\* find_mapping(service) returns a pointer into a copy of the mappings that is
\* gone when the caller reads it: the direction read may be any.
DirectionRead(service) ==
  IF find_mapping_if(Mappings, {m \in ToSet(Mappings) : m.service = service}) = 0 THEN {} ELSE BOOLEAN

ReceiveUdp(m) ==
  /\ udp_ = "listening" /\ ReceiverIdle /\ at[m] = "new"
  /\ Step(m, "lock")
  /\ UNCHANGED <<mutex_, running, parts, published, counted, sent, received, control>>

ReceiverLock(m) ==
  /\ at[m] = "lock" /\ mutex_ = "free"
  /\ mutex_' = "udp" /\ Step(m, "publish")
  /\ UNCHANGED <<running, parts, published, counted, sent, received, control>>

\* The message is not for Zenoh, and the callback returns.
Leave(m) ==
  /\ Step(m, "done")
  /\ mutex_' = IF m \in UdpMessages THEN "free" ELSE mutex_

ReceiverRejects(m) ==
  /\ enable_e2e_validation /\ at[m] = "publish"
  /\ Leave(m)
  /\ UNCHANGED <<running, parts, published, counted, sent, received, control>>

HostMessage(m) ==
  /\ at[m] = "new"
  /\ Step(m, "publish")
  /\ UNCHANGED <<mutex_, running, parts, published, counted, sent, received, control>>

\* on_someip_message, up to the publication.
OnSomeipMessage(m) ==
  /\ at[m] = "publish"
  /\ \/ /\ TRUE \in DirectionRead(m.service)
        /\ publish_to_zenoh(m.id) /\ Step(m, "record")
        /\ UNCHANGED mutex_
     \/ Leave(m) /\ UNCHANGED published
  /\ UNCHANGED <<running, parts, counted, sent, received, control>>

Record(m) ==
  /\ at[m] = "record"
  /\ counted' = counted \cup {m.id}
  /\ Leave(m)
  /\ UNCHANGED <<running, parts, published, sent, received, control>>

\* The callback of the event subscriber does not look at the direction.
OnEvent(ev) ==
  /\ at[ev] = "new" /\ ev.mapping \in subscribed
  /\ publish_to_zenoh(ev.id) /\ Step(ev, "done")
  /\ UNCHANGED <<mutex_, running, parts, counted, sent, received, control>>

OnRpcCall(call) ==
  /\ at[call] = "new" /\ rpc_client_
  /\ \E forward \in DirectionRead(call.service) :
       IF forward THEN publish_to_zenoh(call.id) ELSE UNCHANGED published
  /\ Step(call, "done")
  /\ UNCHANGED <<mutex_, running, parts, counted, sent, received, control>>

-----------------------------------------------------------------------------
(* Zenoh to SOME/IP.                                                       *)

SampleArrives(s) ==
  /\ at[s] = "new" /\ declared
  /\ Step(s, "lock")
  /\ UNCHANGED <<mutex_, running, parts, published, counted, sent, received, control>>

\* find_mapping(service, instance): exact, or read through the dangling pointer.
AcceptsSample(s) ==
  LET i == find_mapping_for_service(Mappings, s.service, s.instance)
  IN  IF i # 0 THEN {should_forward_to_someip(Mappings[i])}
      ELSE DirectionRead(s.service) \cup {FALSE}

\* on_zenoh_sample, under the lock: counted, and sent if there is a transport.
on_zenoh_sample(s) ==
  /\ at[s] = "lock" /\ mutex_ = "free"
  /\ \E accepts \in AcceptsSample(s) :
       /\ received' = IF accepts THEN received \cup {s.id} ELSE received
       /\ sent' = IF accepts /\ udp_ = "listening" THEN sent \cup {s.id} ELSE sent
  /\ Step(s, "done")
  /\ UNCHANGED <<mutex_, running, parts, published, counted, control>>

\* handle_rpc_query: without a client it replies at once.
QueryArrives(q) ==
  /\ at[q] = "new" /\ declared
  /\ Step(q, IF rpc_client_ THEN "calling" ELSE "done")
  /\ UNCHANGED <<mutex_, running, parts, published, counted, sent, received, control>>

QueryReplies(q) ==
  /\ at[q] = "calling"
  /\ Step(q, "done")
  /\ UNCHANGED <<mutex_, running, parts, published, counted, sent, received, control>>

-----------------------------------------------------------------------------
Init ==
  /\ mutex_ = "free" /\ running = FALSE
  /\ udp_ = "none" /\ rpc_client_ = FALSE /\ subscribed = {}
  /\ session_ = FALSE /\ declared = FALSE
  /\ at = [x \in Inputs |-> "new"]
  /\ published = {} /\ counted = {} /\ sent = {} /\ received = {}
  /\ control = [c \in Controllers |-> "idle"]

StartSteps(c) ==
  StartUdp(c) \/ StartClients(c) \/ OpenSession(c) \/ Declare(c)

StopSteps(c) ==
  StopLock(c) \/ StopSession(c) \/ StopClients(c) \/ StopUdp(c)

CallbackSteps ==
  \/ \E m \in UdpMessages : ReceiverLock(m) \/ ReceiverRejects(m)
  \/ \E m \in Messages : OnSomeipMessage(m) \/ Record(m)
  \/ \E s \in Samples : on_zenoh_sample(s)
  \/ \E q \in Queries : QueryReplies(q)

Arrivals ==
  \/ \E m \in UdpMessages : ReceiveUdp(m)
  \/ \E m \in HostMessages : HostMessage(m)
  \/ \E ev \in Events : OnEvent(ev)
  \/ \E call \in Calls : OnRpcCall(call)
  \/ \E s \in Samples : SampleArrives(s)
  \/ \E q \in Queries : QueryArrives(q)

Next ==
  \/ \E c \in Controllers : StartLock(c) \/ CallStop(c) \/ StartSteps(c) \/ StopSteps(c)
  \/ CallbackSteps
  \/ Arrivals

Spec == Init /\ [][Next]_vars

\* A thread inside start(), stop() or a callback keeps running; nobody has to
\* call them.
FairSpec ==
  /\ Spec
  /\ \A c \in Controllers : WF_vars(StartSteps(c)) /\ WF_vars(StopSteps(c))
  /\ \A m \in Messages : WF_vars(ReceiverLock(m)) /\ WF_vars(OnSomeipMessage(m) \/ Record(m))
  /\ \A s \in Samples : WF_vars(on_zenoh_sample(s))
  /\ \A q \in Queries : WF_vars(QueryReplies(q))

-----------------------------------------------------------------------------
(* Correctness.                                                            *)

\* Start and stop exclude each other: whenever no controller is inside them, a
\* gateway that says it runs has its session, its declarations, its clients and,
\* if configured, its listening transport; this holds across failed starts.
RunningIsComplete ==
  running /\ mutex_ \notin Controllers =>
    /\ session_ /\ declared /\ rpc_client_
    /\ enable_udp_transport => udp_ = "listening"

\* The listener outlives its thread: while the receive thread is inside
\* on_message_received there is a transport that will be joined.
ReceiverHasTransport == ~ReceiverIdle => udp_ \in {"listening", "closing"}

\* stop() returns.
StopReturns == \A c \in Controllers : control[c] = "stop_lock" ~> control[c] = "idle"

\* "best-effort forwarding with observability": a message that is counted as
\* forwarded to Zenoh was put on Zenoh.
CountedWasPublished == counted \subseteq published

\* "Pub/Sub bridge: SOME/IP events <-> Zenoh publications": a running gateway has
\* subscribed the event groups it is to forward to Zenoh.
OutboundEventsSubscribed ==
  running /\ mutex_ = "free" =>
    \A i \in DOMAIN Mappings : should_forward_to_external(Mappings[i]) => i \in subscribed
=============================================================================
