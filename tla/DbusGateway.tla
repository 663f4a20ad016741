----------------------------- MODULE DbusGateway -----------------------------
(***************************************************************************)
(* DbusGateway and its Impl: the host thread, which starts, stops and      *)
(* polls the gateway, the threads of the UDP transport and of the event    *)
(* subscriber, which emit D-Bus signals, and the threads that inject D-Bus *)
(* calls.  The gateway has no lock of its own around bus_.  A build        *)
(* without systemd, and a host that switches enabled_ off, run without     *)
(* D-Bus: nothing is signalled, but messages are counted.  External:       *)
(* sd-bus, which refuses an interface name that is not valid, and the UDP  *)
(* transport and event subscriber, which join their threads when they are  *)
(* stopped.                                                                *)
(***************************************************************************)
EXTENDS DbusTranslator, ServiceMappings

CONSTANTS Receivers,            \* threads of udp_transport_
          Subscribers,          \* threads of event_subscriber_
          Injectors,            \* host threads that call emit_external_rpc
          Messages,             \* [id, service, type]; each arrives once
          Calls,                \* [id, service, instance, via]; each is made once
          Mappings,             \* service_mappings_
          DefaultInstance,      \* default_someip_instance_id
          SessionMod,           \* 2^16 in the code
          MaxConnections,       \* bound on the connections that are opened
          MaxSwitches,          \* bound on the calls of test_set_dbus_enabled
          HaveSystemd,          \* HAVE_SYSTEMD: the build has sd-bus
          BusFaults,            \* sd-bus may fail by itself
          StartsWhileRunning    \* the host may call start() on a running gateway

ASSUME BoundsAssumption ==
  /\ SessionMod \in Nat \ {0, 1}
  /\ MaxConnections \in Nat /\ MaxSwitches \in Nat /\ HaveSystemd \in BOOLEAN
  /\ BusFaults \in BOOLEAN /\ StartsWhileRunning \in BOOLEAN

\* A thread has one role, and the host is none of the others.
ASSUME ThreadAssumption ==
  /\ Receivers \cap Subscribers = {} /\ (Receivers \cup Subscribers) \cap Injectors = {}
  /\ "host" \notin Receivers \cup Subscribers \cup Injectors

ASSUME ListenersAssumption == IsFiniteSet(Receivers \cup Subscribers)

VARIABLES running,        \* running_
          udp,            \* udp_transport_ is started
          events,         \* event_subscriber_: "none", "on" or "off" (shut down)
          enabled,        \* enabled_
          switches,       \* calls of test_set_dbus_enabled so far
          with_dbus,      \* D-Bus was on when start() last succeeded
          bus,            \* bus_: the number of a connection, 0 for nullptr
          connections,    \* connections opened so far
          open,           \* connections not yet closed
          objects,        \* slots_: <<connection, mapping>>
          next_session,   \* next_session_
          session,        \* the session id each caller took
          item,           \* the message or call each thread works on
          seen,           \* the bus_ each listener read
          arrived,        \* messages and calls that have entered the gateway
          signals,        \* signals emitted
          requests,       \* requests given to someip_outbound_sink_
          replied,        \* D-Bus calls answered
          stats,          \* the message counters
          off,            \* messages counted while there was no D-Bus
          pc              \* the step of each thread

host == "host"
Listeners == Receivers \cup Subscribers
Callers == Injectors \cup {host}
Threads == Listeners \cup Callers

mode == <<enabled, switches, with_dbus>>
lifecycle == <<running, udp, events, mode, bus, connections, open, objects>>
outbound == <<seen, signals, off>>
inbound == <<next_session, session, requests, replied>>
vars == <<lifecycle, outbound, inbound, item, arrived, stats, pc>>

none == [id |-> 0]
Goto(t, label) == pc' = [pc EXCEPT ![t] = label]
Forget(t) == item' = [item EXCEPT ![t] = none]

-----------------------------------------------------------------------------
(* start(), on the host thread.                                            *)

test_set_dbus_enabled ==
  /\ pc[host] = "idle"
  /\ switches < MaxSwitches
  /\ switches' = switches + 1
  /\ enabled' = ~enabled
  /\ UNCHANGED <<running, udp, events, with_dbus, bus, connections, open, objects, outbound,
                 inbound, item, arrived, stats, pc>>

\* The transport, if there is one, may fail to start.
StartUdp ==
  /\ pc[host] = "idle"
  /\ running => StartsWhileRunning
  /\ connections < MaxConnections
  /\ \/ udp' = TRUE /\ Goto(host, "impl")
     \/ UNCHANGED udp /\ Goto(host, "impl")
     \/ UNCHANGED <<udp, pc>>
  /\ UNCHANGED <<running, events, mode, bus, connections, open, objects, outbound, inbound,
                 item, arrived, stats>>

InterfaceIsValid(i) == NameIsValid(build_interface_name(Mappings[i].service))

DbusOn == HaveSystemd /\ enabled

\* Impl::start opens a connection into bus_ and registers an object for each
\* mapping; one that cannot be registered is left out.  Without D-Bus it succeeds.
StartImpl ==
  /\ pc[host] = "impl"
  /\ \/ /\ DbusOn
        /\ connections' = connections + 1
        /\ bus' = connections + 1
        /\ open' = open \cup {connections + 1}
        /\ \E registered \in SUBSET {i \in DOMAIN Mappings : InterfaceIsValid(i)} :
             objects' = objects \cup {<<connections + 1, i>> : i \in registered}
        /\ with_dbus' = TRUE
        /\ Goto(host, "set_running")
     \/ /\ DbusOn
        /\ Goto(host, "idle")
        /\ UNCHANGED <<connections, bus, open, objects, with_dbus>>
     \/ /\ ~DbusOn
        /\ with_dbus' = FALSE
        /\ Goto(host, "set_running")
        /\ UNCHANGED <<connections, bus, open, objects>>
  /\ UNCHANGED <<running, udp, events, enabled, switches, outbound, inbound, item, arrived,
                 stats>>

StartRunning ==
  /\ pc[host] = "set_running"
  /\ running' = TRUE
  /\ Goto(host, "idle")
  /\ UNCHANGED <<udp, events, mode, bus, connections, open, objects, outbound, inbound, item,
                 arrived, stats>>

-----------------------------------------------------------------------------
(* stop(), on the host thread.                                             *)

\* event_subscriber_ is not made anew once it is shut down.
StopEvents ==
  /\ pc[host] = "idle"
  /\ \A r \in Subscribers : pc[r] = "idle"
  /\ events' = IF events = "on" THEN "off" ELSE events
  /\ Goto(host, "udp")
  /\ UNCHANGED <<running, udp, mode, bus, connections, open, objects, outbound, inbound,
                 item, arrived, stats>>

\* Mutant: the receive thread is not joined.
StopUdpNoJoin ==
  /\ pc[host] = "udp"
  /\ udp' = FALSE
  /\ Goto(host, "close")
  /\ UNCHANGED <<running, events, mode, bus, connections, open, objects, outbound, inbound,
                 item, arrived, stats>>

StopUdp ==
  /\ pc[host] = "udp"
  /\ \A r \in Receivers : pc[r] = "idle"
  /\ udp' = FALSE
  /\ Goto(host, "close")
  /\ UNCHANGED <<running, events, mode, bus, connections, open, objects, outbound, inbound,
                 item, arrived, stats>>

\* Mutant: the connection is forgotten and not closed.
StopForget ==
  /\ pc[host] = "close"
  /\ objects' = {}
  /\ bus' = 0
  /\ Goto(host, "clear_running")
  /\ UNCHANGED <<running, udp, events, mode, connections, open, outbound, inbound, item,
                 arrived, stats>>

StopClose ==
  /\ pc[host] = "close"
  /\ objects' = {}
  /\ open' = open \ {bus}
  /\ bus' = 0
  /\ Goto(host, "clear_running")
  /\ UNCHANGED <<running, udp, events, mode, connections, outbound, inbound, item, arrived,
                 stats>>

StopRunning ==
  /\ pc[host] = "clear_running"
  /\ running' = FALSE
  /\ Goto(host, "idle")
  /\ UNCHANGED <<udp, events, mode, bus, connections, open, objects, outbound, inbound, item,
                 arrived, stats>>

-----------------------------------------------------------------------------
(* on_someip_message, on the threads of the transport and the subscriber.  *)

MappingFor(m) ==
  LET primary == find_mapping_for_service(Mappings, m.service, DefaultInstance)
  IN  IF primary # 0 THEN primary
                     ELSE find_mapping_for_service(Mappings, m.service, 1)

Signalled(m) ==
  /\ MappingFor(m) # 0
  /\ should_forward_to_external(Mappings[MappingFor(m)])
  /\ m.type \in {NOTIFICATION, TP_NOTIFICATION} \/ is_request(m)

subscribe_someip_eventgroup ==
  /\ pc[host] = "idle"
  /\ events = "none"
  /\ events' = "on"
  /\ UNCHANGED <<running, udp, mode, bus, connections, open, objects, outbound, inbound,
                 item, arrived, stats, pc>>

\* The transport hands in any message, the subscriber notifications.
OnSomeipMessage(r, m) ==
  /\ pc[r] = "idle"
  /\ IF r \in Receivers THEN udp ELSE events = "on" /\ m.type = NOTIFICATION
  /\ m \notin arrived
  /\ arrived' = arrived \cup {m}
  /\ IF running /\ Signalled(m)
     THEN Goto(r, "emit") /\ item' = [item EXCEPT ![r] = m]
     ELSE UNCHANGED <<pc, item>>
  /\ UNCHANGED <<lifecycle, outbound, inbound, stats>>

\* Without D-Bus, or without a connection, emit_signal returns SUCCESS and does
\* nothing; the two are told apart, because only the first is meant.
EmitCheck(r) ==
  /\ pc[r] = "emit"
  /\ seen' = [seen EXCEPT ![r] = bus]
  /\ Goto(r, IF ~DbusOn \/ (bus = 0 /\ ~with_dbus) THEN "off"
             ELSE IF bus = 0 THEN "record" ELSE "signal")
  /\ UNCHANGED <<lifecycle, signals, off, inbound, item, arrived, stats>>

\* sd_bus_emit_signal, which may fail; on a closed connection it is undefined.
EmitSignal(r) ==
  /\ pc[r] = "signal"
  /\ LET valid == InterfaceIsValid(MappingFor(item[r]))
     IN  \/ /\ seen[r] \in open /\ valid
            /\ signals' = Append(signals, item[r])
            /\ Goto(r, "record")
         \/ /\ valid => BusFaults
            /\ Goto(r, "error")
            /\ UNCHANGED signals
         \/ /\ seen[r] \notin open
            /\ Goto(r, "record")
            /\ UNCHANGED signals
  /\ UNCHANGED <<lifecycle, seen, off, inbound, item, arrived, stats>>

\* on_someip_message counts the message or the error, and returns.
Returns(r, failed) ==
  /\ pc[r] \in {"record", "off", "error"}
  /\ stats' = IF failed THEN [stats EXCEPT !.errors = @ + 1]
                        ELSE [stats EXCEPT !.to_external = @ + 1]
  /\ off' = IF pc[r] = "off" THEN off + 1 ELSE off
  /\ Goto(r, "idle") /\ Forget(r) /\ seen' = [seen EXCEPT ![r] = 0]
  /\ UNCHANGED <<lifecycle, signals, inbound, arrived>>

\* Mutant: a failed signal is recorded as forwarded.
RecordAlways(r) == Returns(r, FALSE)

Record(r) == Returns(r, pc[r] = "error")

-----------------------------------------------------------------------------
(* poll_dbus, on the host thread, and emit_external_rpc.                   *)

PollWait ==
  /\ pc[host] = "idle"
  /\ DbusOn /\ bus # 0
  /\ Goto(host, "process")
  /\ UNCHANGED <<lifecycle, outbound, inbound, item, arrived, stats>>

\* sd_bus_process dispatches one call to the object it addresses, or none; a call
\* whose arguments cannot be read is answered with the error.
PollProcess ==
  /\ pc[host] = "process"
  /\ \/ \E c \in Calls \ arrived :
          /\ c.via = "dbus"
          /\ \E i \in DOMAIN Mappings :
               /\ <<bus, i>> \in objects
               /\ Mappings[i].service = c.service /\ Mappings[i].instance = c.instance
          /\ arrived' = arrived \cup {c}
          /\ \/ /\ item' = [item EXCEPT ![host] = c]
                /\ Goto(host, "invoke")
                /\ UNCHANGED replied
             \/ /\ replied' = replied \cup {c}
                /\ Goto(host, "idle")
                /\ UNCHANGED item
     \/ /\ Goto(host, "idle")
        /\ UNCHANGED <<arrived, item, replied>>
  /\ UNCHANGED <<lifecycle, outbound, next_session, session, requests, stats>>

InjectCall(t, c) ==
  /\ t \in Injectors
  /\ pc[t] = "idle"
  /\ c.via = "host"
  /\ c \notin arrived
  /\ arrived' = arrived \cup {c}
  /\ item' = [item EXCEPT ![t] = c]
  /\ Goto(t, "invoke")
  /\ UNCHANGED <<lifecycle, outbound, inbound, stats>>

\* sd-bus waits for the reply; an injector just returns.
Return(t) ==
  IF t = host THEN Goto(t, "reply") /\ UNCHANGED item ELSE Goto(t, "idle") /\ Forget(t)

CallMapping(c) ==
  LET primary == find_mapping_for_service(Mappings, c.service, c.instance)
  IN  IF primary # 0 THEN primary
                     ELSE find_mapping_for_service(Mappings, c.service, DefaultInstance)

EmitExternalRpc(t) ==
  /\ pc[t] = "invoke"
  /\ IF /\ running
        /\ CallMapping(item[t]) # 0
        /\ should_forward_to_someip(Mappings[CallMapping(item[t])])
     THEN Goto(t, "session") /\ UNCHANGED item
     ELSE Return(t)
  /\ UNCHANGED <<lifecycle, outbound, inbound, arrived, stats>>

\* next_session_.fetch_add on a uint16_t.
TakeSession(t) ==
  /\ pc[t] = "session"
  /\ session' = [session EXCEPT ![t] = next_session]
  /\ next_session' = (next_session + 1) % SessionMod
  /\ Goto(t, "count")
  /\ UNCHANGED <<lifecycle, outbound, requests, replied, item, arrived, stats>>

CountRequest(t) ==
  /\ pc[t] = "count"
  /\ stats' = [stats EXCEPT !.to_someip = @ + 1]
  /\ Goto(t, "sink")
  /\ UNCHANGED <<lifecycle, outbound, inbound, item, arrived>>

\* The sink, if one is installed, under sink_mutex_, then the external callback.
CallSink(t) ==
  /\ pc[t] = "sink"
  /\ \/ requests' = Append(requests, [id |-> item[t].id, session |-> session[t]])
     \/ UNCHANGED requests
  /\ session' = [session EXCEPT ![t] = 0]
  /\ Return(t)
  /\ UNCHANGED <<lifecycle, outbound, next_session, replied, arrived, stats>>

\* dbus_handle_invoke replies with an empty array whatever emit_external_rpc said.
Reply ==
  /\ pc[host] = "reply"
  /\ replied' = replied \cup {item[host]}
  /\ Goto(host, "idle") /\ Forget(host)
  /\ UNCHANGED <<lifecycle, outbound, next_session, session, requests, arrived, stats>>

-----------------------------------------------------------------------------
Init ==
  /\ running = FALSE /\ udp = FALSE /\ events = "none"
  /\ enabled = TRUE /\ switches = 0 /\ with_dbus = FALSE /\ off = 0
  /\ bus = 0 /\ connections = 0 /\ open = {} /\ objects = {}
  /\ next_session = 1
  /\ session = [t \in Callers |-> 0]
  /\ item = [t \in Threads |-> none]
  /\ seen = [r \in Listeners |-> 0]
  /\ arrived = {} /\ signals = <<>> /\ requests = <<>> /\ replied = {}
  /\ stats = [to_external |-> 0, to_someip |-> 0, errors |-> 0]
  /\ pc = [t \in Threads |-> "idle"]

Next ==
  \/ StartUdp \/ StartImpl \/ StartRunning
  \/ StopEvents \/ StopUdp \/ StopClose \/ StopRunning
  \/ subscribe_someip_eventgroup \/ test_set_dbus_enabled
  \/ \E r \in Listeners, m \in Messages : OnSomeipMessage(r, m)
  \/ \E r \in Listeners : EmitCheck(r) \/ EmitSignal(r) \/ Record(r)
  \/ PollWait \/ PollProcess \/ Reply
  \/ \E t \in Injectors, c \in Calls : InjectCall(t, c)
  \/ \E t \in Callers : EmitExternalRpc(t) \/ TakeSession(t) \/ CountRequest(t) \/ CallSink(t)

Spec == Init /\ [][Next]_vars

\* A thread whose signal is out returns from on_someip_message.
FairSpec == Spec /\ \A r \in Listeners : WF_vars(Record(r))
-----------------------------------------------------------------------------
(* Correctness.                                                            *)

\* Neither thread that brings messages emits on a connection that stop() has
\* closed: stop() joins both before Impl::stop, so bus_ needs no lock against it.
BusUsedWhileOpen == \A r \in Listeners : pc[r] = "signal" => seen[r] \in open

\* Every connection that is open is the one in bus_, and every object belongs to
\* it: starting and stopping leaves nothing behind on D-Bus.
OneConnection ==
  /\ open \subseteq {bus}
  /\ \A x \in objects : x[1] = bus

\* With D-Bus on, messages cross to D-Bus as CountingBridge says: a message is
\* counted if, and in the end when, its signal went out, so the silent SUCCESS
\* without a connection is never met, and no message that comes by both ways is
\* signalled twice.  What is counted without D-Bus, because the build has none or
\* enabled_ was off when the gateway started or the message came, is set apart.
Outbound == INSTANCE CountingBridge WITH
  Items <- Messages, arrived <- arrived \cap Messages, forwarded <- signals,
  counted <- stats.to_external - off
ImplementsBridge == Outbound!Spec

\* "messages matching a ServiceMapping ... are emitted as D-Bus signals": while
\* sd-bus does not fail by itself, there is no translation error.
MappedIsEmitted == ~BusFaults => stats.errors = 0

\* "Thread safety is ensured": no two threads are inside sd-bus on one connection.
BusExclusive ==
  \A r \in Listeners : pc[r] = "signal" => pc[host] \notin {"process", "reply"}
=============================================================================
