-------------------------- MODULE DbusGatewayProofs --------------------------
(***************************************************************************)
(* What holds of DbusGateway for any threads, messages, calls and mappings *)
(* and any number of restarts: no signal is emitted on a connection that   *)
(* is closed, the direction to D-Bus is a CountingBridge while D-Bus is on *)
(* and, as long as the host does not start a running gateway, nothing is   *)
(* left behind on D-Bus.                                                   *)
(***************************************************************************)
EXTENDS DbusGateway, FiniteSetTheorems, TLAPS

-----------------------------------------------------------------------------
(* The inductive invariant.                                                *)

ListenerLabels == {"idle", "emit", "signal", "record", "off", "error"}

\* Where the host is outside start() and stop().
Outside == {"idle", "process", "invoke", "session", "count", "sink", "reply"}

Labels == ListenerLabels \cup Outside \cup {"impl", "set_running", "udp", "close", "clear_running"}

Types ==
  /\ pc \in [Threads -> Labels]
  /\ seen \in [Listeners -> Nat]
  /\ connections \in Nat /\ bus \in Nat

\* Behind each join of stop() there is no thread left, nor does one enter.
Joined ==
  /\ pc[host] \in {"udp", "close"} => events # "on" /\ \A r \in Subscribers : pc[r] = "idle"
  /\ pc[host] = "close" => ~udp /\ \A r \in Receivers : pc[r] = "idle"

\* The connection in bus_ is open.
BusIsOpen == (bus # 0 => bus \in open) /\ 0 \notin open

\* A gateway that was stopped, or not yet started, has no connection.
Exclusive ==
  /\ OneConnection
  /\ bus = 0 => open = {} /\ objects = {}
  /\ pc[host] \in Outside /\ ~running => bus = 0
  /\ pc[host] = "impl" => ~running /\ bus = 0
  /\ pc[host] = "clear_running" => bus = 0

IInv ==
  Types /\ Joined /\ BusIsOpen /\ BusUsedWhileOpen /\ (~StartsWhileRunning => Exclusive)

\* The host is a caller and no listener.
LEMMA Roles ==
  /\ host \in Callers /\ host \notin Listeners /\ host \in Threads
  /\ Listeners \subseteq Threads /\ Callers \subseteq Threads /\ Listeners \cap Callers = {}
BY ThreadAssumption DEF host, Callers, Listeners, Threads

-----------------------------------------------------------------------------
(* One lemma per kind of step.                                             *)

\* A step of the host leaves the listeners where they are.
LEMMA HostMoves ==
  ASSUME IInv, NEW l \in Labels, pc' = [pc EXCEPT ![host] = l]
  PROVE  /\ pc' \in [Threads -> Labels] /\ pc'[host] = l
         /\ \A r \in Listeners : pc'[r] = pc[r]
BY Roles DEF IInv, Types

\* start() up to the transport, and from there on.
LEMMA StartStep ==
  ASSUME IInv, StartUdp \/ StartImpl \/ StartRunning
  PROVE  IInv'
<1>1. CASE StartUdp
  <2>1. /\ pc[host] = "idle" /\ (running => StartsWhileRunning)
        /\ pc' = [pc EXCEPT ![host] = "impl"] \/ pc' = pc
        /\ UNCHANGED <<running, events, bus, connections, open, objects, seen>>
    BY <1>1 DEF StartUdp, Goto, outbound
  <2>2. CASE pc' = [pc EXCEPT ![host] = "impl"]
    <3>1. /\ pc' \in [Threads -> Labels] /\ pc'[host] = "impl"
          /\ \A r \in Listeners : pc'[r] = pc[r]
      BY <2>2, HostMoves, Zenon DEF Labels
    <3> QED BY <2>1, <3>1 DEF IInv, Types, Joined, BusIsOpen, BusUsedWhileOpen, Exclusive, OneConnection, Outside
  <2>3. CASE pc' = pc
    BY <2>1, <2>3 DEF IInv, Types, Joined, BusIsOpen, BusUsedWhileOpen, Exclusive, OneConnection
  <2> QED BY <2>1, <2>2, <2>3
<1>2. CASE StartImpl
  <2>1. pc[host] = "impl" /\ UNCHANGED <<running, udp, events, seen>>
    BY <1>2 DEF StartImpl, outbound
  <2>2. CASE /\ pc' = [pc EXCEPT ![host] = "idle"]
             /\ UNCHANGED <<connections, bus, open, objects>>
    <3>1. /\ pc' \in [Threads -> Labels] /\ pc'[host] = "idle"
          /\ \A r \in Listeners : pc'[r] = pc[r]
      BY <2>2, HostMoves, Zenon DEF Labels, ListenerLabels
    <3> QED BY <2>1, <2>2, <3>1
            DEF IInv, Types, Joined, BusIsOpen, BusUsedWhileOpen, Exclusive, OneConnection, Outside
  <2>3. CASE /\ connections' = connections + 1 /\ bus' = connections + 1
             /\ open' = open \cup {connections + 1}
             /\ \E registered \in SUBSET {i \in DOMAIN Mappings : InterfaceIsValid(i)} :
                  objects' = objects \cup {<<connections + 1, i>> : i \in registered}
             /\ pc' = [pc EXCEPT ![host] = "set_running"]
    <3>1. /\ pc' \in [Threads -> Labels] /\ pc'[host] = "set_running"
          /\ \A r \in Listeners : pc'[r] = pc[r]
      BY <2>3, HostMoves, Zenon DEF Labels
    <3>2. Types' /\ Joined' /\ BusIsOpen'
      BY <2>1, <2>3, <3>1 DEF IInv, Types, Joined, BusIsOpen
    <3>3. BusUsedWhileOpen'
      BY <2>1, <2>3, <3>1 DEF IInv, BusUsedWhileOpen
    <3>4. ~StartsWhileRunning => Exclusive'
      <4> HAVE ~StartsWhileRunning
      <4>1. open = {} /\ objects = {}
        BY <2>1 DEF IInv, Exclusive
      <4>2. open' \subseteq {bus'} /\ \A x \in objects' : x[1] = bus'
        BY <2>3, <4>1
      <4>3. bus' # 0
        BY <2>3 DEF IInv, Types
      <4> QED BY <3>1, <4>2, <4>3 DEF Exclusive, OneConnection, Outside
    <3> QED BY <3>2, <3>3, <3>4 DEF IInv
  <2>4. CASE /\ pc' = [pc EXCEPT ![host] = "set_running"]
             /\ UNCHANGED <<connections, bus, open, objects>>
    <3>1. /\ pc' \in [Threads -> Labels] /\ pc'[host] = "set_running"
          /\ \A r \in Listeners : pc'[r] = pc[r]
      BY <2>4, HostMoves, Zenon DEF Labels
    <3> QED BY <2>1, <2>4, <3>1
            DEF IInv, Types, Joined, BusIsOpen, BusUsedWhileOpen, Exclusive, OneConnection, Outside
  <2> QED BY <1>2, <2>2, <2>3, <2>4 DEF StartImpl, Goto
<1>3. CASE StartRunning
  <2>1. /\ pc[host] = "set_running" /\ running' = TRUE /\ pc' = [pc EXCEPT ![host] = "idle"]
        /\ UNCHANGED <<udp, events, bus, connections, open, objects, seen>>
    BY <1>3 DEF StartRunning, Goto, outbound
  <2>2. /\ pc' \in [Threads -> Labels] /\ pc'[host] = "idle"
        /\ \A r \in Listeners : pc'[r] = pc[r]
    BY <2>1, HostMoves, Zenon DEF Labels, ListenerLabels
  <2> QED BY <2>1, <2>2 DEF IInv, Types, Joined, BusIsOpen, BusUsedWhileOpen, Exclusive, OneConnection
<1> QED BY <1>1, <1>2, <1>3

\* stop() joins the subscriber's thread, then the transport's, and only then closes.
LEMMA StopStep ==
  ASSUME IInv, StopEvents \/ StopUdp \/ StopClose \/ StopRunning
  PROVE  IInv'
<1>1. CASE StopEvents
  <2>1. /\ pc[host] = "idle" /\ \A r \in Subscribers : pc[r] = "idle"
        /\ events' # "on" /\ pc' = [pc EXCEPT ![host] = "udp"]
        /\ UNCHANGED <<running, udp, bus, connections, open, objects, seen>>
    BY <1>1 DEF StopEvents, Goto, outbound
  <2>2. /\ pc' \in [Threads -> Labels] /\ pc'[host] = "udp"
        /\ \A r \in Listeners : pc'[r] = pc[r]
    BY <2>1, HostMoves, Zenon DEF Labels
  <2> QED BY <2>1, <2>2 DEF IInv, Types, Joined, BusIsOpen, BusUsedWhileOpen, Exclusive, OneConnection,
                            Outside, Listeners
<1>2. CASE StopUdp
  <2>1. /\ pc[host] = "udp" /\ \A r \in Receivers : pc[r] = "idle"
        /\ udp' = FALSE /\ pc' = [pc EXCEPT ![host] = "close"]
        /\ UNCHANGED <<running, events, bus, connections, open, objects, seen>>
    BY <1>2 DEF StopUdp, Goto, outbound
  <2>2. /\ pc' \in [Threads -> Labels] /\ pc'[host] = "close"
        /\ \A r \in Listeners : pc'[r] = pc[r]
    BY <2>1, HostMoves, Zenon DEF Labels
  <2> QED BY <2>1, <2>2 DEF IInv, Types, Joined, BusIsOpen, BusUsedWhileOpen, Exclusive, OneConnection,
                            Outside, Listeners
<1>3. CASE StopClose
  <2>1. /\ pc[host] = "close" /\ objects' = {} /\ open' = open \ {bus} /\ bus' = 0
        /\ pc' = [pc EXCEPT ![host] = "clear_running"]
        /\ UNCHANGED <<running, udp, events, connections, seen>>
    BY <1>3 DEF StopClose, Goto, outbound
  <2>2. /\ pc' \in [Threads -> Labels] /\ pc'[host] = "clear_running"
        /\ \A r \in Listeners : pc'[r] = pc[r]
    BY <2>1, HostMoves, Zenon DEF Labels
  <2>3. \A r \in Listeners : pc[r] = "idle"
    BY <2>1 DEF IInv, Joined, Listeners
  <2>4. Types' /\ Joined' /\ BusIsOpen' /\ BusUsedWhileOpen'
    BY <2>1, <2>2, <2>3 DEF IInv, Types, Joined, BusIsOpen, BusUsedWhileOpen
  <2>5. ~StartsWhileRunning => Exclusive'
    BY <2>1, <2>2 DEF IInv, Exclusive, OneConnection, Outside
  <2> QED BY <2>4, <2>5 DEF IInv
<1>4. CASE StopRunning
  <2>1. /\ pc[host] = "clear_running" /\ pc' = [pc EXCEPT ![host] = "idle"]
        /\ UNCHANGED <<udp, events, bus, connections, open, objects, seen>>
    BY <1>4 DEF StopRunning, Goto, outbound
  <2>2. /\ pc' \in [Threads -> Labels] /\ pc'[host] = "idle"
        /\ \A r \in Listeners : pc'[r] = pc[r]
    BY <2>1, HostMoves, Zenon DEF Labels, ListenerLabels
  <2> QED BY <2>1, <2>2 DEF IInv, Types, Joined, BusIsOpen, BusUsedWhileOpen, Exclusive, OneConnection
<1> QED BY <1>1, <1>2, <1>3, <1>4

\* The connection of a listener is the one it read in bus_, and no listener that
\* was joined moves.
LEMMA ListenerMoves ==
  ASSUME IInv, NEW r \in Listeners, NEW l \in ListenerLabels, pc' = [pc EXCEPT ![r] = l],
         UNCHANGED lifecycle,
         pc[r] # "idle" \/ (IF r \in Receivers THEN udp ELSE events = "on"),
         seen' \in [Listeners -> Nat], \A q \in Listeners \ {r} : seen'[q] = seen[q],
         l = "signal" => seen'[r] \in open
  PROVE  IInv'
<1>1. /\ pc' \in [Threads -> Labels] /\ pc'[host] = pc[host] /\ pc'[r] = l
      /\ \A q \in Listeners \ {r} : pc'[q] = pc[q]
  BY Roles DEF IInv, Types, Labels
<1>2. Types' /\ BusIsOpen' /\ (~StartsWhileRunning => Exclusive')
  BY <1>1 DEF IInv, Types, BusIsOpen, Exclusive, OneConnection, lifecycle
<1>3. BusUsedWhileOpen'
  BY <1>1 DEF IInv, BusUsedWhileOpen, lifecycle
<1>4. Joined'
  <2>1. ASSUME pc[host] \in {"udp", "close"}
        PROVE  events' # "on" /\ \A q \in Subscribers : pc'[q] = "idle"
    <3>1. r \notin Subscribers
      BY <2>1, ThreadAssumption DEF IInv, Joined
    <3> QED BY <1>1, <2>1, <3>1 DEF IInv, Joined, lifecycle, Listeners
  <2>2. pc[host] # "close"
    BY DEF IInv, Joined, Listeners
  <2> QED BY <1>1, <2>1, <2>2 DEF Joined
<1> QED BY <1>2, <1>3, <1>4 DEF IInv

\* on_someip_message, from the test of running_ to the counters.
LEMMA ListenerStep ==
  ASSUME IInv, NEW r \in Listeners,
         (\E m \in Messages : OnSomeipMessage(r, m)) \/ EmitCheck(r) \/ EmitSignal(r) \/ Record(r)
  PROVE  IInv'
<1> USE DEF ListenerLabels
<1>1. seen \in [Listeners -> Nat] /\ bus \in Nat
  BY DEF IInv, Types
<1>2. CASE \E m \in Messages : OnSomeipMessage(r, m)
  <2>1. /\ (IF r \in Receivers THEN udp ELSE events = "on") /\ UNCHANGED <<lifecycle, seen>>
        /\ pc' = [pc EXCEPT ![r] = "emit"] \/ pc' = pc
    BY <1>2 DEF OnSomeipMessage, Goto, outbound
  <2>2. CASE pc' = [pc EXCEPT ![r] = "emit"]
    BY <1>1, <2>1, <2>2, ListenerMoves, Zenon
  <2>3. CASE pc' = pc
    BY <2>1, <2>3 DEF IInv, Types, Joined, BusIsOpen, BusUsedWhileOpen, Exclusive, OneConnection, lifecycle
  <2> QED BY <2>1, <2>2, <2>3
<1>3. CASE EmitCheck(r)
  <2>1. /\ pc[r] = "emit" /\ seen' = [seen EXCEPT ![r] = bus] /\ UNCHANGED lifecycle
        /\ \/ pc' = [pc EXCEPT ![r] = "off"] \/ pc' = [pc EXCEPT ![r] = "record"]
           \/ bus # 0 /\ pc' = [pc EXCEPT ![r] = "signal"]
    BY <1>3, Zenon DEF EmitCheck, Goto
  <2>2. /\ seen' \in [Listeners -> Nat] /\ seen'[r] = bus
        /\ \A q \in Listeners \ {r} : seen'[q] = seen[q]
    BY <1>1, <2>1
  <2>3. CASE pc' = [pc EXCEPT ![r] = "off"]
    BY <2>1, <2>2, <2>3, ListenerMoves, Zenon
  <2>4. CASE pc' = [pc EXCEPT ![r] = "record"]
    BY <2>1, <2>2, <2>4, ListenerMoves, Zenon
  <2>5. CASE bus # 0 /\ pc' = [pc EXCEPT ![r] = "signal"]
    <3>1. seen'[r] \in open
      BY <2>2, <2>5 DEF IInv, BusIsOpen
    <3> QED BY <2>1, <2>2, <2>5, <3>1, ListenerMoves, ZenonT(30)
  <2> QED BY <2>1, <2>3, <2>4, <2>5
<1>4. CASE EmitSignal(r)
  <2>1. /\ pc[r] = "signal" /\ UNCHANGED <<lifecycle, seen>>
        /\ pc' = [pc EXCEPT ![r] = "record"] \/ pc' = [pc EXCEPT ![r] = "error"]
    BY <1>4 DEF EmitSignal, Goto
  <2>2. CASE pc' = [pc EXCEPT ![r] = "record"]
    BY <1>1, <2>1, <2>2, ListenerMoves, Zenon
  <2>3. CASE pc' = [pc EXCEPT ![r] = "error"]
    BY <1>1, <2>1, <2>3, ListenerMoves, ZenonT(30)
  <2> QED BY <2>1, <2>2, <2>3
<1>5. CASE Record(r)
  <2>1. /\ pc[r] # "idle" /\ seen' = [seen EXCEPT ![r] = 0] /\ UNCHANGED lifecycle
        /\ pc' = [pc EXCEPT ![r] = "idle"]
    BY <1>5 DEF Record, Returns, Goto
  <2>2. seen' \in [Listeners -> Nat] /\ \A q \in Listeners \ {r} : seen'[q] = seen[q]
    BY <1>1, <2>1
  <2> QED BY <2>1, <2>2, ListenerMoves, Zenon
<1> QED BY <1>2, <1>3, <1>4, <1>5

\* A caller outside start() and stop() stays outside and leaves the connection alone.
LEMMA CallerMoves ==
  ASSUME IInv, NEW t \in Callers, NEW l \in Outside, pc' = [pc EXCEPT ![t] = l],
         pc[t] \in Outside, UNCHANGED <<lifecycle, seen>>
  PROVE  IInv'
<1>1. /\ pc' \in [Threads -> Labels] /\ \A q \in Listeners : pc'[q] = pc[q]
      /\ pc'[host] = pc[host] \/ (pc[host] \in Outside /\ pc'[host] \in Outside)
  BY Roles DEF IInv, Types, Labels
<1>2. Types' /\ BusIsOpen' /\ BusUsedWhileOpen'
  BY <1>1 DEF IInv, Types, BusIsOpen, BusUsedWhileOpen, lifecycle
<1>3. Joined'
  BY <1>1 DEF IInv, Joined, Outside, Listeners, lifecycle
<1>4. ~StartsWhileRunning => Exclusive'
  BY <1>1 DEF IInv, Exclusive, OneConnection, Outside, lifecycle
<1> QED BY <1>2, <1>3, <1>4 DEF IInv

\* Polling, injected calls, the first event subscription and the switch.
LEMMA CallerStep ==
  ASSUME IInv,
         \/ subscribe_someip_eventgroup \/ test_set_dbus_enabled \/ PollWait \/ PollProcess \/ Reply
         \/ \E t \in Injectors, c \in Calls : InjectCall(t, c)
         \/ \E t \in Callers : EmitExternalRpc(t) \/ TakeSession(t) \/ CountRequest(t) \/ CallSink(t)
  PROVE  IInv'
<1> DEFINE Moves(t) ==
      /\ pc[t] \in Outside /\ UNCHANGED <<lifecycle, seen>>
      /\ \E l \in Outside : pc' = [pc EXCEPT ![t] = l]
<1>1. ASSUME NEW t \in Callers, Moves(t) PROVE IInv'
  BY <1>1, CallerMoves, Zenon
<1>2. CASE subscribe_someip_eventgroup \/ test_set_dbus_enabled
  <2>1. pc[host] = "idle" /\ UNCHANGED <<running, udp, bus, connections, open, objects, seen, pc>>
    BY <1>2 DEF subscribe_someip_eventgroup, test_set_dbus_enabled, outbound
  <2> QED BY <2>1 DEF IInv, Types, Joined, BusIsOpen, BusUsedWhileOpen, Exclusive, OneConnection
<1>3. CASE PollWait
  <2>1. Moves(host)
    BY <1>3, SMTT(20) DEF PollWait, Goto, outbound, Outside
  <2> QED BY <1>1, <2>1, Roles, Zenon
<1>4. CASE PollProcess
  <2>1. Moves(host)
    BY <1>4, SMTT(20) DEF PollProcess, Goto, outbound, Outside
  <2> QED BY <1>1, <2>1, Roles, Zenon
<1>5. CASE Reply
  <2>1. Moves(host)
    BY <1>5 DEF Reply, Goto, outbound, Outside
  <2> QED BY <1>1, <2>1, Roles, Zenon
<1>6. CASE \E t \in Injectors, c \in Calls : InjectCall(t, c)
  <2>1. PICK t \in Injectors, c \in Calls : InjectCall(t, c)
    BY <1>6
  <2>2. Moves(t) /\ t \in Callers
    BY <2>1 DEF InjectCall, Goto, outbound, Outside, Callers
  <2> QED BY <1>1, <2>2, Zenon
<1>7. ASSUME NEW t \in Callers,
             EmitExternalRpc(t) \/ TakeSession(t) \/ CountRequest(t) \/ CallSink(t)
      PROVE  IInv'
  <2>1. CASE EmitExternalRpc(t)
    <3>1. Moves(t)
      BY <2>1 DEF EmitExternalRpc, Return, Goto, outbound, Outside
    <3> QED BY <1>1, <3>1, Zenon
  <2>2. CASE TakeSession(t)
    <3>1. Moves(t)
      BY <2>2 DEF TakeSession, Goto, outbound, Outside
    <3> QED BY <1>1, <3>1, Zenon
  <2>3. CASE CountRequest(t)
    <3>1. Moves(t)
      BY <2>3, SMTT(20) DEF CountRequest, Goto, outbound, Outside
    <3> QED BY <1>1, <3>1, Zenon
  <2>4. CASE CallSink(t)
    <3>1. Moves(t)
      BY <2>4 DEF CallSink, Return, Goto, outbound, Outside
    <3> QED BY <1>1, <3>1, Zenon
  <2> QED BY <1>7, <2>1, <2>2, <2>3, <2>4
<1> QED BY <1>2, <1>3, <1>4, <1>5, <1>6, <1>7, SMTT(20)

-----------------------------------------------------------------------------
\* At the start there is no connection.
LEMMA InitInvariant == Init => IInv
<1> SUFFICES ASSUME Init PROVE IInv
  OBVIOUS
<1>1. Types /\ pc[host] = "idle" /\ \A r \in Listeners : pc[r] = "idle"
  BY Roles DEF Init, Types, Labels, ListenerLabels
<1> QED BY <1>1 DEF Init, IInv, Joined, BusIsOpen, BusUsedWhileOpen, Exclusive, OneConnection

\* Every step of the host, the listeners and the injectors keeps the invariant.
LEMMA NextInvariant == IInv /\ [Next]_vars => IInv'
<1> SUFFICES ASSUME IInv, [Next]_vars PROVE IInv'
  OBVIOUS
<1>1. CASE UNCHANGED vars
  BY <1>1 DEF vars, lifecycle, outbound, IInv, Types, Joined, BusIsOpen, BusUsedWhileOpen, Exclusive,
              OneConnection
<1>2. CASE Next
  BY <1>2, StartStep, StopStep, ListenerStep, CallerStep DEF Next
<1> QED BY <1>1, <1>2

\* No thread emits a signal on a closed connection, however many threads bring
\* messages and however often the gateway is restarted (Impl::emit_signal, stop).
THEOREM DbusBusUsedWhileOpen == Spec => []BusUsedWhileOpen
<1>1. IInv => BusUsedWhileOpen
  BY DEF IInv
<1> QED BY <1>1, InitInvariant, NextInvariant, PTL DEF Spec

\* A host that does not call start() on a running gateway never leaves a connection
\* or an object behind, also after starts that fail half-way (Impl::start, stop).
THEOREM DbusOneConnection ==
  ASSUME ~StartsWhileRunning
  PROVE  Spec => []OneConnection
<1>1. IInv => OneConnection
  BY DEF IInv, Exclusive
<1> QED BY <1>1, InitInvariant, NextInvariant, PTL DEF Spec

-----------------------------------------------------------------------------
(* There is a connection whenever a message is about to be signalled.      *)

\* start() last found D-Bus off, or left a connection that is still there.
Ready == bus # 0 \/ ~with_dbus

\* A running gateway that was started with D-Bus has a connection, but between the
\* close of stop() and the end of stop(), when no listener is left and none can enter.
Connected ==
  /\ running => Ready \/ pc[host] = "clear_running"
  /\ pc[host] = "set_running" => Ready
  /\ pc[host] = "clear_running" => ~udp /\ events # "on" /\ \A r \in Listeners : pc[r] = "idle"
  /\ \A r \in Listeners : pc[r] = "emit" => Ready

\* start() opens the connection, or finds D-Bus off, before it sets running_.
LEMMA ConnectedStart ==
  ASSUME IInv, Connected, StartUdp \/ StartImpl \/ StartRunning
  PROVE  Connected'
<1>1. CASE StartUdp
  <2>1. /\ pc[host] = "idle" /\ UNCHANGED <<running, Ready>>
        /\ pc' = [pc EXCEPT ![host] = "impl"] \/ pc' = pc
    BY <1>1 DEF StartUdp, Goto, mode, Ready
  <2>2. pc'[host] \in {"impl", "idle"} /\ \A r \in Listeners : pc'[r] = pc[r]
    BY <2>1, HostMoves DEF Labels
  <2> QED BY <2>1, <2>2 DEF Connected
<1>2. CASE StartImpl
  <2>1. /\ pc[host] = "impl" /\ UNCHANGED running
        /\ \/ Ready' /\ pc' = [pc EXCEPT ![host] = "set_running"]
           \/ UNCHANGED Ready /\ pc' = [pc EXCEPT ![host] = "idle"]
    BY <1>2 DEF StartImpl, Goto, Ready, IInv, Types
  <2>2. /\ \/ pc'[host] = "set_running" /\ Ready'
           \/ pc'[host] = "idle" /\ UNCHANGED Ready
        /\ \A r \in Listeners : pc'[r] = pc[r]
    BY <2>1, HostMoves DEF Labels, ListenerLabels
  <2> QED BY <2>1, <2>2 DEF Connected
<1>3. CASE StartRunning
  <2>1. /\ pc[host] = "set_running" /\ pc' = [pc EXCEPT ![host] = "idle"] /\ UNCHANGED Ready
    BY <1>3 DEF StartRunning, Goto, mode, Ready
  <2>2. pc'[host] = "idle" /\ \A r \in Listeners : pc'[r] = pc[r]
    BY <2>1, HostMoves, Zenon DEF Labels, ListenerLabels
  <2> QED BY <2>1, <2>2 DEF Connected
<1> QED BY <1>1, <1>2, <1>3

\* stop() closes the connection when both threads are joined.
LEMMA ConnectedStop ==
  ASSUME IInv, Connected, StopEvents \/ StopUdp \/ StopClose \/ StopRunning
  PROVE  Connected'
<1>1. CASE StopEvents \/ StopUdp
  <2>1. /\ pc[host] \in {"idle", "udp"} /\ UNCHANGED <<running, Ready>>
        /\ pc' = [pc EXCEPT ![host] = "udp"] \/ pc' = [pc EXCEPT ![host] = "close"]
    BY <1>1 DEF StopEvents, StopUdp, Goto, mode, Ready
  <2>2. pc'[host] \in {"udp", "close"} /\ \A r \in Listeners : pc'[r] = pc[r]
    BY <2>1, HostMoves DEF Labels
  <2> QED BY <2>1, <2>2 DEF Connected
<1>2. CASE StopClose
  <2>1. /\ pc[host] = "close" /\ pc' = [pc EXCEPT ![host] = "clear_running"]
        /\ UNCHANGED <<udp, events>>
    BY <1>2 DEF StopClose, Goto
  <2>2. pc'[host] = "clear_running" /\ \A r \in Listeners : pc'[r] = pc[r]
    BY <2>1, HostMoves, Zenon DEF Labels
  <2>3. ~udp /\ events # "on" /\ \A r \in Listeners : pc[r] = "idle"
    BY <2>1 DEF IInv, Joined, Listeners
  <2> QED BY <2>1, <2>2, <2>3 DEF Connected
<1>3. CASE StopRunning
  <2>1. /\ pc[host] = "clear_running" /\ running' = FALSE /\ UNCHANGED Ready
        /\ pc' = [pc EXCEPT ![host] = "idle"]
    BY <1>3 DEF StopRunning, Goto, mode, Ready
  <2>2. pc'[host] = "idle" /\ \A r \in Listeners : pc'[r] = pc[r]
    BY <2>1, HostMoves, Zenon DEF Labels, ListenerLabels
  <2> QED BY <2>1, <2>2 DEF Connected
<1> QED BY <1>1, <1>2, <1>3

\* A listener enters only while the gateway runs and its source is up.
LEMMA ConnectedListener ==
  ASSUME IInv, Connected, NEW r \in Listeners,
         (\E m \in Messages : OnSomeipMessage(r, m)) \/ EmitCheck(r) \/ EmitSignal(r) \/ Record(r)
  PROVE  Connected'
<1>1. /\ UNCHANGED lifecycle /\ \E l : l \in ListenerLabels /\ (pc' = [pc EXCEPT ![r] = l] \/ pc' = pc)
  BY DEF OnSomeipMessage, EmitCheck, EmitSignal, Record, Returns, Goto, ListenerLabels
<1>2. pc'[host] = pc[host] /\ \A q \in Listeners \ {r} : pc'[q] = pc[q]
  BY <1>1, Roles DEF IInv, Types
<1>3. pc[host] # "clear_running" \/ pc' = pc
  BY DEF Connected, OnSomeipMessage, EmitCheck, EmitSignal, Record, Returns, Goto
<1>4. pc'[r] = "emit" => running \/ pc[r] = "emit"
  BY Roles DEF OnSomeipMessage, EmitCheck, EmitSignal, Record, Returns, Goto, IInv, Types
<1>5. UNCHANGED <<running, udp, events, Ready>>
  BY <1>1, SMTT(20) DEF lifecycle, mode, Ready
<1> QED BY <1>1, <1>2, <1>3, <1>4, <1>5, SMTT(20) DEF Connected

-----------------------------------------------------------------------------
(* The bridge to D-Bus.                                                    *)

\* Listeners with a message to signal, those that have yet to count theirs, and
\* what was counted with D-Bus on.
Hands == {r \in Listeners : pc[r] \in {"emit", "signal"}}
Lag == {r \in Listeners : pc[r] = "record"}

CountedOn == stats.to_external - off

Counters == [to_external : Nat, to_someip : Nat, errors : Nat]

\* A message is in one hand or signalled once, never both, and the counter is late
\* by the listeners that have not counted yet.
BridgeInv ==
  /\ DOMAIN item = Threads /\ signals \in Seq(Messages) /\ stats \in Counters
  /\ off \in 0 .. stats.to_external
  /\ \A r \in Hands : item[r] \in arrived \cap Messages
  /\ \A r \in Hands, i \in DOMAIN signals : signals[i] # item[r]
  /\ \A q, r \in Hands : item[q] = item[r] => q = r
  /\ \A i, j \in DOMAIN signals : signals[i] = signals[j] => i = j
  /\ \A i \in DOMAIN signals : signals[i] \in arrived \cap Messages
  /\ CountedOn + Cardinality(Lag) = Len(signals)

\* What a step of the host or of an injector leaves alone.
Aside ==
  /\ \A r \in Listeners : pc'[r] = pc[r] /\ item'[r] = item[r]
  /\ DOMAIN item' = DOMAIN item
  /\ UNCHANGED <<signals, off>>
  /\ arrived \subseteq arrived'
  /\ stats' \in Counters /\ stats'.to_external = stats.to_external

\* Such a step is nothing to the bridge.
LEMMA AsideKeeps ==
  ASSUME BridgeInv, Aside
  PROVE  BridgeInv'
<1>1. Hands' = Hands /\ Lag' = Lag /\ \A r \in Hands : item'[r] = item[r]
  BY DEF Aside, Hands, Lag
<1> QED BY <1>1 DEF Aside, BridgeInv, CountedOn

\* A step of a caller changes its own label and item, and the counter of requests
\* at most.
LEMMA CallerAside ==
  ASSUME IInv, BridgeInv, NEW t \in Callers,
         pc' = pc \/ \E l : pc' = [pc EXCEPT ![t] = l],
         item' = item \/ \E x : item' = [item EXCEPT ![t] = x],
         UNCHANGED <<signals, off>>, arrived \subseteq arrived',
         stats' = stats \/ stats' = [stats EXCEPT !.to_someip = @ + 1]
  PROVE  Aside
<1>1. \A r \in Listeners : r # t /\ r \in Threads
  BY Roles
<1>2. \A r \in Listeners : pc'[r] = pc[r]
  BY <1>1 DEF IInv, Types
<1>3. DOMAIN item' = DOMAIN item /\ \A r \in Listeners : item'[r] = item[r]
  BY <1>1 DEF BridgeInv
<1>4. stats' \in Counters /\ stats'.to_external = stats.to_external
  BY DEF BridgeInv, Counters
<1> QED BY <1>2, <1>3, <1>4 DEF Aside

\* start(), stop(), the first event subscription and the switch.
LEMMA HostAside ==
  ASSUME IInv, BridgeInv,
         \/ StartUdp \/ StartImpl \/ StartRunning \/ StopEvents \/ StopUdp \/ StopClose \/ StopRunning
         \/ subscribe_someip_eventgroup \/ test_set_dbus_enabled
  PROVE  Aside
<1>1. UNCHANGED <<item, signals, off, arrived, stats>> /\ (pc' = pc \/ \E l : pc' = [pc EXCEPT ![host] = l])
  BY Zenon DEF StartUdp, StartImpl, StartRunning, StopEvents, StopUdp, StopClose, StopRunning,
     subscribe_someip_eventgroup, test_set_dbus_enabled, Goto, outbound
<1> QED BY <1>1, CallerAside, Roles

\* Polling, and injected calls.
LEMMA CallAside ==
  ASSUME IInv, BridgeInv, NEW t \in Callers,
         \/ t = host /\ (PollWait \/ PollProcess \/ Reply)
         \/ \E c \in Calls : InjectCall(t, c)
         \/ EmitExternalRpc(t) \/ TakeSession(t) \/ CountRequest(t) \/ CallSink(t)
  PROVE  Aside
<1>1. CASE t = host /\ (PollWait \/ PollProcess \/ Reply)
  <2>1. /\ UNCHANGED <<signals, off, stats>> /\ arrived \subseteq arrived'
        /\ \E l : pc' = [pc EXCEPT ![host] = l]
        /\ item' = item \/ \E x : item' = [item EXCEPT ![host] = x]
    BY <1>1 DEF PollWait, PollProcess, Reply, Goto, Forget, outbound
  <2> QED BY <1>1, <2>1, CallerAside, ZenonT(30)
<1>2. CASE \E c \in Calls : InjectCall(t, c)
  <2>1. /\ UNCHANGED <<signals, off, stats>> /\ arrived \subseteq arrived'
        /\ \E l : pc' = [pc EXCEPT ![t] = l]
        /\ \E x : item' = [item EXCEPT ![t] = x]
    BY <1>2, Zenon DEF InjectCall, Goto, outbound
  <2> QED BY <2>1, CallerAside, Zenon
<1>3. CASE EmitExternalRpc(t) \/ TakeSession(t) \/ CountRequest(t) \/ CallSink(t)
  <2>1. /\ UNCHANGED <<signals, off, arrived>> /\ \E l : pc' = [pc EXCEPT ![t] = l]
        /\ item' = item \/ \E x : item' = [item EXCEPT ![t] = x]
        /\ stats' = stats \/ stats' = [stats EXCEPT !.to_someip = @ + 1]
    BY <1>3, Zenon DEF EmitExternalRpc, TakeSession, CountRequest, CallSink, Return, Goto, Forget, outbound
  <2> QED BY <2>1, CallerAside, Zenon
<1> QED BY <1>1, <1>2, <1>3

\* A message that is forwarded is in the hands of its listener.
LEMMA BridgeArrives ==
  ASSUME IInv, BridgeInv, NEW r \in Listeners, NEW m \in Messages, OnSomeipMessage(r, m)
  PROVE  BridgeInv'
<1>1. /\ pc[r] = "idle" /\ m \notin arrived /\ arrived' = arrived \cup {m}
      /\ UNCHANGED <<signals, off, stats>>
      /\ \/ pc' = [pc EXCEPT ![r] = "emit"] /\ item' = [item EXCEPT ![r] = m]
         \/ UNCHANGED <<pc, item>>
  BY DEF OnSomeipMessage, Goto, outbound
<1>2. CASE UNCHANGED <<pc, item>>
  <2>1. Aside
    BY <1>1, <1>2, SMTT(20) DEF Aside, BridgeInv
  <2> QED BY <2>1, AsideKeeps
<1>3. CASE pc' = [pc EXCEPT ![r] = "emit"] /\ item' = [item EXCEPT ![r] = m]
  <2>1. /\ Hands' = Hands \cup {r} /\ r \notin Hands /\ Lag' = Lag
        /\ DOMAIN item' = Threads /\ item'[r] = m /\ \A h \in Hands : item'[h] = item[h]
    BY <1>1, <1>3, Roles, SMTT(20) DEF Hands, Lag, IInv, Types, BridgeInv
  <2>2. \A h \in Hands' : item'[h] \in arrived' \cap Messages
    BY <1>1, <2>1, SMTT(20) DEF BridgeInv
  <2>3. \A h \in Hands', i \in DOMAIN signals' : signals'[i] # item'[h]
    BY <1>1, <2>1, SMTT(20) DEF BridgeInv
  <2>4. \A q, h \in Hands' : item'[q] = item'[h] => q = h
    BY <1>1, <2>1, SMTT(20) DEF BridgeInv
  <2> QED BY <1>1, <2>1, <2>2, <2>3, <2>4, SMTT(20) DEF BridgeInv, CountedOn
<1> QED BY <1>1, <1>2, <1>3, SMTT(20)

\* A listener finds the connection, or no D-Bus, or its signal fails.
LEMMA BridgeMoves ==
  ASSUME IInv, BridgeInv, NEW r \in Listeners, NEW l \in {"signal", "off", "error"},
         pc[r] \in {"emit", "signal"}, pc' = [pc EXCEPT ![r] = l],
         UNCHANGED <<item, signals, off, arrived, stats>>
  PROVE  BridgeInv'
<1>1. Hands' \subseteq Hands /\ Lag' = Lag
  BY Roles, SMTT(20) DEF Hands, Lag, IInv, Types
<1> QED BY <1>1 DEF BridgeInv, CountedOn

\* A signal goes out and is yet to be counted.
LEMMA BridgeSignals ==
  ASSUME IInv, BridgeInv, NEW r \in Listeners, pc[r] = "signal",
         pc' = [pc EXCEPT ![r] = "record"], signals' = Append(signals, item[r]),
         UNCHANGED <<item, off, arrived, stats>>
  PROVE  BridgeInv'
<1>1. /\ r \in Hands /\ r \notin Lag /\ Hands' = Hands \ {r} /\ Lag' = Lag \cup {r}
  BY Roles DEF Hands, Lag, IInv, Types
<1>2. /\ signals \in Seq(Messages) /\ item[r] \in Messages /\ item[r] \in arrived
      /\ Len(signals) \in Nat /\ stats.to_external \in Nat /\ off \in Nat
  BY <1>1 DEF BridgeInv, Counters
<1>3. /\ signals' \in Seq(Messages) /\ Len(signals') = Len(signals) + 1
      /\ DOMAIN signals = 1 .. Len(signals) /\ DOMAIN signals' = 1 .. Len(signals) + 1
      /\ signals'[Len(signals) + 1] = item[r]
      /\ \A i \in 1 .. Len(signals) : signals'[i] = signals[i]
  BY <1>2, SMTT(20)
<1>4. \A h \in Hands', i \in DOMAIN signals' : signals'[i] # item'[h]
  BY <1>1, <1>2, <1>3, SMTT(20) DEF BridgeInv
<1>5. \A i, j \in DOMAIN signals' : signals'[i] = signals'[j] => i = j
  <2> SUFFICES ASSUME NEW i \in DOMAIN signals', NEW j \in DOMAIN signals', signals'[i] = signals'[j]
               PROVE  i = j
    OBVIOUS
  <2>1. CASE i \in 1 .. Len(signals) /\ j \in 1 .. Len(signals)
    BY <1>3, <2>1, SMTT(20) DEF BridgeInv
  <2>2. CASE i = Len(signals) + 1 \/ j = Len(signals) + 1
    BY <1>1, <1>3, <2>2, SMTT(20) DEF BridgeInv
  <2> QED BY <1>2, <1>3, <2>1, <2>2, SMTT(20)
<1>6. \A i \in DOMAIN signals' : signals'[i] \in arrived' \cap Messages
  BY <1>2, <1>3, SMTT(20) DEF BridgeInv
<1>7. CountedOn' + Cardinality(Lag') = Len(signals')
  <2>1. IsFiniteSet(Lag)
    BY ListenersAssumption, FS_Subset, SMTT(20) DEF Lag, Listeners
  <2>2. Cardinality(Lag') = Cardinality(Lag) + 1 /\ Cardinality(Lag) \in Nat
    BY <1>1, <2>1, FS_AddElement, FS_CardinalityType, SMTT(20)
  <2> QED BY <1>2, <1>3, <2>2, SMTT(20) DEF BridgeInv, CountedOn
<1> QED BY <1>1, <1>3, <1>4, <1>5, <1>6, <1>7, SMTT(20) DEF BridgeInv

\* A listener counts its message, or its failure, and returns.
LEMMA BridgeRecords ==
  ASSUME IInv, BridgeInv, NEW r \in Listeners, Record(r)
  PROVE  BridgeInv' /\ CountedOn <= CountedOn'
<1>1. /\ pc' = [pc EXCEPT ![r] = "idle"] /\ item' = [item EXCEPT ![r] = none]
      /\ UNCHANGED <<signals, arrived>>
      /\ \/ pc[r] = "record" /\ stats' = [stats EXCEPT !.to_external = @ + 1] /\ off' = off
         \/ pc[r] = "off" /\ stats' = [stats EXCEPT !.to_external = @ + 1] /\ off' = off + 1
         \/ pc[r] = "error" /\ stats' = [stats EXCEPT !.errors = @ + 1] /\ off' = off
  BY DEF Record, Returns, Goto, Forget
<1>2. /\ Hands' = Hands /\ DOMAIN item' = Threads /\ \A h \in Hands : item'[h] = item[h]
      /\ stats.to_external \in Nat /\ Len(signals) \in Nat /\ off \in 0 .. stats.to_external
  BY <1>1, Roles DEF Hands, IInv, Types, BridgeInv, Counters
<1>3. /\ stats' \in Counters /\ off' \in 0 .. stats'.to_external
      /\ CountedOn' + Cardinality(Lag') = Len(signals) /\ CountedOn <= CountedOn'
  <2>1. CASE pc[r] = "record" /\ stats' = [stats EXCEPT !.to_external = @ + 1] /\ off' = off
    <3>1. stats' \in Counters /\ stats'.to_external = stats.to_external + 1
      BY <2>1 DEF BridgeInv, Counters
    <3>2. r \in Lag /\ Lag' = Lag \ {r}
      BY <1>1, <2>1, Roles, SMTT(20) DEF Lag, IInv, Types
    <3>3. IsFiniteSet(Lag)
      BY ListenersAssumption, FS_Subset DEF Lag, Listeners
    <3>4. Cardinality(Lag') = Cardinality(Lag) - 1 /\ Cardinality(Lag) \in Nat
      BY <3>2, <3>3, FS_RemoveElement, FS_CardinalityType, ZenonT(30)
    <3> QED BY <1>2, <2>1, <3>1, <3>4 DEF BridgeInv, CountedOn
  <2>2. CASE /\ pc[r] \in {"off", "error"}
             /\ \/ stats' = [stats EXCEPT !.to_external = @ + 1] /\ off' = off + 1
                \/ stats' = [stats EXCEPT !.errors = @ + 1] /\ off' = off
    <3>1. /\ stats' \in Counters
          /\ \/ stats'.to_external = stats.to_external + 1 /\ off' = off + 1
             \/ stats'.to_external = stats.to_external /\ off' = off
      BY <2>2 DEF BridgeInv, Counters
    <3>2. Lag' = Lag
      BY <1>1, <2>2, Roles, SMTT(20) DEF Lag, IInv, Types
    <3> QED BY <1>2, <3>1, <3>2 DEF BridgeInv, CountedOn
  <2> QED BY <1>1, <2>1, <2>2
<1> QED BY <1>1, <1>2, <1>3 DEF BridgeInv

\* What a step may do to the things the bridge sees: they only grow, by one signal.
Grows ==
  /\ arrived \subseteq arrived'
  /\ signals' = signals \/ \E x \in Messages : signals' = Append(signals, x)
  /\ CountedOn <= CountedOn'

\* on_someip_message meets a connection unless D-Bus is off, so what it counts
\* while it is on it has signalled.
LEMMA BridgeListener ==
  ASSUME IInv, Connected, BridgeInv, NEW r \in Listeners,
         (\E m \in Messages : OnSomeipMessage(r, m)) \/ EmitCheck(r) \/ EmitSignal(r) \/ Record(r)
  PROVE  BridgeInv' /\ Grows
<1>1. CountedOn \in Nat
  BY DEF BridgeInv, Counters, CountedOn
<1>2. ASSUME NEW m \in Messages, OnSomeipMessage(r, m) PROVE BridgeInv' /\ Grows
  <2>1. arrived \subseteq arrived' /\ UNCHANGED <<signals, CountedOn>>
    BY <1>2 DEF OnSomeipMessage, outbound, CountedOn
  <2> QED BY <1>1, <1>2, <2>1, BridgeArrives, SMTT(20) DEF Grows
<1>3. CASE EmitCheck(r)
  <2>1. /\ pc[r] = "emit" /\ \E l \in {"signal", "off", "error"} : pc' = [pc EXCEPT ![r] = l]
        /\ UNCHANGED <<item, signals, off, arrived, stats>>
    BY <1>3, ZenonT(30) DEF EmitCheck, Goto, Connected, Ready
  <2>2. BridgeInv'
    BY <2>1, BridgeMoves, Zenon
  <2> QED BY <1>1, <2>1, <2>2, SMTT(20) DEF Grows, CountedOn
<1>4. CASE EmitSignal(r)
  <2>1. /\ pc[r] = "signal" /\ UNCHANGED <<item, off, arrived, stats>>
        /\ \/ signals' = Append(signals, item[r]) /\ pc' = [pc EXCEPT ![r] = "record"]
           \/ pc' = [pc EXCEPT ![r] = "error"] /\ UNCHANGED signals
    BY <1>4 DEF EmitSignal, Goto, IInv, BusUsedWhileOpen
  <2>2. CASE signals' = Append(signals, item[r]) /\ pc' = [pc EXCEPT ![r] = "record"]
    <3>1. item[r] \in Messages
      BY <2>1 DEF BridgeInv, Hands
    <3>2. BridgeInv'
      BY <2>1, <2>2, BridgeSignals, ZenonT(30)
    <3> QED BY <1>1, <2>1, <2>2, <3>1, <3>2, SMTT(20) DEF Grows, CountedOn
  <2>3. CASE pc' = [pc EXCEPT ![r] = "error"] /\ UNCHANGED signals
    <3>1. BridgeInv'
      BY <2>1, <2>3, BridgeMoves, ZenonT(30)
    <3> QED BY <1>1, <2>1, <2>3, <3>1 DEF Grows, CountedOn
  <2> QED BY <2>1, <2>2, <2>3, SMTT(20)
<1>5. CASE Record(r)
  <2>1. UNCHANGED <<signals, arrived>>
    BY <1>5, SMTT(20) DEF Record, Returns
  <2> QED BY <1>5, <2>1, BridgeRecords, SMTT(20) DEF Grows
<1> QED BY <1>2, <1>3, <1>4, <1>5, SMTT(20)

\* Every step keeps the connection where it is needed, and the bridge.
LEMMA BridgeNext ==
  ASSUME IInv, Connected, BridgeInv, [Next]_vars
  PROVE  Connected' /\ BridgeInv' /\ Grows
<1>1. ASSUME Aside PROVE BridgeInv' /\ Grows
  <2>1. CountedOn \in Nat
    BY SMTT(20) DEF BridgeInv, Counters, CountedOn
  <2>2. Grows
    BY <1>1, <2>1, SMTT(20) DEF Aside, Grows, CountedOn
  <2> QED BY <1>1, <2>2, AsideKeeps, SMTT(20)
<1>2. ASSUME NEW t \in Callers, NEW l \in Outside, pc' = [pc EXCEPT ![t] = l], pc[t] \in Outside,
             UNCHANGED lifecycle
      PROVE  Connected'
  <2>1. /\ \A r \in Listeners : pc'[r] = pc[r]
        /\ pc'[host] = pc[host] \/ (pc[host] \in Outside /\ pc'[host] \in Outside)
    BY <1>2, Roles DEF IInv, Types
  <2> QED BY <1>2, <2>1, SMTT(20) DEF Connected, Outside, lifecycle, mode, Ready
<1>3. CASE StartUdp \/ StartImpl \/ StartRunning \/ StopEvents \/ StopUdp \/ StopClose \/ StopRunning
  BY <1>1, <1>3, HostAside, ConnectedStart, ConnectedStop, SMTT(20)
<1>4. CASE subscribe_someip_eventgroup \/ test_set_dbus_enabled
  <2>1. pc[host] = "idle" /\ UNCHANGED <<running, Ready, pc>>
    BY <1>4 DEF subscribe_someip_eventgroup, test_set_dbus_enabled, mode, Ready
  <2>2. Connected'
    BY <2>1 DEF Connected
  <2> QED BY <1>1, <1>4, <2>2, HostAside, SMTT(20)
<1>5. CASE PollWait \/ PollProcess \/ Reply
  <2>1. /\ pc[host] \in Outside /\ UNCHANGED lifecycle
        /\ \E l \in Outside : pc' = [pc EXCEPT ![host] = l]
    BY <1>5 DEF PollWait, PollProcess, Reply, Goto, Outside
  <2>2. Connected'
    BY <1>2, <2>1, Roles, ZenonT(30)
  <2> QED BY <1>1, <1>5, <2>2, CallAside, Roles, SMTT(20)
<1>6. ASSUME NEW t \in Callers,
             \/ \E c \in Calls : InjectCall(t, c)
             \/ EmitExternalRpc(t) \/ TakeSession(t) \/ CountRequest(t) \/ CallSink(t)
      PROVE  Connected' /\ BridgeInv' /\ Grows
  <2>1. /\ pc[t] \in Outside /\ UNCHANGED lifecycle
        /\ \E l \in Outside : pc' = [pc EXCEPT ![t] = l]
    BY <1>6 DEF InjectCall, EmitExternalRpc, TakeSession, CountRequest, CallSink, Return, Goto,
                Outside
  <2>2. Connected'
    BY <1>2, <2>1, ZenonT(30)
  <2> QED BY <1>1, <1>6, <2>2, CallAside, SMTT(20)
<1>7. ASSUME NEW r \in Listeners,
             (\E m \in Messages : OnSomeipMessage(r, m)) \/ EmitCheck(r) \/ EmitSignal(r) \/ Record(r)
      PROVE  Connected' /\ BridgeInv' /\ Grows
  BY <1>7, ConnectedListener, BridgeListener, SMTT(20)
<1>8. CASE UNCHANGED vars
  <2>1. Connected'
    BY <1>8, SMTT(20) DEF Connected, vars, lifecycle, mode, Ready
  <2>2. Aside
    BY <1>8 DEF Aside, BridgeInv, vars, outbound
  <2> QED BY <1>1, <2>1, <2>2, SMTT(20)
<1> QED BY <1>3, <1>4, <1>5, <1>6, <1>7, <1>8, SMTT(20) DEF Next, Callers

\* With D-Bus on, messages cross to D-Bus as the bridge says, but for the fairness
\* of its counter: each at most once, whichever thread brings it, only if it arrived,
\* and the counter never runs ahead, since emit_signal never meets a closed connection
\* and meets none only if start() found D-Bus off.  Messages counted while enabled_ was
\* off, or in a build without systemd, are not among those the bridge counts.
THEOREM DbusBridgeSafety == Spec => Outbound!Safety
<1>1. Init => Outbound!Init
  BY DEF Init, Outbound!Init
<1>2. Init => Connected /\ BridgeInv
  <2> SUFFICES ASSUME Init PROVE Connected /\ BridgeInv
    OBVIOUS
  <2>1. \A t \in Threads : pc[t] = "idle"
    BY DEF Init
  <2>2. pc[host] = "idle" /\ \A r \in Listeners : pc[r] = "idle"
    BY <2>1, Roles, SMTT(20)
  <2>3. Connected
    BY <2>2 DEF Init, Connected, Ready
  <2>4. Hands = {} /\ Lag = {}
    BY <2>2 DEF Hands, Lag
  <2>5. stats \in Counters /\ stats.to_external = 0 /\ off = 0
    BY DEF Init, Counters
  <2>6. BridgeInv
    BY <2>4, <2>5, FS_EmptySet, SMTT(20) DEF Init, BridgeInv, CountedOn
  <2> QED BY <2>3, <2>6
<1>3. IInv /\ Connected /\ BridgeInv /\ [Next]_vars => Connected' /\ BridgeInv'
  BY BridgeNext
<1>4. ASSUME IInv, Connected, BridgeInv, BridgeInv', [Next]_vars
      PROVE  [Outbound!Next]_(Outbound!vars)
  <2>1. Grows
    BY <1>4, BridgeNext, SMTT(20)
  <2>2. signals \in Seq(Messages) /\ signals' \in Seq(Messages)
    BY <1>4 DEF BridgeInv
  <2>3. /\ Len(signals) <= Len(signals') /\ Len(signals) \in Nat /\ Len(signals') \in Nat
        /\ \A i \in 1 .. Len(signals) : signals'[i] = signals[i]
    BY <2>1, <2>2 DEF Grows
  <2>4. SubSeq(signals', 1, Len(signals)) = signals
    BY <2>2, <2>3, SMTT(20)
  <2>5. /\ Outbound!IsInjective(signals')
        /\ Outbound!Range(signals') \subseteq arrived' \cap Messages
    BY <1>4 DEF BridgeInv, Outbound!IsInjective, Outbound!Range
  <2>6. CountedOn' \in CountedOn .. Len(signals')
    <3>1. CountedOn \in Nat /\ CountedOn' \in Nat
      BY <1>4, SMTT(20) DEF BridgeInv, Counters, CountedOn
    <3>2. Lag' \subseteq Receivers \cup Subscribers
      BY DEF Lag, Listeners
    <3>3. Cardinality(Lag') \in Nat
      BY <3>2, ListenersAssumption, FS_Subset, FS_CardinalityType, SMTT(20)
    <3>4. CountedOn' + Cardinality(Lag') = Len(signals')
      BY <1>4 DEF BridgeInv
    <3> QED BY <2>1, <2>3, <3>1, <3>3, <3>4, SMTT(20) DEF Grows
  <2>7. arrived \cap Messages \subseteq arrived' \cap Messages
    BY <2>1 DEF Grows
  <2>8. Outbound!Progress
    BY <2>3, <2>4, <2>5, <2>6, <2>7, ZenonT(30) DEF Outbound!Progress, CountedOn
  <2> QED BY <2>8 DEF Outbound!Next
<1> QED BY <1>1, <1>2, <1>3, <1>4, InitInvariant, NextInvariant, PTL DEF Spec, Outbound!Safety
=============================================================================
