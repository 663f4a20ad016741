------------------------- MODULE ZenohGatewayProofs -------------------------
(***************************************************************************)
(* What mutex_ guarantees ZenohGateway for every set of controllers,       *)
(* mappings and inputs, and both ways to configure UDP and E2E: a gateway  *)
(* that runs is complete, and the receive thread has its transport.        *)
(***************************************************************************)
EXTENDS ZenohGateway, TLAPS

StartLabels == {"udp", "clients", "session", "declare"}
StopLabels == {"stop_session", "stop_clients", "stop_udp"}
Inside == StartLabels \cup StopLabels
Labels == Inside \cup {"idle", "stop_lock"}
InputLabels == {"new", "lock", "publish", "record", "calling", "done"}

-----------------------------------------------------------------------------
(* The inductive invariant.                                                *)

Types ==
  /\ at \in [Inputs -> InputLabels]
  /\ control \in [Controllers -> Labels]
  /\ running \in BOOLEAN /\ rpc_client_ \in BOOLEAN
  /\ session_ \in BOOLEAN /\ declared \in BOOLEAN
  /\ udp_ \in {"none", "idle", "listening", "closing"}

\* A controller between taking and releasing mutex_ is its owner.
Exclusion == \A c \in Controllers : control[c] \in Inside <=> mutex_ = c

\* How far start() has got, and that it is not called while the gateway runs.
Stages ==
  \A c \in Controllers :
    /\ control[c] \in StartLabels => ~running
    /\ control[c] \in {"clients", "session", "declare"} /\ enable_udp_transport
         => udp_ = "listening"
    /\ control[c] \in {"session", "declare"} => rpc_client_
    /\ control[c] = "declare" => session_

\* Only a stop() that is about to join the receive thread has a closing transport.
Closing == udp_ = "closing" => \E c \in Controllers : control[c] = "stop_udp"

\* One message at a time is inside on_message_received, and past the lock it owns
\* mutex_.
Receiver ==
  /\ \A m, n \in UdpMessages : InCallback(m) /\ InCallback(n) => m = n
  /\ \A m \in UdpMessages : at[m] \in {"publish", "record"} => mutex_ = "udp"

IInv ==
  /\ Types /\ Exclusion /\ Stages /\ Closing /\ Receiver
  /\ RunningIsComplete /\ ReceiverHasTransport

-----------------------------------------------------------------------------
(* The controllers.                                                        *)

\* Nobody else is inside start() or stop(), nor is the receive thread past its
\* lock, while a controller owns mutex_ or nobody does.
LEMMA Alone ==
  ASSUME IInv, NEW c \in Controllers, mutex_ = c \/ mutex_ = "free"
  PROVE  /\ \A d \in Controllers : d # c => control[d] \notin Inside
         /\ \A m \in UdpMessages : at[m] \notin {"publish", "record"}
BY ControllerAssumption DEF IInv, Exclusion, Receiver

\* So the transport is not closing unless this controller is about to join it.
LEMMA NotClosing ==
  ASSUME IInv, NEW c \in Controllers, mutex_ = c \/ mutex_ = "free", control[c] # "stop_udp"
  PROVE  udp_ # "closing"
BY Alone DEF IInv, Closing, Inside, StopLabels

\* What a step of controller c has to establish once the others are known to be
\* outside: the conjuncts about c, the owner, and the transport.
Advance(c) ==
  LET l == control'[c]
  IN  /\ control' \in [Controllers -> Labels] /\ UNCHANGED at
      /\ \A d \in Controllers : d # c => control'[d] = control[d]
      /\ mutex_' = IF l \in Inside THEN c ELSE "free"
      /\ running' \in BOOLEAN /\ rpc_client_' \in BOOLEAN
      /\ session_' \in BOOLEAN /\ declared' \in BOOLEAN
      /\ udp_' \in {"none", "idle", "listening", "closing"}
      /\ l \in StartLabels => ~running'
      /\ l \in {"clients", "session", "declare"} /\ enable_udp_transport => udp_' = "listening"
      /\ l \in {"session", "declare"} => rpc_client_'
      /\ l = "declare" => session_'
      /\ udp_' = "closing" => l = "stop_udp"
      /\ RunningIsComplete'
      /\ ~ReceiverIdle => udp_' \in {"listening", "closing"}

\* Such a step keeps the invariant.
LEMMA ControllerStep ==
  ASSUME IInv, NEW c \in Controllers, mutex_ = c \/ mutex_ = "free", Advance(c)
  PROVE  IInv'
<1> USE DEF Advance
<1>1. /\ \A d \in Controllers : d # c => control[d] \notin Inside
      /\ \A m \in UdpMessages : at[m] \notin {"publish", "record"}
  BY Alone
<1>3. Types'
  BY DEF IInv, Types
<1>4. Exclusion'
  BY <1>1, ControllerAssumption DEF Exclusion
<1>5. Stages'
  <2>1. \A d \in Controllers : d # c => control'[d] \notin StartLabels
    BY <1>1 DEF Inside
  <2> QED BY <2>1 DEF Stages, StartLabels
<1>6. Closing'
  BY DEF Closing
<1>7. Receiver' /\ ReceiverHasTransport'
  BY <1>1 DEF IInv, Receiver, InCallback, ReceiverHasTransport, ReceiverIdle
<1>8. RunningIsComplete'
  OBVIOUS
<1> QED BY <1>3, <1>4, <1>5, <1>6, <1>7, <1>8 DEF IInv

\* A step from label k inside start() or stop() is taken by the owner of mutex_.
LEMMA InsideOwns ==
  ASSUME IInv, NEW c \in Controllers, control[c] \in Inside
  PROVE  mutex_ = c
BY DEF IInv, Exclusion

\* start() takes mutex_ and brings the parts up in order.
LEMMA StartStep ==
  ASSUME IInv, NEW c \in Controllers, StartLock(c) \/ StartSteps(c)
  PROVE  IInv'
<1> USE DEF Labels, Inside, StartLabels, StopLabels
<1>1. CASE StartLock(c)
  <2>1. /\ mutex_ = "free" /\ mutex_' = c /\ ~running
        /\ control' = [control EXCEPT ![c] = "udp"]
        /\ UNCHANGED <<running, udp_, rpc_client_, session_, declared, at>>
    BY <1>1 DEF StartLock, Goto, parts, bridge
  <2>2. udp_ # "closing"
    BY <1>1, <2>1, NotClosing DEF StartLock
  <2>3. RunningIsComplete'
    BY <2>1 DEF RunningIsComplete
  <2>5. Advance(c)
    BY <2>1, <2>2, <2>3 DEF Advance, IInv, Types, ReceiverHasTransport
  <2> QED BY <2>1, <2>5, ControllerStep
<1>2. CASE StartUdp(c)
  <2>1. mutex_ = c /\ ~running
    BY <1>2, InsideOwns DEF StartUdp, IInv, Stages
  <2>2. UNCHANGED <<running, rpc_client_, session_, declared, at>>
    BY <1>2 DEF StartUdp, bridge
  <2>3. ReceiverIdle
    <3>1. udp_ # "closing"
      BY <1>2, <2>1, NotClosing DEF StartUdp
    <3> QED BY <1>2, <3>1 DEF StartUdp, IInv, Types, ReceiverHasTransport
  <2>4. RunningIsComplete'
    BY <2>1, <2>2 DEF RunningIsComplete
  <2>5. udp_ # "closing"
    BY <1>2, <2>1, NotClosing DEF StartUdp
  <2>6. CASE /\ control' = [control EXCEPT ![c] = "clients"] /\ mutex_' = mutex_
             /\ IF enable_udp_transport THEN udp_' = "listening" ELSE udp_' = udp_
    <3>1. Advance(c)
      BY <2>1, <2>2, <2>3, <2>4, <2>5, <2>6 DEF Advance, IInv, Types
    <3> QED BY <2>1, <3>1, ControllerStep
  <2>7. CASE /\ control' = [control EXCEPT ![c] = "idle"] /\ mutex_' = "free"
             /\ udp_' = "idle"
    <3>1. Advance(c)
      BY <2>1, <2>2, <2>3, <2>4, <2>7 DEF Advance, IInv, Types
    <3> QED BY <2>1, <3>1, ControllerStep
  <2> QED BY <1>2, <2>6, <2>7, ConfigAssumption DEF StartUdp, Goto, Return
<1>3. CASE StartClients(c)
  <2>1. mutex_ = c /\ ~running /\ (enable_udp_transport => udp_ = "listening")
    BY <1>3, InsideOwns DEF StartClients, IInv, Stages
  <2>2. /\ UNCHANGED <<running, udp_, session_, declared, at, mutex_>>
        /\ control' = [control EXCEPT ![c] = "session"] /\ rpc_client_' = TRUE
    BY <1>3 DEF StartClients, bridge, Goto
  <2>3. RunningIsComplete'
    BY <2>1, <2>2 DEF RunningIsComplete
  <2>4. udp_ # "closing"
    BY <1>3, <2>1, NotClosing DEF StartClients
  <2>5. Advance(c)
    BY <2>1, <2>2, <2>3, <2>4 DEF Advance, IInv, Types, ReceiverHasTransport
  <2> QED BY <2>1, <2>5, ControllerStep
<1>4. CASE OpenSession(c)
  <2>1. /\ mutex_ = c /\ ~running /\ rpc_client_
        /\ enable_udp_transport => udp_ = "listening"
    BY <1>4, InsideOwns DEF OpenSession, IInv, Stages
  <2>2. UNCHANGED <<running, udp_, rpc_client_, at>>
    BY <1>4 DEF OpenSession, bridge
  <2>3. RunningIsComplete'
    BY <2>1, <2>2 DEF RunningIsComplete
  <2>4. udp_ # "closing"
    BY <1>4, <2>1, NotClosing DEF OpenSession
  <2>5. CASE /\ session_' = TRUE /\ declared' = FALSE /\ mutex_' = mutex_
             /\ control' = [control EXCEPT ![c] = "declare"]
    <3>1. Advance(c)
      BY <2>1, <2>2, <2>3, <2>4, <2>5 DEF Advance, IInv, Types, ReceiverHasTransport
    <3> QED BY <2>1, <3>1, ControllerStep
  <2>6. CASE /\ UNCHANGED <<session_, declared>> /\ mutex_' = "free"
             /\ control' = [control EXCEPT ![c] = "idle"]
    <3>1. Advance(c)
      BY <2>1, <2>2, <2>3, <2>4, <2>6 DEF Advance, IInv, Types, ReceiverHasTransport
    <3> QED BY <2>1, <3>1, ControllerStep
  <2> QED BY <1>4, <2>5, <2>6 DEF OpenSession, Goto, Return
<1>5. CASE Declare(c)
  <2>1. /\ mutex_ = c /\ ~running /\ rpc_client_ /\ session_
        /\ enable_udp_transport => udp_ = "listening"
    BY <1>5, InsideOwns DEF Declare, IInv, Stages
  <2>2. /\ UNCHANGED <<udp_, rpc_client_, session_, at>> /\ mutex_' = "free"
        /\ control' = [control EXCEPT ![c] = "idle"]
        /\ declared' \in BOOLEAN /\ running' \in BOOLEAN /\ (running' => declared')
    <3>1. /\ UNCHANGED <<udp_, rpc_client_, session_, at>> /\ mutex_' = "free"
          /\ control' = [control EXCEPT ![c] = "idle"]
      BY <1>5 DEF Declare, bridge, Goto, Return
    <3>2. CASE declared' = TRUE /\ running' = TRUE
      BY <3>1, <3>2
    <3>3. CASE declared' \in BOOLEAN /\ UNCHANGED running
      <4>1. running' = running /\ running \in BOOLEAN
        BY <3>3 DEF IInv, Types
      <4>2. running' \in BOOLEAN /\ ~running'
        BY <4>1, <2>1
      <4> QED BY <3>1, <3>3, <4>2
    <3> QED BY <1>5, <3>2, <3>3 DEF Declare
  <2>3. RunningIsComplete'
    BY <2>1, <2>2 DEF RunningIsComplete
  <2>4. udp_ # "closing"
    BY <1>5, <2>1, NotClosing DEF Declare
  <2>5. Advance(c)
    BY <2>1, <2>2, <2>3, <2>4 DEF Advance, IInv, Types, ReceiverHasTransport
  <2> QED BY <2>1, <2>5, ControllerStep
<1> QED BY <1>1, <1>2, <1>3, <1>4, <1>5 DEF StartSteps

\* stop() takes mutex_, takes the parts down and waits for the receive thread.
LEMMA StopStep ==
  ASSUME IInv, NEW c \in Controllers, StopSteps(c)
  PROVE  IInv'
<1> USE DEF Labels, Inside, StartLabels, StopLabels
<1>1. CASE StopLock(c)
  <2>1. /\ mutex_ = "free"
        /\ UNCHANGED <<running, udp_, rpc_client_, session_, declared, at>>
        /\ \/ running /\ mutex_' = c /\ control' = [control EXCEPT ![c] = "stop_session"]
           \/ mutex_' = mutex_ /\ control' = [control EXCEPT ![c] = "idle"]
    BY <1>1 DEF StopLock, Goto, parts, bridge
  <2>2. RunningIsComplete'
    BY <2>1, ControllerAssumption DEF IInv, RunningIsComplete
  <2>3. udp_ # "closing"
    BY <1>1, <2>1, NotClosing DEF StopLock
  <2>4. CASE running /\ mutex_' = c /\ control' = [control EXCEPT ![c] = "stop_session"]
    <3>1. Advance(c)
      BY <2>1, <2>2, <2>3, <2>4 DEF Advance, IInv, Types, ReceiverHasTransport
    <3> QED BY <2>1, <3>1, ControllerStep
  <2>5. CASE mutex_' = mutex_ /\ control' = [control EXCEPT ![c] = "idle"]
    <3>1. Advance(c)
      BY <2>1, <2>2, <2>3, <2>5 DEF Advance, IInv, Types, ReceiverHasTransport
    <3> QED BY <2>1, <3>1, ControllerStep
  <2> QED BY <2>1, <2>4, <2>5
<1>2. CASE StopSession(c)
  <2>1. mutex_ = c
    BY <1>2, InsideOwns DEF StopSession
  <2>2. /\ UNCHANGED <<running, udp_, rpc_client_, at, mutex_>>
        /\ declared' = FALSE /\ session_' = FALSE
        /\ control' = [control EXCEPT ![c] = "stop_clients"]
    BY <1>2 DEF StopSession, bridge, Goto
  <2>3. RunningIsComplete'
    BY <2>1, <2>2 DEF RunningIsComplete
  <2>4. udp_ # "closing"
    BY <1>2, <2>1, NotClosing DEF StopSession
  <2>5. Advance(c)
    BY <2>1, <2>2, <2>3, <2>4 DEF Advance, IInv, Types, ReceiverHasTransport
  <2> QED BY <2>1, <2>5, ControllerStep
<1>3. CASE StopClients(c)
  <2>1. mutex_ = c
    BY <1>3, InsideOwns DEF StopClients
  <2>2. /\ UNCHANGED <<running, session_, declared, at, mutex_>>
        /\ rpc_client_' = FALSE /\ udp_' = IF udp_ = "none" THEN "none" ELSE "closing"
        /\ control' = [control EXCEPT ![c] = "stop_udp"]
    BY <1>3 DEF StopClients, bridge, Goto
  <2>3. RunningIsComplete'
    BY <2>1, <2>2 DEF RunningIsComplete
  <2>5. Advance(c)
    BY <2>1, <2>2, <2>3 DEF Advance, IInv, Types, ReceiverHasTransport
  <2> QED BY <2>1, <2>5, ControllerStep
<1>4. CASE StopUdp(c)
  <2>1. mutex_ = c
    BY <1>4, InsideOwns DEF StopUdp
  <2>2. /\ UNCHANGED <<rpc_client_, session_, declared, at>> /\ ReceiverIdle
        /\ udp_' = "none" /\ running' = FALSE /\ mutex_' = "free"
        /\ control' = [control EXCEPT ![c] = "idle"]
    BY <1>4 DEF StopUdp, bridge, Return, Goto
  <2>3. RunningIsComplete'
    BY <2>2 DEF RunningIsComplete
  <2>5. Advance(c)
    BY <2>1, <2>2, <2>3 DEF Advance, IInv, Types
  <2> QED BY <2>1, <2>5, ControllerStep
<1> QED BY <1>1, <1>2, <1>3, <1>4 DEF StopSteps

\* Calling stop() only queues for mutex_.
LEMMA CallStopStep ==
  ASSUME IInv, NEW c \in Controllers, CallStop(c)
  PROVE  IInv'
<1> USE DEF Labels, Inside, StartLabels, StopLabels
<1>1. /\ UNCHANGED <<mutex_, running, udp_, rpc_client_, session_, declared, at>>
      /\ control[c] = "idle" /\ control' = [control EXCEPT ![c] = "stop_lock"]
  BY DEF CallStop, Goto, parts, bridge
<1>2. /\ control'[c] = "stop_lock"
      /\ \A d \in Controllers : d # c => control'[d] = control[d]
  BY <1>1 DEF IInv, Types
<1>3. Types' /\ Exclusion' /\ Stages' /\ Closing'
  <2>1. Types'
    BY <1>1 DEF IInv, Types
  <2>2. Exclusion' /\ Closing'
    BY <1>1, <1>2 DEF IInv, Exclusion, Closing
  <2>3. Stages'
    BY <1>1, <1>2 DEF IInv, Stages
  <2> QED BY <2>1, <2>2, <2>3
<1>4. Receiver' /\ RunningIsComplete' /\ ReceiverHasTransport'
  BY <1>1 DEF IInv, Receiver, InCallback, RunningIsComplete, ReceiverHasTransport, ReceiverIdle
<1> QED BY <1>3, <1>4 DEF IInv

-----------------------------------------------------------------------------
(* The callbacks.                                                          *)

lifecycle == <<running, udp_, rpc_client_, session_, declared, control>>

\* A step of an input that is not the receive thread's: the lifecycle and mutex_
\* stay, and so does what the receive thread handles.
Aside ==
  /\ UNCHANGED lifecycle /\ UNCHANGED mutex_
  /\ at' \in [Inputs -> InputLabels]
  /\ \A m \in UdpMessages : at'[m] = at[m]

\* Such a step keeps the invariant.
LEMMA AsideStep ==
  ASSUME IInv, Aside
  PROVE  IInv'
<1> USE DEF Aside, lifecycle
<1>1. Types' /\ Exclusion' /\ Stages' /\ Closing' /\ RunningIsComplete'
  BY DEF IInv, Types, Exclusion, Stages, Closing, RunningIsComplete
<1>2. Receiver' /\ ReceiverHasTransport'
  BY DEF IInv, Receiver, InCallback, ReceiverHasTransport, ReceiverIdle
<1> QED BY <1>1, <1>2 DEF IInv

\* A step of the receive thread with message m, the only one in its callback: it
\* takes or releases mutex_ only when no controller owns it.
Receives(m) ==
  /\ UNCHANGED lifecycle
  /\ at' \in [Inputs -> InputLabels]
  /\ \A n \in UdpMessages : n # m => at'[n] = at[n] /\ ~InCallback(n)
  /\ mutex_' = mutex_ \/ {mutex_, mutex_'} \cap Controllers = {}
  /\ at'[m] \in {"publish", "record"} => mutex_' = "udp"
  /\ udp_ \in {"listening", "closing"}

\* Such a step keeps the invariant.
LEMMA ReceiverStep ==
  ASSUME IInv, NEW m \in UdpMessages, Receives(m)
  PROVE  IInv'
<1> USE DEF Receives, lifecycle
<1>1. Types' /\ Stages' /\ Closing'
  BY DEF IInv, Types, Stages, Closing
<1>2. Exclusion'
  BY DEF IInv, Exclusion
<1>3. RunningIsComplete'
  BY DEF IInv, RunningIsComplete
<1>4. Receiver' /\ ReceiverHasTransport'
  BY DEF IInv, Receiver, InCallback, ReceiverHasTransport, ReceiverIdle
<1> QED BY <1>1, <1>2, <1>3, <1>4 DEF IInv

\* In the callback, m is the only message, and there is a transport.
LEMMA InTheCallback ==
  ASSUME IInv, NEW m \in UdpMessages, InCallback(m)
  PROVE  /\ \A n \in UdpMessages : n # m => ~InCallback(n)
         /\ udp_ \in {"listening", "closing"}
         /\ at[m] \in {"publish", "record"} => mutex_ = "udp"
BY DEF IInv, Receiver, ReceiverHasTransport, ReceiverIdle

\* Every step of the receive thread is of that shape.
LEMMA ReceiverSteps ==
  ASSUME IInv, NEW m \in UdpMessages,
         \/ ReceiveUdp(m) \/ ReceiverLock(m) \/ ReceiverRejects(m)
         \/ OnSomeipMessage(m) \/ Record(m)
  PROVE  IInv'
<1>1. m \in Inputs
  BY DEF Inputs, Messages
<1>2. "free" \notin Controllers /\ "udp" \notin Controllers
  BY ControllerAssumption
<1>3. UNCHANGED lifecycle
  BY DEF ReceiveUdp, ReceiverLock, ReceiverRejects, OnSomeipMessage, Record, parts, lifecycle
<1>4. CASE ReceiveUdp(m)
  <2>1. at' = [at EXCEPT ![m] = "lock"] /\ mutex_' = mutex_ /\ ReceiverIdle /\ udp_ = "listening"
    BY <1>4 DEF ReceiveUdp, Step
  <2>2. Receives(m)
    BY <1>1, <1>3, <2>1 DEF Receives, IInv, Types, InputLabels, ReceiverIdle
  <2> QED BY <2>2, ReceiverStep
<1>5. CASE ReceiverLock(m)
  <2>1. /\ at[m] = "lock" /\ at' = [at EXCEPT ![m] = "publish"]
        /\ mutex_ = "free" /\ mutex_' = "udp"
    BY <1>5 DEF ReceiverLock, Step
  <2>2. Receives(m)
    BY <1>1, <1>2, <1>3, <2>1, InTheCallback DEF Receives, IInv, Types, InputLabels, InCallback
  <2> QED BY <2>2, ReceiverStep
<1>6. CASE at[m] \in {"publish", "record"} /\ Leave(m)
  <2>1. /\ at[m] \in {"publish", "record"} /\ at' = [at EXCEPT ![m] = "done"]
        /\ mutex_' = "free"
    BY <1>6 DEF Leave, Step
  <2>2. Receives(m)
    BY <1>1, <1>2, <1>3, <2>1, InTheCallback DEF Receives, IInv, Types, InputLabels, InCallback
  <2> QED BY <2>2, ReceiverStep
<1>7. CASE at[m] = "publish" /\ Step(m, "record") /\ UNCHANGED mutex_
  <2>1. at[m] = "publish" /\ at' = [at EXCEPT ![m] = "record"] /\ mutex_' = mutex_
    BY <1>7 DEF Step
  <2>2. Receives(m)
    BY <1>1, <1>3, <2>1, InTheCallback DEF Receives, IInv, Types, InputLabels, InCallback
  <2> QED BY <2>2, ReceiverStep
<1> QED BY <1>4, <1>5, <1>6, <1>7 DEF ReceiverRejects, OnSomeipMessage, Record

\* What a step of another input has in common: its label moves, and no more.
LEMMA OtherInput ==
  ASSUME IInv, NEW x \in Inputs, x \notin UdpMessages,
         UNCHANGED lifecycle, UNCHANGED mutex_,
         Step(x, "lock") \/ Step(x, "publish") \/ Step(x, "record")
           \/ Step(x, "calling") \/ Step(x, "done")
  PROVE  IInv'
<1>1. Aside
  BY DEF Aside, Step, IInv, Types, InputLabels, Inputs, Messages
<1> QED BY <1>1, AsideStep

\* The messages of a host stack, events, calls, samples and queries leave the
\* receive thread, the owner of mutex_ and the lifecycle alone.
LEMMA OtherSteps ==
  ASSUME IInv,
         NEW x \in HostMessages \cup Events \cup Calls \cup Samples \cup Queries,
         \/ HostMessage(x) \/ OnSomeipMessage(x) \/ Record(x) \/ OnEvent(x)
         \/ OnRpcCall(x) \/ SampleArrives(x) \/ on_zenoh_sample(x)
         \/ QueryArrives(x) \/ QueryReplies(x)
  PROVE  IInv'
<1>1. x \in Inputs /\ x \notin UdpMessages
  BY InputAssumption DEF Inputs, Messages
<1>2. UNCHANGED lifecycle
  BY DEF HostMessage, OnSomeipMessage, Record, OnEvent, OnRpcCall, SampleArrives,
         on_zenoh_sample, QueryArrives, QueryReplies, parts, lifecycle
<1>3. UNCHANGED mutex_
  BY <1>1 DEF HostMessage, OnSomeipMessage, Record, OnEvent, OnRpcCall, SampleArrives,
              on_zenoh_sample, QueryArrives, QueryReplies, Leave
<1>4. \/ Step(x, "lock") \/ Step(x, "publish") \/ Step(x, "record")
      \/ Step(x, "calling") \/ Step(x, "done")
  BY DEF HostMessage, OnSomeipMessage, Record, OnEvent, OnRpcCall, SampleArrives,
         on_zenoh_sample, QueryArrives, QueryReplies, Leave
<1> QED BY <1>1, <1>2, <1>3, <1>4, OtherInput

-----------------------------------------------------------------------------
(* Every behaviour.                                                        *)

\* A gateway that was never started satisfies the invariant.
LEMMA InitInvariant == Init => IInv
<1> SUFFICES ASSUME Init PROVE IInv
  OBVIOUS
<1>1. Types
  BY DEF Init, Types, Labels, InputLabels
<1>2. Exclusion /\ Stages /\ Closing
  BY ControllerAssumption DEF Init, Exclusion, Stages, Closing, Inside, StartLabels, StopLabels
<1>3. Receiver /\ ReceiverHasTransport
  BY DEF Init, Receiver, InCallback, ReceiverHasTransport, ReceiverIdle, Inputs, Messages
<1>4. RunningIsComplete
  BY DEF Init, RunningIsComplete
<1> QED BY <1>1, <1>2, <1>3, <1>4 DEF IInv

\* Every step of a controller or of a callback keeps it.
LEMMA NextInvariant == IInv /\ [Next]_vars => IInv'
<1> SUFFICES ASSUME IInv, [Next]_vars PROVE IInv'
  OBVIOUS
<1>1. ASSUME NEW c \in Controllers,
             StartLock(c) \/ CallStop(c) \/ StartSteps(c) \/ StopSteps(c)
      PROVE  IInv'
  BY <1>1, StartStep, CallStopStep, StopStep
<1>2. ASSUME CallbackSteps \/ Arrivals
      PROVE  IInv'
  <2>1. ASSUME NEW m \in UdpMessages,
               \/ ReceiveUdp(m) \/ ReceiverLock(m) \/ ReceiverRejects(m)
               \/ OnSomeipMessage(m) \/ Record(m)
        PROVE  IInv'
    BY <2>1, ReceiverSteps
  <2>2. ASSUME NEW x \in HostMessages \cup Events \cup Calls \cup Samples \cup Queries,
               \/ HostMessage(x) \/ OnSomeipMessage(x) \/ Record(x) \/ OnEvent(x)
               \/ OnRpcCall(x) \/ SampleArrives(x) \/ on_zenoh_sample(x)
               \/ QueryArrives(x) \/ QueryReplies(x)
        PROVE  IInv'
    BY <2>2, OtherSteps
  <2> QED BY <1>2, <2>1, <2>2 DEF CallbackSteps, Arrivals, Messages
<1>3. CASE UNCHANGED vars
  <2>1. Aside
    BY <1>3 DEF vars, parts, bridge, Aside, lifecycle, IInv, Types
  <2> QED BY <2>1, AsideStep
<1> QED BY <1>1, <1>2, <1>3 DEF Next

\* Start and stop exclude each other whatever the number of threads that call
\* them: a gateway that says it runs, with nobody inside start() or stop(), has
\* its session, declarations, clients and, if configured, its transport.
THEOREM ZenohRunningIsComplete == Spec => []RunningIsComplete
<1>1. IInv => RunningIsComplete
  BY DEF IInv
<1> QED BY <1>1, InitInvariant, NextInvariant, PTL DEF Spec

\* The receive thread is never inside on_message_received of a transport that is
\* gone.
THEOREM ZenohReceiverHasTransport == Spec => []ReceiverHasTransport
<1>1. IInv => ReceiverHasTransport
  BY DEF IInv
<1> QED BY <1>1, InitInvariant, NextInvariant, PTL DEF Spec
=============================================================================
