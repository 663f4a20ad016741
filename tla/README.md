# A TLA+ model of the opensomeip gateways

This directory holds a TLA+ model of the gateways in `src/`: the shared base
class, the seven gateways that bridge SOME/IP to another middleware (MQTT, gRPC,
DDS, iceoryx2, Zenoh, D-Bus, ROS 2), their translators and the configuration
parsers. TLC checks the modules on small instances. TLAPS proves 28 theorems about
the base class and the seven gateways for all instances: every safety invariant and
action property that a run checks on them, and the safety part of every
refinement. `PROJECT.json` lists the components, the runs, the source lines behind
each definition, the hazards of the code, the findings and the theorems.

## The system

A *gateway* receives SOME/IP messages, looks its service up in a table of
*service mappings*, translates the message and gives it to the external
middleware, and does the reverse for what the middleware delivers. Every gateway
derives from `GatewayBase`, which owns the mapping table, the `running_` flag and
the statistics. The threads that meet in a gateway are

- the receive thread of the UDP transport, and the thread of the event subscriber;
- threads of the middleware (gRPC handlers, the DDS reader thread, Zenoh
  callbacks) or of the host (`poll_dbus`, `inject_…`, `flush_offline_buffer`);
- the host thread that calls `start()` and `stop()`.

The locks are small: `mappings_mutex_` and `callback_mutex_` in the base class, a
mutex for the sinks and hooks a host installs, one in the MQTT buffer and one in
the in-process bus, one per gRPC stream and one for the registry of streams. Only
the Zenoh gateway has a lock around its lifecycle.
Most of the questions below are about steps of two of these threads in an order
that no test of the repository produces.

### Inventory

| Part | State | Operations | What is hard |
|---|---|---|---|
| Gateway base | mapping vector, counters, `running_`, start time | add and find a mapping, record, `get_stats`, `set_running` | pointers that outlive the lock; relaxed counters copied one by one |
| MQTT gateway | ring buffer, `mqtt_connected_`, transport, event subscriber | `on_someip_message`, `publish_mqtt`, `flush_offline_buffer`, subscribe, `start`, `stop` | the buffer at its limit with several flushers; connection changes between test and push; restart |
| gRPC gateway | stream registry, a queue per stream, subscriptions, server, unary calls | `StreamSomeIpEvents`, `UnarySomeIp`, `on_evt`, broadcast, `start`, `stop` | delivery against cancellation and shutdown; streams that share an event group; calls `stop()` has to wait for |
| DDS gateway | participant, writer and reader maps, reader thread | `on_someip_message`, reader loop, `start`, `stop` | maps without a lock; failed starts; QoS of a cached writer |
| iceoryx2 gateway | clients, publishers, RPC servers, in-process bus, a process-wide set of event groups | staged `start` with rollback, `stop`, publish, injected samples | partial failure; state shared by all gateways of a process |
| Zenoh gateway | mutex, transport, RPC objects, session | `start`, `stop`, receive, publish, samples, queries | a join under a mutex; failed starts |
| D-Bus gateway | `enabled_`, `bus_`, objects, session counter | `start`, `stop`, switching D-Bus off, `poll_dbus`, signals, calls | one connection used by two threads; repeated `start` |
| ROS 2 gateway | node, publishers, subscriptions, session counter | `start`, `stop`, publish, inject | node released under its user; subscriptions nobody spins |
| Translators (common, and one per gateway) | none | messages to and from external messages, envelopes, samples, names, codes | lengths and numbers at their boundaries; the two ends of a bridge use different code; names the middleware refuses |
| Configuration | none | parsers and their inverses | numbers over 16 bits; texts told apart by a search |

## Modules

One step of a model is one access to shared state: an atomic load or store, a
critical section, or a call into an external library. Code between two such
accesses is folded into one of them. Definitions keep the names of the source
where they stand for one function, and the comment on each variable names the
member it models. Definitions introduced by a comment "Mutant" are deliberately
wrong variants; they are used by no specification and exist to show that each
property can fail.

| Module | Models | State and actions |
|---|---|---|
| `ServiceMappings` | mapping lookup and direction tests of `GatewayBase` | operators; a pointer into the vector is an index |
| `GatewayBase` | `common/src/gateway_base.cpp` and its header | the vector with its allocation; one action per counter increment and per counter copied; a load returns any value its reader may still see |
| `AtMostOnceChannel` | nothing in the code: the promise of store-and-forward publishing | accept, deliver, lose (only when more than `Capacity` messages are outstanding) |
| `CountingBridge` | nothing in the code: the promise of one direction of a gateway | items are forwarded at most once and only after they arrived; the counter runs behind (`Safety`) and catches up (`Spec`) |
| `MqttGateway` | `mqtt_gateway.cpp`, the direction to MQTT | receivers, flushers, controllers; the ring buffer as a sequence |
| `GrpcGateway` | event streams and unary calls of `grpc_gateway.cpp` | streams with their sinks; a unary call is what it waits for; server and event subscriber external. A stream is registered under the 32-bit ids of its request and subscribed under their lower 16 bits (`Group`) |
| `DdsGateway` | `dds_gateway.cpp` | receivers, reader thread, controller, matching of writers and readers; Cyclone DDS external |
| `Iceoryx2Gateway` | `iceoryx2_gateway.cpp` | one or more gateways of a process; start one object per step; a group is `asked` for, and `subscribed` only if the subscriber grants it |
| `ZenohGateway` | `zenoh_gateway.cpp` | `mutex_` with its owner; receive thread, host calls, events, samples, queries |
| `DbusGateway` | `dbus_gateway.cpp` | connections are numbered, so a leaked one can be told from the current one; the receive thread and the event subscriber's thread both emit; `HaveSystemd` is the build, `enabled` the switch of the tests |
| `Ros2Gateway` | `ros2_gateway.cpp`, built with rclcpp | nodes are numbered; a publisher remembers the node it was made for; creating a node, a subscription or a publisher may throw |
| `MessageTranslator` | `common/src/translator.cpp` | operators: messages, JSON text as the sequence of its values, topics as the sequence of their segments |
| `MqttTranslator`, `GrpcTranslator`, `DdsTranslator`, `Iceoryx2Translator`, `ZenohTranslator`, `DbusTranslator`, `Ros2Translator` | the translator of each gateway | operators over `MessageTranslator`; `DdsGateway`, `DbusGateway` and `Ros2Gateway` extend theirs, so the topics and names of a gateway are the translator's |
| `GatewayConfig` | `common/src/config.cpp` | operators |
| `GatewayBaseProofs`, `MqttGatewayProofs`, `GrpcGatewayProofs`, `DdsGatewayProofs`, `Iceoryx2GatewayProofs`, `ZenohGatewayProofs`, `DbusGatewayProofs`, `Ros2GatewayProofs` | – | lemmas and theorems |

`MCx` instantiates module `x` for TLC, and `MCTranslators` all the translators and
the configuration. `GatewayBase` models the shared state once, with all the
interleavings of its own operations. The gateway modules take the mapping table as
a constant, since hosts fill it before `start()`, and record a message in one step.
`MqttGateway` composes the gateway with the buffer and implements
`AtMostOnceChannel`; the DDS, D-Bus and ROS 2 gateways implement `CountingBridge`.

The SOME/IP stack, gRPC, Cyclone DDS, Zenoh, sd-bus and rclcpp are not part of the
repository. They are modelled from how the code uses them. The assumptions that
matter:

- stopping the UDP transport joins its receive thread;
- gRPC's `Shutdown` cancels the calls and waits for their handlers;
- the event subscriber drops a subscription by its key alone;
- `call_method_sync` returns after its timeout at the latest, and what it does when
  its client is deleted meanwhile is undefined;
- writing through a handle of a deleted DDS participant fails;
- closing a Zenoh session does not wait for callbacks that run.

The counters of the base class are incremented with `memory_order_relaxed`. An
increment is atomic, so none is lost; but another thread may see it late, and may see
the message counter and the byte counter in either order. In `GatewayBase` a load
therefore returns any value its counter has had, except one older than the reader
has seen already. Joining the handlers, as stopping a transport does, makes their
increments visible (`JoinHandlers`). Both directions are recorded alike, and one is
modelled.

## Runs

The number of distinct states is in brackets. Runs marked V are expected to be
violated: the property says what a document or a test of the repository says, and
the counterexample shows what the code does instead. Their entries under
"findings" quote the line.

| Run | Properties | What it shows |
|---|---|---|
| `GatewayBase` (1,296,768) | `SnapshotCoversJoined`, `PointerReadsFirstMatch`, `FirstMatchStable` | a snapshot counts all that was recorded before its reader joined the handlers, and nothing whose recording has not begun; a pointer that is still valid reads the first match; later mappings do not change a service's route |
| `MqttBridge` (206,784) | `TypeOK`, `BufferBounded`, `EachMessageOnce`, `LifecycleConsistent`, `StatsCountDirectPublishes`, `ImplementsChannel`, `FlushReturns` | UDP and event threads and two flushers on a buffer of one slot: no duplicate, no message in two places, refinement of the channel; only direct publishes are counted; a flush ends once the connection stays up |
| `GrpcStreams` (338,152) | `TypeOK`, `StreamIsFifo`, `FinishedIsForgotten`, `StreamsOnlyWhileServing`, `CancelledStreamEnds`, `StopReturns` | a client reads what its queue accepted, in order; nothing refers to a finished stream; streams and calls live only while the server does; cancelled streams end; `stop()` returns if the cloud targets answer the calls it waits for |
| `DdsBridge` (674,837) | `ReaderThreadOwned`, `RpcReliableUnlessShared`, `EchoOnlyOnNamedTopics`, `ImplementsBridge`, `StopReturns` | the reader thread never outlives its participant; on default topics only a fire-and-forget call or a segment, of the same method, makes a request unreliable; the gateway hears itself only on a named topic that some mapping brings in, and only through a reliable writer; what was written is counted in the end; `stop()` returns |
| `Iceoryx2Single` (734,916) | `StoppedIsReleased`, `GroupsSubscribedOnce`, `BusBounded`, `EventsForwardedOnce` | rollback is complete at every failing stage; each group is asked for once, whether or not the subscriber grants it; an event of a group that two mappings list is handed on once; the bus holds at most `kMaxDepth` samples |
| `ZenohBridge` (1,224,720) | `RunningIsComplete`, `ReceiverHasTransport` | two controllers: a running gateway has all its parts; the transport outlives the callback |
| `ZenohStopUdp` V | `StopReturns` | `stop()` can wait for ever: it joins a thread that waits for the mutex it holds |
| `DbusBridge` (2,694,838) | `BusUsedWhileOpen`, `OneConnection`, `ImplementsBridge` | joining both threads before closing is enough; no connection is left behind; with D-Bus on, a message is counted if, and in the end when, its signal went out |
| `DbusNames` V | `MappedIsEmitted` | a service whose id starts with a decimal digit has an interface name that sd-bus refuses |
| `Ros2Bridge` (245,704) | `PublishersAreCurrent`, `ImplementsBridge` | publishers belong to the current node across restarts and failed starts; in both directions each item crosses at most once, and those that crossed are counted |
| `Translators` (168,506) | `CborRoundTrip`, `KeysRoundTrip`, `CrossingIsStable`, `UnaryFailureVisible`, `SampleAllOrNothing`, `MessageCrosses`, `NamesIdentify`, `ConfigRoundTrip` | decoding inverts encoding in each format, for CBOR below 24 bytes; keys are read back under empty prefixes and prefixes with empty segments; an iceoryx2 sample cut at any byte is refused; names of different addresses differ; every code and every path of a unary gRPC call; numbers as text with spaces, signs and more digits than fit |
| `ZenohLongPayload` V | `CborRoundTrip` | from 24 bytes on, decoding does not invert encoding |

### What the counting bridges leave out

`ImplementsBridge` compares the counters with what crossed. The D-Bus and ROS 2
gateways count more than that, and the refinement mapping subtracts it:

- The D-Bus gateway counts a message although no signal is emitted, when D-Bus is
  switched off or the build has no sd-bus. `test_dbus_gateway.cpp:75` counts a message
  with D-Bus off, so this is meant. The model keeps those counts apart in `off`. With
  D-Bus on, each counted message was signalled.
- The ROS 2 gateway counts a message when there is neither a node nor a
  `ros2_publish_callback_`, and a request when there is no sink, or when
  `call_method_sync` failed. The model keeps them apart in `missed`. That the last ones
  are not counted as errors is `FailuresCounted` below.
- The D-Bus gateway counts requests towards SOME/IP before it looks for a sink; that
  direction is not compared.

### Known disagreements

The modules also state properties that the repository's documents suggest and the
code does not satisfy. They are not part of the runs. TLC refutes each one when it
replaces the properties of the configuration named here, with the change in
brackets.

| Property | Configuration | What the code does |
|---|---|---|
| `PointerValid` | `GatewayBase` | `find_mapping_for_service` returns a pointer that is used after the lock is released; adding a mapping can reallocate the vector |
| `SnapshotConsistent` | `GatewayBase` | a snapshot can hold a message without its bytes; `gateway-architecture.md:120` speaks of a mutex for the statistics |
| `FlushedOnConnect` | `MqttBridge` | nothing reads `flush_offline_on_connect`; `mqtt_gateway.h:132` says the flush is automatic |
| `SubscriptionsLive` | `MqttBridge` | a restarted gateway keeps an event subscriber that was shut down |
| `LifecycleConsistent` | `MqttBridge` [two controllers] | start and stop have no lock (`CODING_GUIDELINES.md:65` says they have); one overtakes the other |
| `OpenStreamsSubscribed` | `GrpcStreams` | the first of two streams of an event group to close unsubscribes the group |
| `StopAlwaysReturns` | `GrpcStreams` | `UnarySomeIp` calls a cloud target without a deadline and does not look at its own context, so `Shutdown` may wait for ever |
| `DocumentedMapping` | `Translators` | `E_NOT_READY` becomes `FAILED_PRECONDITION`; the gRPC README says `UNAVAILABLE` |
| `RpcIsReliable` | `DdsBridge` | a topic's writer keeps the QoS of its first message; the DDS README says that RPC is reliable |
| `RunningHasParticipant` | `DdsBridge` | a failed participant is negative, and the retry takes it for a live one |
| `WritersAreCurrent` | `DdsBridge` | a message that races `stop()` leaves a writer of the deleted participant |
| `GroupsSubscribedOnce` | `Iceoryx2Single` [two gateways, no inputs] | the set of subscribed groups is shared by the process |
| `EventsForwardedOnce` | `Iceoryx2Single` [two gateways, events only] | the start of one gateway clears the set between two mappings of the other, which subscribes their group twice |
| `ClientOutlivesCalls` | `Iceoryx2Single` | `stop()` deletes the RPC client under a call that another thread makes with it |
| `NothingDroppedSilently` | `Iceoryx2Single` [`FallbackEnvelopes`] | a notification without a publisher is neither forwarded nor counted |
| `CountedWasPublished` | `ZenohBridge` | `on_someip_message` counts a message also when there is no session to publish on |
| `OutboundEventsSubscribed` | `ZenohBridge` | events are subscribed only for mappings that forward to SOME/IP |
| `DocumentedKeys` | `Translators` | keys have another shape than the Zenoh README's |
| `BusExclusive` | `DbusBridge` | `poll_dbus` and the receive thread use one sd-bus connection at the same time |
| `OneConnection` | `DbusBridge` [`StartsWhileRunning = TRUE`] | `start()` on a running gateway opens a second connection; the gRPC, DDS, iceoryx2 and Zenoh gateways return at once |
| `NoUseAfterRelease` | `Ros2Bridge` | `stop()` releases the node before it joins the receive thread |
| `DefaultTopicsPublish` | `Ros2Bridge` | the default topic has segments that start with a digit, which rclcpp refuses with an exception; `gateway-ros2/README.md:38` documents that shape |
| `SubscribedAreInjected` | `Ros2Bridge` | no executor spins the node, so no subscription callback runs |
| `TelemetryNotGated` | `Ros2Bridge` [`CommandFirst`] | the first mapping of a service decides, whatever its direction |
| `FailuresCounted` | `Ros2Bridge` | the result of a synchronous call is discarded, and a request that reached nobody is counted as forwarded |

### Bounds

- Messages, calls and samples are finite sets, and each enters once. A handler's
  behaviour depends on a message only through the fields of its record. The
  instances have one message per early return, and enough forwarded ones to fill
  and overflow a buffer (`Capacity` 1 with two forwarded
  messages; `kMaxDepth` 2).
- `Batches` of `DdsGateway` are the sets of messages that arrive together: an event
  and a call on a named topic, the same on the default topics, and two calls of one
  method of which one expects no answer. These are the pairs that can share a writer.
  Two of its mappings, one per direction, name the same topic, which is how the
  gateway can hear itself without a bidirectional mapping.
- One or two threads of each kind: each race in the hazards list is between two.
- `SessionMod` is 2 instead of 2^16, so that the counter wraps; the properties do
  not depend on its value.
- `MaxConnections` and `MaxNodes` are 2: one restart suffices to meet what an
  earlier run left. In `GatewayBase`, `MaxMappings` is 4, so that the vector moves
  three times and also grows without moving; `MaxRecords` is 2, one for each handler
  or both for one; `MaxStarts` is 1.
- `BusFaults` lets every sd-bus call fail. It is FALSE in `DbusNames` only, where
  nothing but the name makes a call fail.
- `MaxSwitches` is 1 in `DbusBridge`: D-Bus is on at first and is
  switched off at most once, before, between or after the steps of other threads. `HaveSystemd` is TRUE; without it D-Bus is always off.
- `HasTransport` is TRUE in `MqttBridge`, where the host has enabled the UDP bridge.
- The two streams of `GrpcStreams` name one event group by ids that differ above the
  sixteenth bit, so they are registered apart and subscribed together.
- `StartsWhileRunning` lets the host call `start()` on a running gateway. It is FALSE
  in the runs: what happens otherwise is listed above.
- Identifiers and lengths of the translators sit on both sides of each boundary of
  the format: 23/24, 255/256, 65535. `MaxPayload` is 8 instead of 16 MiB, with
  payloads on both sides of it.
- Handlers are symmetric in `GatewayBase`, controllers in `ZenohBridge`. No liveness run uses symmetry.
- Deadlock is not checked in the Zenoh runs where `stop()` can block for ever,
  which is what `ZenohStopUdp` shows, nor in the runs of `MCTranslators`, which
  end when the input is handled.

### Fairness

Liveness is checked under weak fairness of threads that are inside a call: a
thread that can take its next step takes it. Nothing is assumed about the
environment: no message need arrive, no host call need be made, the MQTT
connection need not come up (`FlushReturns` has that as its premise). That the
counter of `CountingBridge` catches up (`WF(Count)`) follows from fairness of the
steps that record a message: they come right after the forwarding call, without a
wait. Waits in the code are joins, mutexes,
timed waits and calls. A gRPC stream waits at most 250 ms
before it looks at its context again, so its step is always enabled. A call on the
vehicle times out, so its answer is fair; a cloud target need not answer, and
`StopReturns` of `GrpcStreams` has that as its premise. `ZenohStopUdp`
is violated by a circular wait, in which no thread of the cycle is enabled, so no
stronger fairness would help.

## Proofs

Each theorem holds for every value of the constants that satisfies the assumptions
of the module. TLC evaluates the assumptions in the runs, and it finds the inductive
invariants true on the instances of the runs.

| Module | Theorems | Inductive invariant, and why it is needed |
|---|---|---|
| `GatewayBaseProofs` | `BaseFirstMatchStable`, `BasePointerReadsFirstMatch`, `BaseSnapshotCoversJoined` | `PointsToFirst`: the first match of a handler stays the first, also where its pointer has become invalid. `Counting`: the message counter is ahead of what has ended by the messages in flight, and no earlier value of the byte counter is above its present one. `Copying`: a reader has seen at least what it joined and at most what there is |
| `MqttGatewayProofs` | `MqttTypeCorrect`, `MqttBufferBounded`, `MqttEachMessageOnce` | `HandsFull`: a thread between `publish` and `push` holds a message, so what it publishes is known. `AllArrived`: all messages in the system have arrived, so a new arrival is nowhere in it |
| | `MqttImplementsChannel` | the same invariant; a buffer without repetitions that is full, and the message about to be pushed, are more than `Capacity` outstanding messages, which is when the channel may lose one |
| | `MqttLifecycleConsistent`, `MqttStatsCountDirectPublishes` | `ControllerPhase`: inside `start()` the transport, if there is one, is up before `running_` is set, inside `stop()` it is down before `running_` is cleared. The counter is what receivers published themselves (`Direct`) but for those still `Recording`; a flush adds to neither |
| `GrpcGatewayProofs` | `GrpcTypeCorrect`, `GrpcStreamIsFifo`, `GrpcFinishedIsForgotten` | `FrameInHand`: a stream holds a frame exactly while it is about to write it. `Forgotten`: how far a closing stream has been taken out of the subscriber and the registry |
| | `GrpcStreamsOnlyWhileServing` | `Phases`: which parts are up at each step of `start()`, and that nothing can dispatch a call once `stop()` has joined the handlers, those of unary calls included |
| `DdsGatewayProofs` | `DdsReaderThreadOwned` | `ThreadInv`: outside `stop()` a live participant has a reader thread that was not told to stop; from the join on there is none |
| | `DdsRpcReliableUnlessShared` | `Provenance`: each writer, in the map or in a receiver's hand, was created for some message of its topic. `Once`: a message is in one hand or written once. Different services and methods have different default topics, since the four hexadecimal digits of a 16-bit number identify it (`HexIdentifies`) |
| | `DdsEchoOnlyOnNamedTopics` | `InInv`: readers are on inbound topics only, and what a history holds is either another participant's sample or a message that was echoed |
| | `DdsBridgeSafety` | `CountInv`: the counter is what was written but for the receivers that have not recorded yet |
| `Iceoryx2GatewayProofs` | `Iceoryx2StoppedIsReleased`, `Iceoryx2GroupsSubscribedOnce` | `LifecycleOK`: `running_` is clear throughout `start()` and `stop()`. `SetMirrorsGroups`: the groups in the process-wide set are those the gateway has asked for, each for one mapping. `Progress`: the mappings that `start()` has passed have their groups in the set |
| | `Iceoryx2BusBounded` | `OnlySent`: a sample is pushed after the hook was given it, so one that was not sent is neither on the bus nor about to be pushed |
| | `Iceoryx2EventsForwardedOnce` | `SetMirrorsGroups` again: the callbacks of a group are those of one mapping. `Unsent`: an input that was not handled has sent nothing. `SentOnce`: none is sent twice |
| `ZenohGatewayProofs` | `ZenohRunningIsComplete`, `ZenohReceiverHasTransport` | `Exclusion`: who is inside `start()` or `stop()` owns `mutex_`. `Stages`: what each stage of `start()` has built. `Closing`: a closing transport has a `stop()` that joins it. `Receiver`: past the lock, the receive thread owns it |
| `DbusGatewayProofs` | `DbusBusUsedWhileOpen`, `DbusOneConnection` | `Joined`: behind each join of `stop()` no thread is left, and none enters. `BusIsOpen`: the connection in `bus_` is open. `Exclusive`: a gateway that is stopped, or whose start failed, has no connection |
| | `DbusBridgeSafety` | `Connected`: where the gateway was started with D-Bus on, a message that is about to be signalled meets a connection, so that branch of `emit_signal` which succeeds without one is never taken. `BridgeInv`: a message is in one hand or signalled once, and the counter is late by the listeners that have not counted |
| `Ros2GatewayProofs` | `Ros2PublishersAreCurrent` | `NodeInv`: no receiver is inside `on_someip_message` while `running_` is clear, so none adds to `pubs_` between the time `start()` clears it and the end of `start()`; later it gets publishers of the new node only |
| | `Ros2BridgeSafety` | `FlowInv`: `Flow`, stated once for items, hands and a counter, holds of both directions; the counter is that of the gateway less what reached nobody |

The proofs have the same layers: facts about the data (sequences without
repetitions, the first match in a vector, finite sets), one lemma per kind of step,
the initial states and the next-state relation, and the theorems. Those about
`CountingBridge` show that every step is a step of `Outbound!Next` (for ROS 2 also of
`Inbound!Next`), in which what was forwarded grows by one item that arrived and was
not forwarded before, and the counter stays at or below it.

Assumptions. Threads have one role each in the base class and the MQTT and D-Bus
gateways, and are finitely many wherever a counter is compared with them. Payload sizes of the base
class are natural numbers. MQTT: the capacity is at least 1, since the code pops from an empty deque when it is 0; the empty item is no
message; each receiver has a source. gRPC: the empty frame is no notification, and
streams name groups by natural numbers. Zenoh:
inputs of the receive thread are nobody else's. DDS: service, instance and method ids
have 16 bits, and the id of a message or sample names it. iceoryx2: the mappings are
well typed, `kMaxDepth` is at least 1, and the id of an input names it.

Five theorems have a hypothesis on how the gateway is used; without it the statement
is false, as Known disagreements shows for all but the last:

- `MqttLifecycleConsistent`: one controller (`OneController`);
- `Iceoryx2GroupsSubscribedOnce` and `Iceoryx2EventsForwardedOnce`: one gateway in the
  process (`OneGateway`);
- `DbusOneConnection`: the host does not start a running gateway (`~StartsWhileRunning`);
- `Ros2PublishersAreCurrent`: the same. A second `start()` leaves the old node in place
  while it clears the publishers, so a receiver can add one of that node.

The proof of `EchoOnlyOnNamedTopics` corrected the property. It used to say that the
mapping of an echoed message is bidirectional. Two mappings of opposite directions
with the same topic name refute that, and the instance now has such a pair.

Only model-checked:

- the liveness properties `FlushReturns`, `CancelledStreamEnds`, the two
  `StopReturns`, and the fairness part of `CountingBridge` in the three
  `ImplementsBridge` (fairness and `ENABLED` are beyond the prover);
- the properties of the `Translators` run. They are about values of a few encodings
  and tables of codes, which TLC enumerates on both sides of each boundary. The CBOR
  decoder is a fold over its input, and what a fold computes for every input takes an
  induction over data, which is beyond the prover. Of the names only those of DDS are
  proved to identify their address, in `DefaultTopicsIdentify`.

## Not modelled

- Code without a caller: `handle_inbound_mqtt_command`, `select_qos` of the MQTT
  translator, `decode_inbound` of the DDS translator. MQTT reconnection:
  `current_backoff_` is set and never read, and no client library is linked.
- Text: introspection XML of D-Bus, the spelling of JSON, log and status messages.
  JSON and topics are modelled by the sequence of their values and segments.
- `normalize_namespace` and `qos_for_someip_transport` of the ROS 2 translator: the
  namespace is a constant that is already normalized, and rclcpp's QoS has no effect
  on the properties.
- Zenoh liveliness, which changes no state of the gateway; credentials and channels
  to cloud targets of gRPC; the event subscribers of the DDS and ROS 2 gateways,
  which call the same handler as the receivers; functions that only store a pointer.
- Replacing the external callback while it is used: `set_external_message_callback`
  takes `callback_mutex_`, and the D-Bus gateway reads the callback without it
  (`dbus_gateway.cpp:418`). What a call through a half-replaced `std::function` does
  is up to the standard library.
- The D-Bus payload passes through variadic arguments; only whether sd-bus accepts
  the call is modelled.
- Reading `started_at` while `set_running` writes it: it is one word, and the model
  copies it in one step.
- The example programs, and what hooks, callbacks and hosts do beyond calling the
  gateway.

Observations made while modelling that are behaviour rather than disagreement with
a document:

- A DDS reader on a default topic (`.../m/...`) never matches a writer of a default
  topic (`.../event/...`, `.../method/...`), and readers are always reliable, so
  best-effort notifications never match them either.
- `ensure_topic` caches a failed or deleted topic handle; no writer can be created
  for that name until `stop()` clears the cache.
- DDS `decode_inbound` expects a SOME/IP frame, `encode_outbound` sends the payload.
- The RAW and JSON encodings of MQTT carry no ids: decoding gives service 0 and
  method 0.
- The iceoryx2 serializer has no limit on a payload, the parser has one of 16 MiB.
- Segments of long messages have types of their own. The Zenoh translator and the
  D-Bus gateway treat `TP_NOTIFICATION` as `NOTIFICATION`; the common translator and
  the DDS translator do not, so the DDS gateway writes such a segment to the topic of a
  method.
- A host thread that calls `on_someip_message` itself is not joined by `stop()`. The
  theorems about the end of `stop()` are about the receive thread and the event
  subscriber's.
- An iceoryx2 gateway does not look at the result of `subscribe_eventgroup`. A group
  that was refused stays in the set and is not asked for again before the next start.
- The event subscribers of the MQTT and D-Bus gateways are not created again after
  they were shut down.
