----------------------------- MODULE Ros2Gateway -----------------------------
(***************************************************************************)
(* Ros2Gateway and its Ros2GatewayImpl, built with rclcpp: start and stop  *)
(* on a controller thread, on_someip_message on receiver threads, which    *)
(* find or create a ROS publisher per topic, and inject_ros2_message on    *)
(* injector threads.  node_ and pubs_ have no lock.  External: the SOME/IP *)
(* clients, and rclcpp, which may throw when a node or a subscription is   *)
(* made and throws on a topic that is not valid.  A message that no        *)
(* callback takes, and a request that reaches nobody, are counted all the  *)
(* same; the model keeps them apart.                                       *)
(***************************************************************************)
EXTENDS Ros2Translator, ServiceMappings, FiniteSets

CONSTANTS Receivers,            \* threads of udp_transport_
          Injectors,            \* threads that call inject_ros2_message
          Messages,             \* [id, service, method]; each arrives once
          Samples,              \* [id, topic]; each is published to ROS, or injected, once
          Mappings,             \* service_mappings_, with the external topic
          DefaultInstance,      \* default_someip_instance_id
          UseE2e,               \* use_e2e, with an e2e_config
          SessionMod,           \* 2^16 in the code
          MaxNodes,             \* bound on the nodes that are created
          StartsWhileRunning    \* the host may call start() on a running gateway

ASSUME BoundsAssumption ==
  /\ SessionMod \in Nat \ {0}
  /\ MaxNodes \in Nat
  /\ UseE2e \in BOOLEAN /\ StartsWhileRunning \in BOOLEAN

VARIABLES running,     \* running_
          udp,         \* udp_transport_ is started
          node,        \* node_: the number of a node, 0 for null
          nodes,       \* nodes created so far
          pubs,        \* pubs_: topic -> the node its publisher was made for, 0 if absent
          subs,        \* the topics of subs_
          control,     \* the step of the controller
          session,     \* the static session counter
          item,        \* the message or sample each thread works on
          handle,      \* the publisher each receiver found
          arrived,     \* messages and samples that have entered the gateway
          queued,      \* samples waiting in the subscriptions
          gated,       \* messages whose mapping does not forward to ROS
          published,   \* [msg, via]: via the node or ros2_publish_callback_
          sent,        \* samples whose requests reached SOME/IP
          stats,       \* the message counters
          missed,      \* of the counted messages and requests, those that reached nobody
          pc           \* the step of each thread

ros == <<node, nodes, pubs, subs>>
outbound == <<handle, gated, published>>
inbound == <<session, queued, sent>>
counters == <<stats, missed>>
vars == <<running, udp, control, ros, outbound, inbound, item, arrived, counters, pc>>

Threads == Receivers \cup Injectors

ASSUME ThreadsAssumption == IsFiniteSet(Threads)

none == [id |-> 0]
Goto(t, label) == pc' = [pc EXCEPT ![t] = label]

-----------------------------------------------------------------------------
(* Routing.                                                                *)

MappingFor(m) ==
  LET primary == find_mapping_for_service(Mappings, m.service, DefaultInstance)
  IN  IF primary # 0 THEN primary
                     ELSE find_mapping_for_service(Mappings, m.service, 1)

route_someip_to_ros2_topic(m, mapping) ==
  IF mapping.external # <<>> THEN mapping.external
  ELSE build_ros2_topic(mapping.service, mapping.instance, m.method)

\* The mapping whose identifier is the topic, or a prefix of it that ends at a '/'.
find_mapping_by_ros_topic(topic) ==
  find_mapping_if(Mappings,
    {m \in ToSet(Mappings) : \/ m.external = topic
                             \/ m.external # <<>> /\ IsPrefix(m.external, topic)})

TopicOf(r) == route_someip_to_ros2_topic(item[r], Mappings[MappingFor(item[r])])

Topics ==
  {route_someip_to_ros2_topic(m, Mappings[MappingFor(m)]) : m \in {n \in Messages : MappingFor(n) # 0}}

InboundTopics ==
  {Mappings[i].external : i \in {j \in DOMAIN Mappings :
     should_forward_to_someip(Mappings[j]) /\ Mappings[j].external # <<>>}}

-----------------------------------------------------------------------------
(* start().                                                                *)

\* The transport, if there is one, may fail to start.
StartUdp ==
  /\ control = "idle"
  /\ running => StartsWhileRunning
  /\ nodes < MaxNodes
  /\ \/ udp' = TRUE /\ control' = "clear_pubs"
     \/ UNCHANGED udp /\ control' = "clear_pubs"
     \/ UNCHANGED <<udp, control>>
  /\ UNCHANGED <<running, ros, outbound, inbound, item, arrived, counters, pc>>

\* Mutant: the publishers are kept.
StartKeepPubs ==
  /\ control = "clear_pubs"
  /\ subs' = {} /\ queued' = {}
  /\ control' = "make_node"
  /\ UNCHANGED <<running, udp, node, nodes, pubs, outbound, session, sent, item, arrived,
                 counters, pc>>

\* The SOME/IP clients come up, then Ros2GatewayImpl::start clears its maps.
StartClear ==
  /\ control = "clear_pubs"
  /\ subs' = {} /\ queued' = {}
  /\ pubs' = [t \in Topics |-> 0]
  /\ control' = "make_node"
  /\ UNCHANGED <<running, udp, node, nodes, outbound, session, sent, item, arrived, counters, pc>>

\* The old node is released; a new one is made unless rclcpp is shut down.  What the
\* Node constructor or create_subscription throws leaves start() half-way.
StartNode ==
  /\ control = "make_node"
  /\ \/ /\ nodes' = nodes + 1
        /\ node' = nodes + 1
        /\ \/ subs' = InboundTopics /\ control' = "set_running"
           \/ /\ \E made \in SUBSET InboundTopics : made # InboundTopics /\ subs' = made
              /\ control' = "idle"
     \/ /\ node' = 0
        /\ control' \in {"set_running", "idle"}
        /\ UNCHANGED <<nodes, subs>>
  /\ UNCHANGED <<running, udp, pubs, outbound, inbound, item, arrived, counters, pc>>

StartRunning ==
  /\ control = "set_running"
  /\ running' = TRUE
  /\ control' = "idle"
  /\ UNCHANGED <<udp, ros, outbound, inbound, item, arrived, counters, pc>>

-----------------------------------------------------------------------------
(* stop().                                                                 *)

\* Ros2GatewayImpl::stop clears the maps, then releases the node.
StopClear ==
  /\ control = "idle"
  /\ subs' = {}
  /\ pubs' = [t \in Topics |-> 0]
  /\ queued' = {}
  /\ control' = "release_node"
  /\ UNCHANGED <<running, udp, node, nodes, outbound, session, sent, item, arrived, counters, pc>>

StopNode ==
  /\ control = "release_node"
  /\ node' = 0
  /\ control' = "stop_udp"
  /\ UNCHANGED <<running, udp, nodes, pubs, subs, outbound, inbound, item, arrived, counters, pc>>

\* The SOME/IP clients shut down, then the receive thread is joined.
StopUdp ==
  /\ control = "stop_udp"
  /\ \A r \in Receivers : pc[r] \in {"idle", "crashed", "thrown"}
  /\ udp' = FALSE
  /\ control' = "clear_running"
  /\ UNCHANGED <<running, ros, outbound, inbound, item, arrived, counters, pc>>

StopRunning ==
  /\ control = "clear_running"
  /\ running' = FALSE
  /\ control' = "idle"
  /\ UNCHANGED <<udp, ros, outbound, inbound, item, arrived, counters, pc>>

-----------------------------------------------------------------------------
(* on_someip_message and Ros2GatewayImpl::publish.                         *)

\* E2E validation, where it is configured, may refuse a message.
OnSomeipMessage(r, m) ==
  /\ pc[r] = "idle"
  /\ udp
  /\ m \notin arrived
  /\ arrived' = arrived \cup {m}
  /\ LET routed == running /\ MappingFor(m) # 0
         forwards == routed /\ should_forward_to_external(Mappings[MappingFor(m)])
     IN  \/ /\ ~forwards
            /\ gated' = IF routed THEN gated \cup {m} ELSE gated
            /\ UNCHANGED <<item, counters, pc>>
         \/ /\ forwards
            /\ item' = [item EXCEPT ![r] = m]
            /\ Goto(r, "check")
            /\ UNCHANGED <<gated, counters>>
         \/ /\ forwards /\ UseE2e
            /\ stats' = [stats EXCEPT !.errors = @ + 1]
            /\ UNCHANGED <<missed, gated, item, pc>>
  /\ UNCHANGED <<running, udp, control, ros, handle, published, inbound>>

CheckNode(r) ==
  /\ pc[r] = "check"
  /\ Goto(r, IF node # 0 THEN "find" ELSE "emit")
  /\ UNCHANGED <<running, udp, control, ros, outbound, inbound, item, arrived, counters>>

\* The map is searched; if the topic is not there a publisher is made through node_,
\* which may have been released meanwhile.  Nothing catches what create_publisher throws.
FindPublisher(r) ==
  /\ pc[r] = "find"
  /\ \/ /\ pubs[TopicOf(r)] # 0
        /\ handle' = [handle EXCEPT ![r] = pubs[TopicOf(r)]]
        /\ Goto(r, "publish")
     \/ /\ pubs[TopicOf(r)] = 0 /\ node # 0 /\ TopicIsValid(TopicOf(r))
        /\ handle' = [handle EXCEPT ![r] = node]
        /\ Goto(r, "insert")
     \/ /\ pubs[TopicOf(r)] = 0 /\ node # 0 /\ ~TopicIsValid(TopicOf(r))
        /\ Goto(r, "thrown")
        /\ UNCHANGED handle
     \/ /\ pubs[TopicOf(r)] = 0 /\ node = 0
        /\ Goto(r, "crashed")
        /\ UNCHANGED handle
  /\ UNCHANGED <<running, udp, control, ros, gated, published, inbound, item, arrived, counters>>

\* insert leaves an entry that another thread added alone.
InsertPublisher(r) ==
  /\ pc[r] = "insert"
  /\ LET found == pubs[TopicOf(r)]
         entry == IF found = 0 THEN handle[r] ELSE found
     IN  /\ pubs' = [pubs EXCEPT ![TopicOf(r)] = entry]
         /\ handle' = [handle EXCEPT ![r] = entry]
  /\ Goto(r, "publish")
  /\ UNCHANGED <<running, udp, control, node, nodes, subs, gated, published, inbound, item,
                 arrived, counters>>

HandOver(r, via) ==
  /\ published' = Append(published, [msg |-> item[r], via |-> via])
  /\ Goto(r, "record")

\* The iterator is used after the lookup; clearing pubs_ invalidates it.
Publish(r) ==
  /\ pc[r] = "publish"
  /\ \/ HandOver(r, "node")
     \/ /\ pubs[TopicOf(r)] # handle[r]
        /\ Goto(r, "crashed")
        /\ UNCHANGED published
  /\ UNCHANGED <<running, udp, control, ros, handle, gated, inbound, item, arrived, counters>>

\* ros2_publish_callback_, if one is installed, under sink_mutex_.
emit_ros2_publish(r) ==
  /\ pc[r] = "emit"
  /\ \/ HandOver(r, "callback")
     \/ Goto(r, "unheard") /\ UNCHANGED published
  /\ UNCHANGED <<running, udp, control, ros, handle, gated, inbound, item, arrived, counters>>

\* on_someip_message counts the message, published or not, and returns.
Returns(r, count) ==
  /\ pc[r] \in {"record", "unheard"}
  /\ stats' = [stats EXCEPT !.to_external = @ + count]
  /\ missed' = IF pc[r] = "unheard" THEN [missed EXCEPT !.to_external = @ + count] ELSE missed
  /\ Goto(r, "idle")
  /\ item' = [item EXCEPT ![r] = none] /\ handle' = [handle EXCEPT ![r] = 0]
  /\ UNCHANGED <<running, udp, control, ros, gated, published, inbound, arrived>>

\* Mutant: the node's own path returns without being counted.
RecordFallbackOnly(r) == Returns(r, IF node = 0 THEN 1 ELSE 0)

Record(r) == Returns(r, 1)

-----------------------------------------------------------------------------
(* Samples of ROS, and inject_ros2_message.                                *)

\* A sample waits in the subscription until an executor spins node_.
SampleArrives(x) ==
  /\ x \notin arrived
  /\ x.topic \in subs
  /\ arrived' = arrived \cup {x}
  /\ queued' = queued \cup {x}
  /\ UNCHANGED <<running, udp, control, ros, outbound, session, sent, item, counters, pc>>

InjectRos2Message(t, x) ==
  /\ pc[t] = "idle"
  /\ x \notin arrived
  /\ arrived' = arrived \cup {x}
  /\ LET i == find_mapping_by_ros_topic(x.topic)
     IN  IF running /\ i # 0 /\ should_forward_to_someip(Mappings[i])
         THEN /\ item' = [item EXCEPT ![t] = x]
              /\ session' = (session + 1) % SessionMod
              /\ Goto(t, "send")
         ELSE UNCHANGED <<item, session, pc>>
  /\ UNCHANGED <<running, udp, control, ros, outbound, queued, sent, counters>>

\* call_method_sync, whose result is ignored, or the sink, if one is installed, under
\* sink_mutex_: the request may reach nobody.
SendRequest(t) ==
  /\ pc[t] = "send"
  /\ \/ sent' = Append(sent, item[t]) /\ Goto(t, "count")
     \/ UNCHANGED sent /\ Goto(t, "lost")
  /\ UNCHANGED <<running, udp, control, ros, outbound, session, queued, item, arrived, counters>>

CountRequest(t) ==
  /\ pc[t] \in {"count", "lost"}
  /\ stats' = [stats EXCEPT !.to_someip = @ + 1]
  /\ missed' = IF pc[t] = "lost" THEN [missed EXCEPT !.to_someip = @ + 1] ELSE missed
  /\ Goto(t, "idle") /\ item' = [item EXCEPT ![t] = none]
  /\ UNCHANGED <<running, udp, control, ros, outbound, inbound, arrived>>

-----------------------------------------------------------------------------
Init ==
  /\ running = FALSE /\ udp = FALSE /\ control = "idle"
  /\ node = 0 /\ nodes = 0 /\ pubs = [t \in Topics |-> 0] /\ subs = {}
  /\ session = 1 % SessionMod
  /\ item = [t \in Threads |-> none]
  /\ handle = [r \in Receivers |-> 0]
  /\ arrived = {} /\ queued = {} /\ gated = {}
  /\ published = <<>> /\ sent = <<>>
  /\ stats = [to_external |-> 0, to_someip |-> 0, errors |-> 0]
  /\ missed = [to_external |-> 0, to_someip |-> 0]
  /\ pc = [t \in Threads |-> "idle"]

Handle(r) ==
  \/ CheckNode(r) \/ FindPublisher(r) \/ InsertPublisher(r) \/ Publish(r)
  \/ emit_ros2_publish(r) \/ Record(r)
Inject(t) == SendRequest(t) \/ CountRequest(t)

Next ==
  \/ StartUdp \/ StartClear \/ StartNode \/ StartRunning
  \/ StopClear \/ StopNode \/ StopUdp \/ StopRunning
  \/ \E r \in Receivers, m \in Messages : OnSomeipMessage(r, m)
  \/ \E r \in Receivers : Handle(r)
  \/ \E x \in Samples : SampleArrives(x)
  \/ \E t \in Injectors, x \in Samples : InjectRos2Message(t, x)
  \/ \E t \in Injectors : Inject(t)

Spec == Init /\ [][Next]_vars

\* A thread inside a call keeps running; nobody has to call the gateway.
Fairness ==
  /\ \A r \in Receivers : WF_vars(Handle(r))
  /\ \A t \in Injectors : WF_vars(Inject(t))

FairSpec == Spec /\ Fairness
-----------------------------------------------------------------------------
(* Correctness.                                                            *)

\* A running gateway publishes through its current node: a publisher that a late
\* message added while stop() was clearing pubs_ does not survive the next start.
PublishersAreCurrent ==
  running /\ control = "idle" => \A t \in Topics : pubs[t] \in {0, node}

\* Both directions do what CountingBridge says: each item crosses at most once,
\* and is counted in the end, whichever of the two paths it took and however a
\* stop interleaves.  What the gateway counts although it reached nobody, because no
\* callback or sink is installed or the call failed, is set apart.
Outbound == INSTANCE CountingBridge WITH
  Items <- Messages, arrived <- arrived \cap Messages,
  forwarded <- [i \in DOMAIN published |-> published[i].msg],
  counted <- stats.to_external - missed.to_external
Inbound == INSTANCE CountingBridge WITH
  Items <- Samples, arrived <- arrived \cap Samples, forwarded <- sent,
  counted <- stats.to_someip - missed.to_someip
ImplementsBridge == Outbound!Spec /\ Inbound!Spec

\* "Default ROS topic shape is {namespace}/{topic_prefix}/{service_hex}/...": a
\* message of a mapping without a topic of its own can be published.
DefaultTopicsPublish == \A r \in Receivers : pc[r] # "thrown"

\* "Thread safety is ensured": no message uses the node or a publisher after
\* stop() released it.
NoUseAfterRelease == \A r \in Receivers : pc[r] # "crashed"

\* "ROS subscriptions (when rclcpp is enabled) call inject_ros2_message()".
SubscribedAreInjected == \A x \in Samples : x \in queued ~> x \notin queued

\* "Use SOMEIP_TO_EXTERNAL for telemetry and EXTERNAL_TO_SOMEIP ... for commands":
\* telemetry is not held back by a mapping for commands of the same service.
TelemetryNotGated ==
  \A m \in gated, i \in DOMAIN Mappings :
    Mappings[i].service = m.service => ~should_forward_to_external(Mappings[i])

\* "best-effort forwarding with observability": every failed request is counted
\* as an error.
FailuresCounted == missed.to_someip <= stats.errors
=============================================================================
