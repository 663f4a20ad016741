--------------------------- MODULE Iceoryx2Gateway ---------------------------
(***************************************************************************)
(* The iceoryx2 gateways of one process.  start() brings the parts of a    *)
(* gateway up one after the other and calls stop() when one of them fails. *)
(* An event group is asked for once per process: the set that remembers    *)
(* it, g_eventgroup_subscribed, is a global that every start() and stop()  *)
(* clears; whether the subscription succeeds is not looked at.  Outbound   *)
(* samples go to a hook and to a bounded in-process bus; inbound samples   *)
(* are injected by the application, and an inbound request blocks its      *)
(* thread in call_method_sync, under which stop() deletes the RPC client.  *)
(***************************************************************************)
EXTENDS Naturals, Sequences, FiniteSets, ServiceMappings

CONSTANTS Gateways,   \* the gateways of the process
          Mappings,   \* service_mappings_ of each; with a set of event groups
          Messages,   \* [id, service]: SOME/IP messages of the UDP listener
          Events,     \* [id, group]: notifications of the event subscriber
          Calls,      \* [id, service]: calls on the SOME/IP RPC servers
          Envelopes,  \* [id, service, instance, type, valid]: inbound samples
          kMaxDepth   \* depth of the in-process bus

ASSUME DepthAssumption == kMaxDepth \in Nat \ {0}

ASSUME MappingsAssumption ==
  \A g \in Gateways :
    Mappings[g] \in Seq([service : Nat, instance : Nat, direction : GatewayDirection,
                        groups : SUBSET Nat])

VARIABLES g_eventgroup_subscribed,
          running,     \* running_
          up,          \* the objects of each gateway that exist
          event_publishers, \* their services and instances
          rpc_servers, \* the mappings whose methods are registered
          asked,       \* for each event group, the mappings that asked for it
          subscribed,  \* ... and those whose subscription succeeded
          next,        \* the mapping start() sets up next
          bus,         \* inprocess_bus_
          sent,        \* how often the hook was given each sample
          pushing,     \* samples on their way from the hook to the bus
          fate,        \* what became of each input at each gateway
          stats,       \* the counters
          control      \* the step of each gateway's controller

data == <<sent, pushing, fate, stats>>
servers == <<event_publishers, rpc_servers>>
subscriptions == <<asked, subscribed>>
vars ==
  <<g_eventgroup_subscribed, running, up, servers, subscriptions, next, bus, data, control>>
lifecycle ==
  <<g_eventgroup_subscribed, running, up, servers, subscriptions, next, control>>

Inputs == Messages \cup Events \cup Calls \cup Envelopes
Ids == {x.id : x \in Inputs}

\* The id names the input.
ASSUME IdAssumption == \A x, y \in Inputs : x.id = y.id => x = y

Groups(g) ==
  UNION {{<<Mappings[g][i].service, Mappings[g][i].instance, e>> : e \in Mappings[g][i].groups} :
           i \in DOMAIN Mappings[g]}
OutboundGroups(g, i) ==
  IF should_forward_to_external(Mappings[g][i])
  THEN {<<Mappings[g][i].service, Mappings[g][i].instance, e>> : e \in Mappings[g][i].groups}
  ELSE {}

Goto(g, label) == control' = [control EXCEPT ![g] = label]

-----------------------------------------------------------------------------
(* start(): each object may fail to initialize.                            *)

StartSubscriber(g) ==
  /\ control[g] = "idle" /\ ~running[g]
  /\ g_eventgroup_subscribed' = {}
  /\ \/ /\ up' = [up EXCEPT ![g] = @ \cup {"subscriber"}]
        /\ bus' = [bus EXCEPT ![g] = <<>>]
        /\ Goto(g, "rpc_client")
     \/ UNCHANGED <<up, bus, control>>
  /\ UNCHANGED <<running, servers, subscriptions, next, data>>

\* Mutant: a failed object leaves the others up.
BringUpAndReturn(g, part, then) ==
  /\ up' = [up EXCEPT ![g] = @ \cup {part}]
  /\ Goto(g, then) \/ Goto(g, "idle")
  /\ UNCHANGED <<g_eventgroup_subscribed, running, servers, subscriptions, next, bus, data>>

\* An object is created and initialized, or start() gives up and calls stop().
BringUp(g, part, then) ==
  /\ up' = [up EXCEPT ![g] = @ \cup {part}]
  /\ Goto(g, then) \/ Goto(g, "stop")
  /\ UNCHANGED <<g_eventgroup_subscribed, running, servers, subscriptions, next, bus, data>>

StartRpcClient(g) == control[g] = "rpc_client" /\ BringUp(g, "rpc_client", "publishers")

\* The publishers of the first n mappings: all of them, or those before the one
\* that failed.
PublishersOf(g, n) ==
  {<<Mappings[g][i].service, Mappings[g][i].instance>> :
     i \in {k \in 1 .. n : should_forward_to_someip(Mappings[g][k])}}

StartPublishers(g) ==
  /\ control[g] = "publishers"
  /\ next' = [next EXCEPT ![g] = 1]
  /\ \E n \in 0 .. Len(Mappings[g]) :
       /\ event_publishers' = [event_publishers EXCEPT ![g] = PublishersOf(g, n)]
       /\ Goto(g, IF n = Len(Mappings[g]) THEN "mappings" ELSE "stop")
  /\ UNCHANGED <<g_eventgroup_subscribed, running, up, rpc_servers, subscriptions, bus, data>>

\* setup_rpc_server_for_mapping: a server that does not initialize is skipped.
SetupRpcServer(g) ==
  LET exists == \E j \in rpc_servers[g] : Mappings[g][j].service = Mappings[g][next[g]].service
      registered == [rpc_servers EXCEPT ![g] = @ \cup {next[g]}]
  IN  rpc_servers' \in (IF exists THEN {registered} ELSE {registered, rpc_servers})

\* subscribe_eventgroup for some groups, of which any may fail.
Subscribe(g, groups) ==
  /\ g_eventgroup_subscribed' = g_eventgroup_subscribed \cup groups
  /\ asked' = [asked EXCEPT ![g] =
       [e \in DOMAIN @ |-> IF e \in groups THEN @[e] \cup {next[g]} ELSE @[e]]]
  /\ \E ok \in SUBSET groups :
       subscribed' = [subscribed EXCEPT ![g] =
         [e \in DOMAIN @ |-> IF e \in ok THEN @[e] \cup {next[g]} ELSE @[e]]]

\* Mutant: every mapping subscribes its groups.
SubscribeAgain(g) == Subscribe(g, OutboundGroups(g, next[g]))

\* Mutant: a mapping only skips groups when all of its own are in the set.
SubscribeUnlessAll(g) ==
  Subscribe(g, IF OutboundGroups(g, next[g]) \subseteq g_eventgroup_subscribed
               THEN {} ELSE OutboundGroups(g, next[g]))

\* setup_event_subscriptions_for_mapping: a group in the global set is skipped.
SubscribeEventGroups(g) ==
  Subscribe(g, OutboundGroups(g, next[g]) \ g_eventgroup_subscribed)

SetupMapping(g) ==
  /\ control[g] = "mappings"
  /\ next[g] <= Len(Mappings[g])
  /\ SetupRpcServer(g)
  /\ SubscribeEventGroups(g)
  /\ next' = [next EXCEPT ![g] = @ + 1]
  /\ UNCHANGED <<running, up, event_publishers, bus, data, control>>

StartSd(g) ==
  /\ control[g] = "mappings"
  /\ next[g] > Len(Mappings[g])
  /\ BringUp(g, "sd", "udp")

StartUdp(g) == control[g] = "udp" /\ BringUp(g, "udp", "set_running")

StartRunning(g) ==
  /\ control[g] = "set_running"
  /\ running' = [running EXCEPT ![g] = TRUE]
  /\ Goto(g, "idle")
  /\ UNCHANGED <<g_eventgroup_subscribed, up, servers, subscriptions, next, bus, data>>

-----------------------------------------------------------------------------
(* stop(): the flag first, then every object.                              *)

StopRunning(g) ==
  /\ control[g] = "idle"
  /\ running' = [running EXCEPT ![g] = FALSE]
  /\ Goto(g, "stop")
  /\ UNCHANGED <<g_eventgroup_subscribed, up, servers, subscriptions, next, bus, data>>

\* The RPC client is deleted although another thread may be in its call_method_sync.
StopRelease(g) ==
  /\ control[g] = "stop"
  /\ up' = [up EXCEPT ![g] = {}]
  /\ event_publishers' = [event_publishers EXCEPT ![g] = {}]
  /\ rpc_servers' = [rpc_servers EXCEPT ![g] = {}]
  /\ asked' = [asked EXCEPT ![g] = [e \in DOMAIN @ |-> {}]]
  /\ subscribed' = [subscribed EXCEPT ![g] = [e \in DOMAIN @ |-> {}]]
  /\ fate' = [fate EXCEPT ![g] =
       [x \in DOMAIN @ |-> IF @[x] = "calling" THEN "dangling" ELSE @[x]]]
  /\ bus' = [bus EXCEPT ![g] = <<>>]
  /\ g_eventgroup_subscribed' = {}
  /\ Goto(g, "idle")
  /\ UNCHANGED <<running, next, sent, pushing, stats>>

-----------------------------------------------------------------------------
(* Outbound.                                                               *)

ByService(g, service) ==
  find_mapping_if(Mappings[g], {m \in ToSet(Mappings[g]) : m.service = service})

\* Instance 1, then instance 0, then any instance of the service.
OutboundMapping(g, m) ==
  LET one == find_mapping_for_service(Mappings[g], m.service, 1)
      zero == find_mapping_for_service(Mappings[g], m.service, 0)
  IN  IF one # 0 THEN one ELSE IF zero # 0 THEN zero ELSE ByService(g, m.service)

\* Mutant: the oldest sample is dropped only when the bus is over its depth.
BusPushLate(q, x) == Append(IF Len(q) > kMaxDepth THEN Tail(q) ELSE q, x)

BusPush(q, x) == Append(IF Len(q) >= kMaxDepth THEN Tail(q) ELSE q, x)

\* publish_toward_iceoryx2 with each of some mappings, up to the bus: count the
\* sample if the mapping forwards it, and give it to the hook.
Publish(g, id, by, inbound) ==
  /\ sent' = [sent EXCEPT ![g][id] = @ + Cardinality(by)]
  /\ pushing' = [pushing EXCEPT ![g] = @ \cup ({id} \X by)]
  /\ stats' = [stats EXCEPT
       ![g].out = @ + Cardinality({i \in by : should_forward_to_external(Mappings[g][i])}),
       ![g].in = @ + inbound]

\* ... and the bus, if there is one by then.
PushToBus(g, sample) ==
  /\ sample \in pushing[g]
  /\ pushing' = [pushing EXCEPT ![g] = @ \ {sample}]
  /\ bus' = IF "subscriber" \in up[g] THEN [bus EXCEPT ![g] = BusPush(@, sample)] ELSE bus
  /\ UNCHANGED <<lifecycle, sent, fate, stats>>

Settle(g, x, f) == fate' = [fate EXCEPT ![g][x] = f]

OnSomeipMessage(g, m) ==
  /\ fate[g][m] = "new"
  /\ LET i == OutboundMapping(g, m)
     IN  \/ /\ running[g] /\ i # 0 /\ should_forward_to_external(Mappings[g][i])
            /\ Publish(g, m.id, {i}, 0)
            /\ Settle(g, m, "sent")
         \/ /\ ~(running[g] /\ i # 0 /\ should_forward_to_external(Mappings[g][i]))
            /\ Settle(g, m, "refused")
            /\ UNCHANGED <<sent, pushing, stats>>
  /\ UNCHANGED <<lifecycle, bus>>

\* The callbacks of an event group, one for each mapping that subscribed it.
OnEvent(g, ev) ==
  /\ fate[g][ev] = "new"
  /\ ev.group \in Groups(g) /\ subscribed[g][ev.group] # {}
  /\ Publish(g, ev.id, subscribed[g][ev.group], 0)
  /\ Settle(g, ev, "sent")
  /\ UNCHANGED <<lifecycle, bus>>

\* The handler of a registered method.  Which mapping's handler runs, when two
\* mappings register one method, is up to the RPC server.
OnRpcCall(g, call) ==
  /\ fate[g][call] = "new"
  /\ \E i \in {k \in rpc_servers[g] : Mappings[g][k].service = call.service} :
       Publish(g, call.id, {i}, 0)
  /\ Settle(g, call, "sent")
  /\ UNCHANGED <<lifecycle, bus>>

-----------------------------------------------------------------------------
(* Inbound: inject_iceoryx2_sample and handle_incoming_envelope.           *)

InboundMapping(g, env) ==
  LET exact == find_mapping_for_service(Mappings[g], env.service, env.instance)
  IN  IF exact # 0 THEN exact ELSE ByService(g, env.service)

Accepts(g, env) ==
  /\ env.valid
  /\ InboundMapping(g, env) # 0
  /\ should_forward_to_someip(Mappings[g][InboundMapping(g, env)])

Injected(g, env) == fate[g][env] = "new" /\ UNCHANGED <<lifecycle, bus, sent, pushing>>

InjectMalformed(g, env) ==
  /\ Injected(g, env) /\ ~env.valid
  /\ stats' = [stats EXCEPT ![g].errors = @ + 1]
  /\ Settle(g, env, "error")

\* The publisher is looked up by the instance of the envelope, also when the
\* mapping was found by the service alone.
HasPublisher(g, env) == <<env.service, env.instance>> \in event_publishers[g]

InjectNotification(g, env) ==
  /\ Injected(g, env) /\ Accepts(g, env)
  /\ env.type = "NOTIFICATION" /\ HasPublisher(g, env)
  /\ stats' = [stats EXCEPT ![g].in = @ + 1]
  /\ Settle(g, env, "published")

\* The thread enters call_method_sync.
InjectRequest(g, env) ==
  /\ Injected(g, env) /\ Accepts(g, env)
  /\ env.type = "REQUEST" /\ "rpc_client" \in up[g]
  /\ Settle(g, env, "calling")
  /\ UNCHANGED stats

\* No branch applies: only the application's callback sees the sample.
InjectUnmatched(g, env) ==
  /\ Injected(g, env) /\ env.valid
  /\ ~(Accepts(g, env) /\ env.type = "NOTIFICATION" /\ HasPublisher(g, env))
  /\ ~(Accepts(g, env) /\ env.type = "REQUEST" /\ "rpc_client" \in up[g])
  /\ Settle(g, env, IF running[g] /\ Accepts(g, env) THEN "dropped" ELSE "refused")
  /\ UNCHANGED stats

\* call_method_sync returns a RESPONSE or an ERROR; both are published.
FinishRequest(g, env) ==
  /\ fate[g][env] = "calling"
  /\ Publish(g, env.id, {InboundMapping(g, env)}, 1)
  /\ Settle(g, env, "answered")
  /\ UNCHANGED <<lifecycle, bus>>

\* The RPC client was deleted during the call.  What happens is undefined: the call
\* may return with something that is published, or not return.
FinishDangling(g, env) ==
  /\ fate[g][env] = "dangling"
  /\ \/ Publish(g, env.id, {InboundMapping(g, env)}, 1) /\ Settle(g, env, "answered")
     \/ Settle(g, env, "lost") /\ UNCHANGED <<sent, pushing, stats>>
  /\ UNCHANGED <<lifecycle, bus>>

-----------------------------------------------------------------------------
Init ==
  /\ g_eventgroup_subscribed = {}
  /\ running = [g \in Gateways |-> FALSE]
  /\ up = [g \in Gateways |-> {}]
  /\ event_publishers = [g \in Gateways |-> {}]
  /\ rpc_servers = [g \in Gateways |-> {}]
  /\ asked = [g \in Gateways |-> [e \in Groups(g) |-> {}]]
  /\ subscribed = [g \in Gateways |-> [e \in Groups(g) |-> {}]]
  /\ next = [g \in Gateways |-> 1]
  /\ bus = [g \in Gateways |-> <<>>]
  /\ sent = [g \in Gateways |-> [id \in Ids |-> 0]]
  /\ pushing = [g \in Gateways |-> {}]
  /\ fate = [g \in Gateways |-> [x \in Inputs |-> "new"]]
  /\ stats = [g \in Gateways |-> [out |-> 0, in |-> 0, errors |-> 0]]
  /\ control = [g \in Gateways |-> "idle"]

Control(g) ==
  \/ StartSubscriber(g) \/ StartRpcClient(g) \/ StartPublishers(g) \/ SetupMapping(g)
  \/ StartSd(g) \/ StartUdp(g) \/ StartRunning(g) \/ StopRunning(g) \/ StopRelease(g)

Outbound(g) ==
  \/ \E m \in Messages : OnSomeipMessage(g, m)
  \/ \E ev \in Events : OnEvent(g, ev)
  \/ \E call \in Calls : OnRpcCall(g, call)
  \/ \E sample \in pushing[g] : PushToBus(g, sample)

Inbound(g) ==
  \E env \in Envelopes :
    \/ InjectMalformed(g, env) \/ InjectNotification(g, env) \/ InjectRequest(g, env)
    \/ InjectUnmatched(g, env) \/ FinishRequest(g, env) \/ FinishDangling(g, env)

Next == \E g \in Gateways : Control(g) \/ Outbound(g) \/ Inbound(g)

Spec == Init /\ [][Next]_vars

-----------------------------------------------------------------------------
(* Correctness.                                                            *)

\* A gateway that does not run has nothing left over: a start() that fails half
\* way gives back everything it brought up, and so does stop().
StoppedIsReleased ==
  \A g \in Gateways :
    control[g] = "idle" /\ ~running[g] =>
      /\ up[g] = {} /\ event_publishers[g] = {} /\ rpc_servers[g] = {}
      /\ \A e \in Groups(g) : subscribed[g][e] = {}

\* "to avoid duplicate eventgroup subscriptions across mappings": a running
\* gateway has asked for each of its event groups exactly once, also after
\* restarts, and has no subscription it did not ask for.  Whether the subscriber
\* granted it is not said: start() discards the result.  It holds for a gateway
\* that is alone in its process.
GroupsSubscribedOnce ==
  \A g \in Gateways :
    control[g] = "idle" /\ running[g] =>
      \A e \in UNION {OutboundGroups(g, i) : i \in DOMAIN Mappings[g]} :
        \E i \in DOMAIN Mappings[g] : asked[g][e] = {i} /\ subscribed[g][e] \subseteq {i}

\* The in-process bus, which nothing drains, never holds more than kMaxDepth
\* samples, and each of them once.
BusBounded ==
  \A g \in Gateways :
    /\ Len(bus[g]) <= kMaxDepth
    /\ \A i, j \in DOMAIN bus[g] : bus[g][i] = bus[g][j] => i = j
    /\ ToSet(bus[g]) \cap pushing[g] = {}

\* An event is handed on once, although several mappings list its group and
\* whatever was subscribed, released and subscribed again before it arrived.  It
\* holds for a gateway that is alone in its process.
EventsForwardedOnce ==
  \A g \in Gateways : \A ev \in Events : sent[g][ev.id] <= 1

\* A call is made on an RPC client that lives until the call returns
\* (handle_incoming_envelope checks rpc_client_ once, before the call).
ClientOutlivesCalls ==
  \A g \in Gateways : \A env \in Envelopes : fate[g][env] # "dangling"

\* "best-effort forwarding with observability": what a running gateway was told to
\* forward to SOME/IP is forwarded, or counted as an error.
NothingDroppedSilently ==
  \A g \in Gateways : \A env \in Envelopes : fate[g][env] # "dropped"
=============================================================================
