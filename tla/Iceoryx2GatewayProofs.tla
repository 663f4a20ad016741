------------------------ MODULE Iceoryx2GatewayProofs ------------------------
(***************************************************************************)
(* What holds of Iceoryx2Gateway for every set of mappings and inputs and  *)
(* every depth of the bus: a gateway that does not run has given back all  *)
(* its objects, one that is alone in its process asks for each event group *)
(* once and hands each event on once, and the bus is bounded and holds     *)
(* nothing twice.                                                          *)
(***************************************************************************)
EXTENDS Iceoryx2Gateway, FiniteSetTheorems, WellFoundedInduction, TLAPS

-----------------------------------------------------------------------------
(* start() and stop().                                                     *)

Labels == {"idle", "rpc_client", "publishers", "mappings", "udp", "set_running", "stop"}

\* The variables of start and stop, as far as the proofs look at them; running_ is
\* clear throughout both.
LifecycleOK ==
  /\ running \in [Gateways -> BOOLEAN]
  /\ control \in [Gateways -> Labels]
  /\ next \in [Gateways -> Nat \ {0}]
  /\ DOMAIN up = Gateways /\ DOMAIN event_publishers = Gateways /\ DOMAIN rpc_servers = Gateways
  /\ DOMAIN asked = Gateways /\ DOMAIN subscribed = Gateways
  /\ \A g \in Gateways : control[g] # "idle" => ~running[g]
  /\ \A g \in Gateways : DOMAIN asked[g] = Groups(g) /\ DOMAIN subscribed[g] = Groups(g)
  /\ \A g \in Gateways : \A e \in Groups(g) : subscribed[g][e] \subseteq DOMAIN Mappings[g]
  /\ \A g \in Gateways : rpc_servers[g] \subseteq Nat

\* A step of one gateway's controller keeps the types.
LEMMA LifecycleTypes ==
  ASSUME LifecycleOK, NEW g \in Gateways, Control(g)
  PROVE  LifecycleOK'
<1> USE DEF LifecycleOK
<1>1. CASE StartSubscriber(g)
  BY <1>1, SMTT(20) DEF StartSubscriber, Goto, servers, subscriptions, Labels
<1>2. CASE StartRpcClient(g) \/ StartSd(g) \/ StartUdp(g)
  BY <1>2 DEF StartRpcClient, StartSd, StartUdp, BringUp, Goto, servers, subscriptions, Labels
<1>3. CASE StartPublishers(g)
  BY <1>3 DEF StartPublishers, Goto, subscriptions, Labels
<1>4. CASE SetupMapping(g)
  <2>0. PICK groups : Subscribe(g, groups)
    BY <1>4, Zenon DEF SetupMapping, SubscribeEventGroups
  <2>1. PICK ok \in SUBSET groups :
          /\ asked' = [asked EXCEPT ![g] =
               [e \in DOMAIN @ |-> IF e \in groups THEN @[e] \cup {next[g]} ELSE @[e]]]
          /\ subscribed' = [subscribed EXCEPT ![g] =
               [e \in DOMAIN @ |-> IF e \in ok THEN @[e] \cup {next[g]} ELSE @[e]]]
    BY <2>0, Zenon DEF Subscribe
  <2>2. next[g] \in DOMAIN Mappings[g] /\ next[g] \in Nat
    BY <1>4, MappingsAssumption DEF SetupMapping
  <2>3. /\ running' \in [Gateways -> BOOLEAN] /\ control' \in [Gateways -> Labels]
        /\ next' \in [Gateways -> Nat \ {0}]
        /\ DOMAIN up' = Gateways /\ DOMAIN event_publishers' = Gateways
        /\ \A h \in Gateways : control'[h] # "idle" => ~running'[h]
    BY <1>4 DEF SetupMapping
  <2>4. rpc_servers' \in {rpc_servers, [rpc_servers EXCEPT ![g] = @ \cup {next[g]}]}
    BY <1>4, Zenon DEF SetupMapping, SetupRpcServer
  <2>5. DOMAIN rpc_servers' = Gateways /\ \A h \in Gateways : rpc_servers'[h] \subseteq Nat
    BY <2>2, <2>4
  <2>6. /\ DOMAIN asked' = Gateways /\ DOMAIN subscribed' = Gateways
        /\ \A h \in Gateways : DOMAIN asked'[h] = Groups(h) /\ DOMAIN subscribed'[h] = Groups(h)
    BY <2>1
  <2>7. ASSUME NEW h \in Gateways, NEW e \in Groups(h)
        PROVE  subscribed'[h][e] \subseteq DOMAIN Mappings[h]
    <3>1. subscribed'[h][e] \subseteq subscribed[h][e] \cup (IF h = g THEN {next[g]} ELSE {})
      BY <2>1
    <3> QED BY <2>2, <3>1
  <2> QED BY <2>3, <2>5, <2>6, <2>7
<1>5. CASE StartRunning(g) \/ StopRunning(g)
  BY <1>5, Zenon DEF StartRunning, StopRunning, Goto, servers, subscriptions, Labels
<1>6. CASE StopRelease(g)
  BY <1>6 DEF StopRelease, Goto, Labels
<1> QED BY <1>1, <1>2, <1>3, <1>4, <1>5, <1>6 DEF Control

\* It touches its own gateway only, apart from the global set.
LEMMA OthersUntouched ==
  ASSUME LifecycleOK, NEW g \in Gateways, Control(g), NEW h \in Gateways, h # g
  PROVE  /\ running'[h] = running[h] /\ control'[h] = control[h] /\ up'[h] = up[h]
         /\ event_publishers'[h] = event_publishers[h] /\ rpc_servers'[h] = rpc_servers[h]
         /\ asked'[h] = asked[h] /\ subscribed'[h] = subscribed[h]
<1> USE DEF LifecycleOK
<1>1. CASE StartSubscriber(g)
  BY <1>1 DEF StartSubscriber, Goto, servers, subscriptions
<1>2. CASE StartRpcClient(g) \/ StartSd(g) \/ StartUdp(g)
  BY <1>2 DEF StartRpcClient, StartSd, StartUdp, BringUp, Goto, servers, subscriptions
<1>3. CASE StartPublishers(g)
  BY <1>3 DEF StartPublishers, Goto, subscriptions
<1>4. CASE SetupMapping(g)
  BY <1>4 DEF SetupMapping, SetupRpcServer, SubscribeEventGroups, Subscribe
<1>5. CASE StartRunning(g) \/ StopRunning(g)
  BY <1>5 DEF StartRunning, StopRunning, Goto, servers, subscriptions
<1>6. CASE StopRelease(g)
  BY <1>6 DEF StopRelease, Goto
<1> QED BY <1>1, <1>2, <1>3, <1>4, <1>5, <1>6, SMTT(20) DEF Control

\* The messages, samples and calls of the other threads leave the lifecycle alone.
LEMMA DataSteps ==
  ASSUME NEW g \in Gateways, Outbound(g) \/ Inbound(g)
  PROVE  UNCHANGED lifecycle
<1>1. CASE Outbound(g)
  BY <1>1, Zenon DEF Outbound, OnSomeipMessage, OnEvent, OnRpcCall, PushToBus
<1>2. CASE Inbound(g)
  BY <1>2 DEF Inbound, InjectMalformed, InjectNotification, InjectRequest, InjectUnmatched,
              FinishRequest, FinishDangling, Injected
<1> QED BY <1>1, <1>2, SMTT(20)

\* Every step keeps the types.
LEMMA LifecycleTypesNext == LifecycleOK /\ [Next]_vars => LifecycleOK'
<1> SUFFICES ASSUME LifecycleOK, [Next]_vars PROVE LifecycleOK'
  OBVIOUS
<1>1. CASE UNCHANGED lifecycle
  BY <1>1 DEF LifecycleOK, lifecycle, servers, subscriptions
<1> QED BY <1>1, LifecycleTypes, DataSteps DEF Next, vars, lifecycle

Released(g) ==
  /\ up[g] = {} /\ event_publishers[g] = {} /\ rpc_servers[g] = {}
  /\ \A e \in Groups(g) : asked[g][e] = {} /\ subscribed[g][e] = {}

\* StoppedIsReleased, and nothing is asked for either.
ReleasedWhenStopped == \A g \in Gateways : control[g] = "idle" /\ ~running[g] => Released(g)

\* Only stop() clears running_, and it goes on to give everything back; a start()
\* that fails goes through stop() too.
LEMMA ReleaseControl ==
  ASSUME LifecycleOK, ReleasedWhenStopped, NEW g \in Gateways, Control(g)
  PROVE  ReleasedWhenStopped'
<1> SUFFICES ASSUME NEW h \in Gateways, control'[h] = "idle", ~running'[h]
             PROVE  Released(h)'
  BY DEF ReleasedWhenStopped
<1>1. control[h] = "idle" /\ ~running[h] => Released(h)
  BY DEF ReleasedWhenStopped
<1>2. CASE h # g
  BY <1>1, <1>2, OthersUntouched DEF Released
<1>3. CASE h = g
  <2> USE <1>3 DEF LifecycleOK
  <2>1. CASE StartSubscriber(g)
    BY <1>1, <2>1 DEF StartSubscriber, Goto, servers, subscriptions, Released
  <2>2. CASE StartRpcClient(g) \/ StartSd(g) \/ StartUdp(g)
    BY <2>2 DEF StartRpcClient, StartSd, StartUdp, BringUp, Goto
  <2>3. CASE StartPublishers(g) \/ SetupMapping(g)
    BY <2>3 DEF StartPublishers, SetupMapping, Goto
  <2>4. CASE StartRunning(g) \/ StopRunning(g)
    BY <2>4 DEF StartRunning, StopRunning, Goto
  <2>5. CASE StopRelease(g)
    BY <2>5 DEF StopRelease, Goto, Released
  <2> QED BY <2>1, <2>2, <2>3, <2>4, <2>5 DEF Control
<1> QED BY <1>2, <1>3

\* Every step keeps it.
LEMMA ReleaseNext == LifecycleOK /\ ReleasedWhenStopped /\ [Next]_vars => ReleasedWhenStopped'
<1> SUFFICES ASSUME LifecycleOK, ReleasedWhenStopped, [Next]_vars PROVE ReleasedWhenStopped'
  OBVIOUS
<1>1. CASE UNCHANGED lifecycle
  BY <1>1 DEF ReleasedWhenStopped, Released, lifecycle, servers, subscriptions
<1> QED BY <1>1, ReleaseControl, DataSteps DEF Next, vars, lifecycle

\* A fresh process has nothing to give back.
LEMMA LifecycleInit == Init => LifecycleOK /\ ReleasedWhenStopped
<1> SUFFICES ASSUME Init PROVE LifecycleOK /\ ReleasedWhenStopped
  OBVIOUS
<1>1. LifecycleOK
  BY DEF Init, LifecycleOK, Labels
<1>2. ReleasedWhenStopped
  BY DEF Init, ReleasedWhenStopped, Released
<1> QED BY <1>1, <1>2

\* Between calls, a gateway that does not run holds no object, no publisher, no
\* RPC server and no subscription, wherever its start() failed and however many
\* gateways share the process.
THEOREM Iceoryx2StoppedIsReleased == Spec => []StoppedIsReleased
<1>1. ReleasedWhenStopped => StoppedIsReleased
  BY DEF ReleasedWhenStopped, Released, StoppedIsReleased
<1> QED BY <1>1, LifecycleInit, LifecycleTypesNext, ReleaseNext, PTL DEF Spec

-----------------------------------------------------------------------------
(* Event groups.                                                           *)

OneGateway == \A g, h \in Gateways : g = h

\* The global set is the set of groups the gateway has asked for, each for one
\* mapping; only for that mapping can the subscription have succeeded.
SetMirrorsGroups ==
  \A g \in Gateways : \A e \in Groups(g) :
    /\ subscribed[g][e] \subseteq asked[g][e]
    /\ e \notin g_eventgroup_subscribed => asked[g][e] = {}
    /\ e \in g_eventgroup_subscribed => \E i \in DOMAIN Mappings[g] : asked[g][e] = {i}

\* How far start() has come: the mappings it has set up.
SetUp(g, i) ==
  \/ control[g] = "mappings" /\ i < next[g]
  \/ control[g] \in {"udp", "set_running"}
  \/ control[g] = "idle" /\ running[g]

\* Their groups are subscribed.
Progress ==
  \A g \in Gateways : \A i \in DOMAIN Mappings[g] :
    SetUp(g, i) => OutboundGroups(g, i) \subseteq g_eventgroup_subscribed

\* The groups a mapping forwards are groups of the gateway.
LEMMA OutboundAreGroups ==
  ASSUME NEW g \in Gateways, NEW i \in DOMAIN Mappings[g]
  PROVE  OutboundGroups(g, i) \subseteq Groups(g)
BY DEF OutboundGroups, Groups

\* Setting up a mapping asks for the groups that are not in the set yet.
LEMMA SetupSubscribes ==
  ASSUME LifecycleOK, OneGateway, SetMirrorsGroups, Progress, NEW g \in Gateways, SetupMapping(g)
  PROVE  SetMirrorsGroups' /\ Progress'
<1> DEFINE fresh == OutboundGroups(g, next[g]) \ g_eventgroup_subscribed
<1>1. PICK ok \in SUBSET fresh :
        /\ g_eventgroup_subscribed' = g_eventgroup_subscribed \cup fresh
        /\ asked' = [asked EXCEPT ![g] =
             [e \in DOMAIN @ |-> IF e \in fresh THEN @[e] \cup {next[g]} ELSE @[e]]]
        /\ subscribed' = [subscribed EXCEPT ![g] =
             [e \in DOMAIN @ |-> IF e \in ok THEN @[e] \cup {next[g]} ELSE @[e]]]
        /\ next' = [next EXCEPT ![g] = @ + 1]
        /\ UNCHANGED <<running, control>> /\ control[g] = "mappings"
        /\ next[g] <= Len(Mappings[g])
  BY Zenon DEF SetupMapping, SubscribeEventGroups, Subscribe
<1>2. \A h \in Gateways : h = g
  BY DEF OneGateway
<1>3. OutboundGroups(g, next[g]) \subseteq g_eventgroup_subscribed'
  BY <1>1
<1>4. (\A e \in fresh : e \notin g_eventgroup_subscribed) /\ ok \subseteq fresh
  OBVIOUS
<1>5. next[g] \in DOMAIN Mappings[g]
  BY <1>1, MappingsAssumption DEF LifecycleOK
<1> HIDE DEF fresh
<1>6. SetMirrorsGroups'
  <2> SUFFICES ASSUME NEW e \in Groups(g)
               PROVE  /\ subscribed'[g][e] \subseteq asked'[g][e]
                      /\ e \notin g_eventgroup_subscribed' => asked'[g][e] = {}
                      /\ e \in g_eventgroup_subscribed' =>
                           \E i \in DOMAIN Mappings[g] : asked'[g][e] = {i}
    BY <1>2, Zenon DEF SetMirrorsGroups
  <2>1. asked'[g][e] = IF e \in fresh THEN asked[g][e] \cup {next[g]} ELSE asked[g][e]
    BY <1>1, Zenon DEF LifecycleOK
  <2>2. subscribed'[g][e] = IF e \in ok THEN subscribed[g][e] \cup {next[g]} ELSE subscribed[g][e]
    BY <1>1, Zenon DEF LifecycleOK
  <2>3. /\ subscribed[g][e] \subseteq asked[g][e]
        /\ e \notin g_eventgroup_subscribed => asked[g][e] = {}
        /\ e \in g_eventgroup_subscribed => \E i \in DOMAIN Mappings[g] : asked[g][e] = {i}
    BY DEF SetMirrorsGroups
  <2>4. CASE e \in fresh
    <3>1. asked'[g][e] = {next[g]} /\ e \in g_eventgroup_subscribed'
      BY <1>1, <1>4, <2>1, <2>3, <2>4
    <3>2. subscribed'[g][e] \subseteq asked'[g][e]
      BY <2>1, <2>2, <2>3, <2>4
    <3> QED BY <1>5, <3>1, <3>2
  <2>5. CASE e \notin fresh
    <3>1. asked'[g][e] = asked[g][e] /\ subscribed'[g][e] = subscribed[g][e]
      BY <1>4, <2>1, <2>2, <2>5
    <3> QED BY <1>1, <2>3, <2>5, <3>1, Zenon
  <2> QED BY <2>4, <2>5
<1>7. Progress'
  <2> SUFFICES ASSUME NEW i \in DOMAIN Mappings[g], i < next'[g]
               PROVE  OutboundGroups(g, i) \subseteq g_eventgroup_subscribed'
    <3>1. \A i \in DOMAIN Mappings[g] : SetUp(g, i)' => i < next'[g]
      BY <1>1 DEF SetUp
    <3> QED BY <1>2, <3>1, Zenon DEF Progress
  <2>1. i \in Nat /\ next[g] \in Nat /\ next'[g] = next[g] + 1
    BY <1>1, MappingsAssumption DEF LifecycleOK
  <2>2. CASE i = next[g]
    BY <1>3, <2>2
  <2>3. CASE i < next[g]
    <3>1. OutboundGroups(g, i) \subseteq g_eventgroup_subscribed
      BY <1>1, <2>3, ZenonT(30) DEF Progress, SetUp
    <3> QED BY <1>1, <3>1
  <2> QED BY <2>1, <2>2, <2>3
<1> QED BY <1>6, <1>7

\* The other steps of start() and stop() ask for nothing; what clears the set
\* clears the subscriptions, or finds none.
LEMMA GroupsControl ==
  ASSUME LifecycleOK, OneGateway, ReleasedWhenStopped, SetMirrorsGroups, Progress,
         NEW g \in Gateways, Control(g)
  PROVE  SetMirrorsGroups' /\ Progress'
<1>1. \A h \in Gateways : h = g
  BY DEF OneGateway
<1>2. SUFFICES ASSUME ~SetupMapping(g)
               PROVE  /\ \/ UNCHANGED <<g_eventgroup_subscribed, asked, subscribed>>
                         \/ /\ g_eventgroup_subscribed' = {}
                            /\ \A e \in Groups(g) : asked'[g][e] = {} /\ subscribed'[g][e] = {}
                      /\ \A i \in DOMAIN Mappings[g] :
                           SetUp(g, i)' => OutboundGroups(g, i) \subseteq g_eventgroup_subscribed'
  <2>1. CASE SetupMapping(g)
    BY <2>1, SetupSubscribes
  <2>2. ASSUME UNCHANGED <<g_eventgroup_subscribed, asked, subscribed>>
        PROVE  SetMirrorsGroups'
    BY <2>2 DEF SetMirrorsGroups
  <2>3. ASSUME g_eventgroup_subscribed' = {},
               \A e \in Groups(g) : asked'[g][e] = {} /\ subscribed'[g][e] = {}
        PROVE  SetMirrorsGroups'
    BY <1>1, <2>3 DEF SetMirrorsGroups
  <2> QED BY <1>1, <1>2, <2>1, <2>2, <2>3, ZenonT(30) DEF Progress
<1>3. \A i \in DOMAIN Mappings[g] :
        SetUp(g, i) => OutboundGroups(g, i) \subseteq g_eventgroup_subscribed
  BY DEF Progress
<1>4. /\ control[g] \in Labels /\ next[g] \in Nat
      /\ \A i \in DOMAIN Mappings[g] : i \in 1 .. Len(Mappings[g])
  BY MappingsAssumption DEF LifecycleOK
<1> USE DEF LifecycleOK, SetUp, subscriptions
<1>5. CASE StartSubscriber(g)
  <2>1. \A e \in Groups(g) : asked[g][e] = {} /\ subscribed[g][e] = {}
    BY <1>5 DEF StartSubscriber, ReleasedWhenStopped, Released
  <2> QED BY <1>5, <2>1 DEF StartSubscriber, Goto
<1>6. CASE StartRpcClient(g) \/ StartUdp(g)
  BY <1>3, <1>6 DEF StartRpcClient, StartUdp, BringUp, Goto
<1>7. CASE StartPublishers(g)
  BY <1>4, <1>7 DEF StartPublishers, Goto
<1>8. CASE StartSd(g)
  <2>1. \A i \in DOMAIN Mappings[g] : i < next[g]
    BY <1>4, <1>8, MappingsAssumption DEF StartSd
  <2> QED BY <1>3, <1>8, <2>1 DEF StartSd, BringUp, Goto
<1>9. CASE StartRunning(g) \/ StopRunning(g)
  BY <1>3, <1>9 DEF StartRunning, StopRunning, Goto
<1>10. CASE StopRelease(g)
  <2>1. running'[g] = running[g] /\ control'[g] = "idle" /\ g_eventgroup_subscribed' = {}
    BY <1>10 DEF StopRelease, Goto
  <2>2. \A e \in Groups(g) : asked'[g][e] = {} /\ subscribed'[g][e] = {}
    BY <1>10 DEF StopRelease
  <2>3. ~running[g]
    BY <1>10 DEF StopRelease
  <2> QED BY <2>1, <2>2, <2>3
<1> QED BY <1>2, <1>5, <1>6, <1>7, <1>8, <1>9, <1>10, SMTT(20) DEF Control

\* Every step keeps the set and the subscriptions in agreement.
LEMMA GroupsNext ==
  ASSUME OneGateway, LifecycleOK, ReleasedWhenStopped, SetMirrorsGroups, Progress, [Next]_vars
  PROVE  SetMirrorsGroups' /\ Progress'
<1>1. CASE UNCHANGED lifecycle
  BY <1>1 DEF SetMirrorsGroups, Progress, SetUp, lifecycle, subscriptions
<1> QED BY <1>1, GroupsControl, DataSteps DEF Next, vars, lifecycle

\* Nothing is asked for at first.
LEMMA GroupsInit == Init => SetMirrorsGroups /\ Progress
BY DEF Init, SetMirrorsGroups, Progress, SetUp

\* A gateway that is alone in its process and runs has asked for every event group
\* of its outbound mappings exactly once, and holds no other subscription, however
\* the mappings overlap, whichever subscriptions failed and however often it was
\* started, stopped or failed to start (setup_event_subscriptions_for_mapping).
THEOREM Iceoryx2GroupsSubscribedOnce ==
  ASSUME OneGateway
  PROVE  Spec => []GroupsSubscribedOnce
<1>1. LifecycleOK /\ ReleasedWhenStopped /\ SetMirrorsGroups /\ Progress /\ [Next]_vars
        => SetMirrorsGroups' /\ Progress'
  BY OneGateway, GroupsNext
<1>2. SetMirrorsGroups /\ Progress => GroupsSubscribedOnce
  <2> SUFFICES ASSUME SetMirrorsGroups, Progress, NEW g \in Gateways,
                      control[g] = "idle", running[g], NEW i \in DOMAIN Mappings[g],
                      NEW e \in OutboundGroups(g, i)
               PROVE  \E j \in DOMAIN Mappings[g] : asked[g][e] = {j} /\ subscribed[g][e] \subseteq {j}
    BY DEF GroupsSubscribedOnce
  <2>1. e \in g_eventgroup_subscribed
    BY Zenon DEF Progress, SetUp
  <2>2. e \in Groups(g)
    BY OutboundAreGroups
  <2>3. /\ \E j \in DOMAIN Mappings[g] : asked[g][e] = {j}
        /\ subscribed[g][e] \subseteq asked[g][e]
    BY <2>1, <2>2, Zenon DEF SetMirrorsGroups
  <2> QED BY <2>3
<1> QED BY <1>1, <1>2, GroupsInit, LifecycleInit, LifecycleTypesNext, ReleaseNext, PTL DEF Spec

-----------------------------------------------------------------------------
(* The in-process bus.                                                     *)

Injective(s) == \A i, j \in DOMAIN s : s[i] = s[j] => i = j

\* Pushing drops the oldest sample when the bus is full.  The bus stays within its
\* depth and free of repetitions.
LEMMA BusPushFacts ==
  ASSUME NEW S, NEW q \in Seq(S), NEW x \in S, x \notin ToSet(q), Injective(q),
         Len(q) <= kMaxDepth
  PROVE  /\ BusPush(q, x) \in Seq(S)
         /\ Len(BusPush(q, x)) <= kMaxDepth
         /\ ToSet(BusPush(q, x)) \subseteq ToSet(q) \cup {x}
         /\ Injective(BusPush(q, x))
<1> DEFINE k == IF Len(q) >= kMaxDepth THEN Tail(q) ELSE q
           r == Append(k, x)
<1>1. kMaxDepth \in Nat \ {0} /\ Len(q) \in Nat /\ DOMAIN q = 1 .. Len(q)
  BY DepthAssumption
<1>2. /\ k \in Seq(S) /\ Len(k) \in Nat /\ Len(k) < kMaxDepth
      /\ \E d \in {0, 1} : Len(k) = Len(q) - d /\ \A i \in 1 .. Len(k) : k[i] = q[i + d]
  <2>1. CASE Len(q) >= kMaxDepth
    <3>1. q # <<>>
      BY <1>1, <2>1
    <3>2. Tail(q) \in Seq(S) /\ Len(Tail(q)) = Len(q) - 1 /\ \A i \in 1 .. Len(Tail(q)) : Tail(q)[i] = q[i + 1]
      BY <3>1
    <3> QED BY <1>1, <2>1, <3>2
  <2>2. CASE ~(Len(q) >= kMaxDepth)
    BY <1>1, <2>2
  <2> QED BY <2>1, <2>2
<1> HIDE DEF k
<1>3. PICK d \in {0, 1} : Len(k) = Len(q) - d /\ \A i \in 1 .. Len(k) : k[i] = q[i + d]
  BY <1>2
<1>4. /\ r \in Seq(S) /\ Len(r) = Len(k) + 1 /\ DOMAIN r = 1 .. (Len(k) + 1)
      /\ r[Len(k) + 1] = x /\ \A i \in 1 .. Len(k) : r[i] = k[i]
  BY <1>2
<1> HIDE DEF r
<1>5. \A i \in DOMAIN r : i = Len(k) + 1 \/ (i \in 1 .. Len(k) /\ i + d \in DOMAIN q /\ r[i] = q[i + d])
  <2>1. \A i \in DOMAIN r : i = Len(k) + 1 \/ i \in 1 .. Len(k)
    BY <1>2, <1>4
  <2>2. \A i \in 1 .. Len(k) : i + d \in DOMAIN q
    BY <1>1, <1>2, <1>3
  <2>3. \A i \in 1 .. Len(k) : r[i] = q[i + d]
    BY <1>3, <1>4
  <2> QED BY <2>1, <2>2, <2>3
<1>6. ToSet(r) \subseteq ToSet(q) \cup {x}
  BY <1>4, <1>5 DEF ToSet
<1>7. Injective(r)
  <2> SUFFICES ASSUME NEW i \in DOMAIN r, NEW j \in DOMAIN r, r[i] = r[j] PROVE i = j
    BY DEF Injective
  <2>1. \A m \in DOMAIN q : q[m] # x
    BY DEF ToSet
  <2>2. CASE i = Len(k) + 1 \/ j = Len(k) + 1
    BY <1>4, <1>5, <2>1, <2>2, SMTT(20)
  <2>3. CASE i # Len(k) + 1 /\ j # Len(k) + 1
    <3>1. i + d = j + d
      BY <1>5, <2>3 DEF Injective
    <3> QED BY <1>4, <3>1
  <2> QED BY <2>2, <2>3
<1>8. Len(r) <= kMaxDepth
  BY <1>1, <1>2, <1>4
<1> QED BY <1>4, <1>6, <1>7, <1>8 DEF BusPush, r, k

-----------------------------------------------------------------------------
(* What was sent.                                                          *)

Fates == {"new", "sent", "refused", "error", "published", "calling", "dangling", "dropped",
          "answered", "lost"}
Done == {"sent", "answered"}

\* A sample is named by its input and the mapping it was published with.
Samples == Ids \X Nat

DataOK ==
  /\ bus \in [Gateways -> Seq(Samples)]
  /\ pushing \in [Gateways -> SUBSET Samples]
  /\ sent \in [Gateways -> [Ids -> Nat]]
  /\ fate \in [Gateways -> [Inputs -> Fates]]

\* An input that is not finished has not been handed on.
Unsent == \A g \in Gateways : \A x \in Inputs : fate[g][x] \notin Done => sent[g][x.id] = 0

\* BusBounded is not inductive: a sample is pushed after the hook was given it, so
\* what waits or is on the bus has been sent before, and a sample that has not been
\* sent is in neither place.
OnlySent ==
  \A g \in Gateways : \A sample \in pushing[g] \cup ToSet(bus[g]) : sent[g][sample[1]] # 0

DataInv == DataOK /\ BusBounded /\ Unsent /\ OnlySent

\* publish_toward_iceoryx2, up to the hook, for an input that is not finished yet.
LEMMA PublishKeeps ==
  ASSUME DataInv, NEW g \in Gateways, NEW x \in Inputs, fate[g][x] \notin Done,
         NEW by \in SUBSET Nat, IsFiniteSet(by), by # {},
         NEW inbound, Publish(g, x.id, by, inbound),
         NEW f \in Done, Settle(g, x, f), UNCHANGED bus
  PROVE  /\ DataInv'
         /\ sent' = [sent EXCEPT ![g][x.id] = Cardinality(by)]
<1> DEFINE d == x.id
           n == Cardinality(by)
           made == {d} \X by
<1>1. d \in Ids /\ sent[g][d] = 0
  BY DEF DataInv, Unsent, Ids
<1>2. n \in Nat /\ n # 0
  BY FS_CardinalityType, FS_EmptySet
<1>3. /\ sent' = [sent EXCEPT ![g][d] = @ + n]
      /\ pushing' = [pushing EXCEPT ![g] = @ \cup made]
      /\ fate' = [fate EXCEPT ![g][x] = f]
  BY DEF Publish, Settle
<1>4. made \subseteq Samples /\ \A sample \in made : sample[1] = d
  BY <1>1 DEF Samples
<1>5. \A y \in Inputs : y.id \in Ids /\ (y.id = d <=> y = x)
  BY IdAssumption DEF Ids
<1> HIDE DEF d, n, made
<1>6. made \cap (pushing[g] \cup ToSet(bus[g])) = {}
  BY <1>1, <1>4 DEF DataInv, OnlySent
<1>7. sent' = [sent EXCEPT ![g][d] = n]
  BY <1>1, <1>2, <1>3 DEF DataInv, DataOK
<1>8. DataOK'
  <2>1. f \in Fates
    BY DEF Fates, Done
  <2>2. bus' \in [Gateways -> Seq(Samples)]
    BY DEF DataInv, DataOK
  <2>3. pushing' \in [Gateways -> SUBSET Samples]
    BY <1>3, <1>4 DEF DataInv, DataOK
  <2>4. sent' \in [Gateways -> [Ids -> Nat]]
    BY <1>1, <1>2, <1>7 DEF DataInv, DataOK
  <2>5. fate' \in [Gateways -> [Inputs -> Fates]]
    BY <1>3, <2>1 DEF DataInv, DataOK
  <2> QED BY <2>2, <2>3, <2>4, <2>5, SMTT(20) DEF DataOK
<1>9. \A h \in Gateways : \A id \in Ids :
        sent'[h][id] = IF h = g /\ id = d THEN n ELSE sent[h][id]
  BY <1>1, <1>7 DEF DataInv, DataOK
<1>10. Unsent'
  <2> SUFFICES ASSUME NEW h \in Gateways, NEW y \in Inputs, fate'[h][y] \notin Done
               PROVE  sent'[h][y.id] = 0
    BY DEF Unsent
  <2>1. fate'[h][y] = IF h = g /\ y = x THEN f ELSE fate[h][y]
    BY <1>3 DEF DataInv, DataOK
  <2>2. fate[h][y] \notin Done => sent[h][y.id] = 0
    BY DEF DataInv, Unsent
  <2> QED BY <1>5, <1>9, <2>1, <2>2, SMTT(20)
<1>11. \A h \in Gateways : pushing'[h] = IF h = g THEN pushing[h] \cup made ELSE pushing[h]
  BY <1>3, Zenon DEF DataInv, DataOK
<1>12. BusBounded'
  <2> SUFFICES ASSUME NEW h \in Gateways PROVE ToSet(bus[h]) \cap pushing'[h] = {}
    BY DEF DataInv, BusBounded
  <2>1. ToSet(bus[h]) \cap pushing[h] = {}
    BY DEF DataInv, BusBounded
  <2> QED BY <1>6, <1>11, <2>1, Zenon
<1>13. OnlySent'
  <2> SUFFICES ASSUME NEW h \in Gateways, NEW sample \in pushing'[h] \cup ToSet(bus[h])
               PROVE  sent'[h][sample[1]] # 0
    BY DEF OnlySent
  <2>1. sample \in pushing[h] \cup ToSet(bus[h]) \/ (h = g /\ sample \in made)
    BY <1>11, ZenonT(30)
  <2>2. sample \in pushing[h] \cup ToSet(bus[h]) => sent[h][sample[1]] # 0
    BY DEF DataInv, OnlySent
  <2>3. pushing[h] \cup ToSet(bus[h]) \subseteq Samples
    BY DEF DataInv, DataOK, ToSet
  <2>4. sample[1] \in Ids
    BY <1>1, <1>4, <2>1, <2>3 DEF Samples
  <2> QED BY <1>2, <1>4, <1>9, <2>1, <2>2, <2>4, SMTT(20)
<1> QED BY <1>7, <1>8, <1>10, <1>12, <1>13, SMTT(20) DEF DataInv, d, n

\* An input that is not forwarded is settled without being sent.
LEMMA SettleKeeps ==
  ASSUME DataInv, NEW g \in Gateways, NEW x \in Inputs, fate[g][x] \notin Done,
         NEW f \in Fates \ Done, Settle(g, x, f), UNCHANGED <<bus, sent, pushing>>
  PROVE  DataInv'
<1>1. fate' = [fate EXCEPT ![g][x] = f]
  BY DEF Settle
<1>2. DataOK'
  BY <1>1 DEF DataInv, DataOK
<1>3. \A h \in Gateways : \A y \in Inputs : fate'[h][y] \in Done <=> fate[h][y] \in Done
  BY <1>1 DEF DataInv, DataOK
<1>4. Unsent'
  BY <1>3 DEF DataInv, Unsent
<1> QED BY <1>2, <1>4 DEF DataInv, BusBounded, OnlySent

\* The sample leaves the hook's thread for the bus, or is dropped without one.
LEMMA PushKeeps ==
  ASSUME DataInv, NEW g \in Gateways, NEW sample \in pushing[g], PushToBus(g, sample)
  PROVE  DataInv' /\ sent' = sent
<1>1. /\ pushing' = [pushing EXCEPT ![g] = @ \ {sample}]
      /\ UNCHANGED <<sent, fate>>
      /\ bus' = [bus EXCEPT ![g] = BusPush(@, sample)] \/ bus' = bus
  BY DEF PushToBus
<1>2. /\ bus[g] \in Seq(Samples) /\ sample \in Samples /\ sample \notin ToSet(bus[g])
      /\ Injective(bus[g]) /\ Len(bus[g]) <= kMaxDepth
  BY DEF DataInv, DataOK, BusBounded, Injective
<1> HIDE DEF Samples
<1>3. /\ BusPush(bus[g], sample) \in Seq(Samples) /\ Len(BusPush(bus[g], sample)) <= kMaxDepth
      /\ ToSet(BusPush(bus[g], sample)) \subseteq ToSet(bus[g]) \cup {sample}
      /\ Injective(BusPush(bus[g], sample))
  BY <1>2, BusPushFacts
<1>4. \A h \in Gateways :
        /\ bus'[h] \in Seq(Samples) /\ Len(bus'[h]) <= kMaxDepth /\ Injective(bus'[h])
        /\ h = g => ToSet(bus'[h]) \subseteq ToSet(bus[h]) \cup {sample}
        /\ h # g => bus'[h] = bus[h]
  BY <1>1, <1>2, <1>3 DEF DataInv, DataOK, BusBounded, Injective
<1>5. \A h \in Gateways : pushing'[h] = IF h = g THEN pushing[h] \ {sample} ELSE pushing[h]
  BY <1>1, Zenon DEF DataInv, DataOK
<1>6. DataOK'
  <2>1. bus' \in [Gateways -> Seq(Samples)]
    BY <1>1, <1>3, Zenon DEF DataInv, DataOK
  <2> QED BY <1>1, <2>1, Zenon DEF DataInv, DataOK
<1>7. BusBounded'
  <2> SUFFICES ASSUME NEW h \in Gateways PROVE ToSet(bus'[h]) \cap pushing'[h] = {}
    BY <1>4 DEF BusBounded, Injective
  <2>1. ToSet(bus[h]) \cap pushing[h] = {}
    BY DEF DataInv, BusBounded
  <2> QED BY <1>4, <1>5, <2>1, Zenon
<1>8. OnlySent'
  <2> SUFFICES ASSUME NEW h \in Gateways, NEW n \in pushing'[h] \cup ToSet(bus'[h])
               PROVE  sent[h][n[1]] # 0
    BY <1>1 DEF OnlySent
  <2>1. n \in pushing[h] \cup ToSet(bus[h])
    BY <1>4, <1>5, Zenon
  <2> QED BY <2>1 DEF DataInv, OnlySent
<1>9. Unsent'
  BY <1>1 DEF DataInv, Unsent
<1> QED BY <1>1, <1>6, <1>7, <1>8, <1>9, SMTT(20) DEF DataInv

\* start() and stop() at most empty the bus and leave calls without their client.
LEMMA ControlKeeps ==
  ASSUME DataInv, NEW g \in Gateways, Control(g)
  PROVE  DataInv' /\ sent' = sent
<1>1. UNCHANGED <<sent, pushing>>
  BY DEF Control, StartSubscriber, StartRpcClient, StartPublishers, SetupMapping, StartSd, StartUdp,
         StartRunning, StopRunning, StopRelease, BringUp, data
<1>2. bus' = [bus EXCEPT ![g] = <<>>] \/ bus' = bus
  BY DEF Control, StartSubscriber, StartRpcClient, StartPublishers, SetupMapping, StartSd, StartUdp,
         StartRunning, StopRunning, StopRelease, BringUp
<1> DEFINE was == fate[g]
           now == [x \in DOMAIN was |-> IF was[x] = "calling" THEN "dangling" ELSE was[x]]
<1>3. fate' = fate \/ fate' = [fate EXCEPT ![g] = now]
  BY DEF Control, StartSubscriber, StartRpcClient, StartPublishers, SetupMapping, StartSd, StartUdp,
         StartRunning, StopRunning, StopRelease, BringUp, data
<1>4. \A h \in Gateways : bus'[h] = <<>> \/ bus'[h] = bus[h]
  BY <1>2 DEF DataInv, DataOK
<1>5. <<>> \in Seq(Samples) /\ Len(<<>>) <= kMaxDepth /\ DOMAIN <<>> = {}
  BY DepthAssumption
<1>6. DataOK'
  <2>1. bus' \in [Gateways -> Seq(Samples)]
    BY <1>2, <1>5, Zenon DEF DataInv, DataOK
  <2>2. now \in [Inputs -> Fates]
    <3>1. was \in [Inputs -> Fates]
      BY DEF DataInv, DataOK
    <3> HIDE DEF was
    <3> QED BY <3>1 DEF Fates
  <2> HIDE DEF now
  <2>3. fate' \in [Gateways -> [Inputs -> Fates]]
    BY <1>3, <2>2, Zenon DEF DataInv, DataOK
  <2> QED BY <1>1, <2>1, <2>3 DEF DataInv, DataOK
<1>7. \A h \in Gateways : ToSet(bus'[h]) \subseteq ToSet(bus[h])
  BY <1>4, <1>5 DEF ToSet
<1>8. BusBounded'
  BY <1>1, <1>4, <1>5, <1>7 DEF DataInv, BusBounded
<1>9. OnlySent'
  BY <1>1, <1>7 DEF DataInv, OnlySent
<1>10. Unsent'
  <2>1. \A y \in Inputs : now[y] \in Done <=> fate[g][y] \in Done
    BY DEF DataInv, DataOK, Done
  <2> HIDE DEF now
  <2>2. \A h \in Gateways : \A y \in Inputs : fate'[h][y] \in Done <=> fate[h][y] \in Done
    BY <1>3, <2>1, Zenon DEF DataInv, DataOK
  <2> QED BY <1>1, <2>2 DEF DataInv, Unsent
<1> QED BY <1>1, <1>6, <1>8, <1>9, <1>10 DEF DataInv

\* Every input of a gateway is an element of Inputs.
LEMMA KindsOfInputs ==
  Messages \subseteq Inputs /\ Events \subseteq Inputs /\ Calls \subseteq Inputs
    /\ Envelopes \subseteq Inputs
BY DEF Inputs

\* The least element of a set of numbers is a number.
LEMMA MinIsNat ==
  ASSUME NEW I \in SUBSET Nat, I # {}
  PROVE  Min(I) \in Nat
<1> DEFINE Less == {p \in Nat \X Nat : p[1] < p[2]}
<1>1. IsWellFoundedOn(Less, Nat)
  BY NatLessThanWellFounded DEF OpToRel
<1>2. PICK k \in I : \A j \in I : ~(<<j, k>> \in Less)
  <2> HIDE DEF Less
  <2> QED BY <1>1, WFMin, Zenon
<1>3. \A j \in I : k <= j
  <2> SUFFICES ASSUME NEW j \in I PROVE k <= j
    OBVIOUS
  <2>1. k \in Nat /\ j \in Nat /\ ~(<<j, k>> \in Less)
    <3> HIDE DEF Less
    <3> QED BY <1>2
  <2> QED BY <2>1
<1> QED BY <1>3, Zenon DEF Min

\* What the lookups of on_someip_message and handle_incoming_envelope return is an
\* index of the mapping vector, or 0.
LEMMA MappingIsNat ==
  ASSUME NEW g, NEW x
  PROVE  OutboundMapping(g, x) \in Nat /\ InboundMapping(g, x) \in Nat
<1>1. \A service, instance : find_mapping_for_service(Mappings[g], service, instance) \in Nat
  <2> SUFFICES ASSUME NEW service, NEW instance
               PROVE  find_mapping_for_service(Mappings[g], service, instance) \in Nat
    OBVIOUS
  <2> DEFINE I == {j \in 1 .. Len(Mappings[g]) :
                     Mappings[g][j].service = service /\ Mappings[g][j].instance = instance}
  <2>1. find_mapping_for_service(Mappings[g], service, instance) = IF I # {} THEN Min(I) ELSE 0
    BY DEF find_mapping_for_service, SelectInSeq
  <2>2. I \in SUBSET Nat
    OBVIOUS
  <2> HIDE DEF I
  <2> QED BY <2>1, <2>2, MinIsNat
<1>2. \A service : ByService(g, service) \in Nat
  <2> SUFFICES ASSUME NEW service PROVE ByService(g, service) \in Nat
    OBVIOUS
  <2> DEFINE S == {m \in ToSet(Mappings[g]) : m.service = service}
             I == {j \in 1 .. Len(Mappings[g]) : Mappings[g][j] \in S}
  <2>1. ByService(g, service) = IF I # {} THEN Min(I) ELSE 0
    <3> HIDE DEF S
    <3>1. ByService(g, service) = find_mapping_if(Mappings[g], S)
      BY DEF ByService, S
    <3> QED BY <3>1 DEF find_mapping_if, SelectInSeq
  <2>2. I \in SUBSET Nat
    OBVIOUS
  <2> HIDE DEF I
  <2> QED BY <2>1, <2>2, MinIsNat
<1>3. OutboundMapping(g, x) \in Nat
  BY <1>1, <1>2 DEF OutboundMapping
<1>4. InboundMapping(g, x) \in Nat
  BY <1>1, <1>2 DEF InboundMapping
<1> QED BY <1>3, <1>4

\* What a step hands on: nothing, one sample, or one sample for every subscription
\* of an event's group.
HandsOn(g) ==
  \/ sent' = sent
  \/ \E x \in Inputs : \E by :
       /\ (\E i \in Nat : by = {i}) \/ (\E e \in Groups(g) : by = subscribed[g][e])
       /\ sent' = [sent EXCEPT ![g][x.id] = Cardinality(by)]

\* Publishing one sample of an input.
LEMMA PublishOne ==
  ASSUME DataInv, NEW g \in Gateways, NEW x \in Inputs, fate[g][x] \notin Done,
         NEW i \in Nat, NEW inbound, Publish(g, x.id, {i}, inbound),
         NEW f \in Done, Settle(g, x, f), UNCHANGED bus
  PROVE  DataInv' /\ HandsOn(g)
<1>1. {i} \in SUBSET Nat /\ IsFiniteSet({i}) /\ {i} # {}
  BY FS_Singleton, Zenon
<1>2. DataInv' /\ sent' = [sent EXCEPT ![g][x.id] = Cardinality({i})]
  BY <1>1, PublishKeeps, ZenonT(30)
<1> QED BY <1>2, Zenon DEF HandsOn

\* The handlers of the SOME/IP side.
LEMMA OutboundKeeps ==
  ASSUME LifecycleOK, DataInv, NEW g \in Gateways, Outbound(g)
  PROVE  DataInv' /\ HandsOn(g)
<1>1. "new" \notin Done /\ "sent" \in Done /\ "refused" \in Fates \ Done
  BY DEF Done, Fates
<1>2. ASSUME NEW m \in Messages, OnSomeipMessage(g, m) PROVE DataInv' /\ HandsOn(g)
  <2>1. fate[g][m] \notin Done /\ UNCHANGED bus
    BY <1>1, <1>2, SMTT(20) DEF OnSomeipMessage
  <2>2. \/ Publish(g, m.id, {OutboundMapping(g, m)}, 0) /\ Settle(g, m, "sent")
        \/ Settle(g, m, "refused") /\ UNCHANGED <<sent, pushing>>
    BY <1>2 DEF OnSomeipMessage
  <2>3. m \in Inputs /\ OutboundMapping(g, m) \in Nat
    BY KindsOfInputs, MappingIsNat, SMTT(20)
  <2>4. CASE Publish(g, m.id, {OutboundMapping(g, m)}, 0) /\ Settle(g, m, "sent")
    BY <1>1, <2>1, <2>3, <2>4, PublishOne, Zenon
  <2>5. CASE Settle(g, m, "refused") /\ UNCHANGED <<sent, pushing>>
    BY <1>1, <2>1, <2>3, <2>5, SettleKeeps DEF HandsOn
  <2> QED BY <2>2, <2>4, <2>5, SMTT(20)
<1>3. ASSUME NEW ev \in Events, OnEvent(g, ev) PROVE DataInv' /\ HandsOn(g)
  <2> DEFINE by == subscribed[g][ev.group]
  <2>1. /\ fate[g][ev] \notin Done /\ UNCHANGED bus /\ Settle(g, ev, "sent")
        /\ ev.group \in Groups(g) /\ by # {} /\ Publish(g, ev.id, by, 0)
    BY <1>1, <1>3 DEF OnEvent
  <2>2. by \in SUBSET Nat /\ IsFiniteSet(by)
    <3>1. by \subseteq 1 .. Len(Mappings[g]) /\ Len(Mappings[g]) \in Nat
      BY <2>1, MappingsAssumption, SMTT(20) DEF LifecycleOK
    <3>2. IsFiniteSet(1 .. Len(Mappings[g]))
      BY <3>1, FS_Interval
    <3> QED BY <3>1, <3>2, FS_Subset, SMTT(20)
  <2>3. ev \in Inputs
    BY KindsOfInputs
  <2> HIDE DEF by
  <2>4. DataInv' /\ sent' = [sent EXCEPT ![g][ev.id] = Cardinality(by)]
    BY <1>1, <2>1, <2>2, <2>3, PublishKeeps, Zenon
  <2> QED BY <2>1, <2>3, <2>4, ZenonT(30) DEF HandsOn, by
<1>4. ASSUME NEW call \in Calls, OnRpcCall(g, call) PROVE DataInv' /\ HandsOn(g)
  <2>1. fate[g][call] \notin Done /\ UNCHANGED bus /\ Settle(g, call, "sent")
    BY <1>1, <1>4 DEF OnRpcCall
  <2>2. PICK i \in rpc_servers[g] : Publish(g, call.id, {i}, 0)
    BY <1>4, Zenon DEF OnRpcCall
  <2>3. call \in Inputs /\ i \in Nat
    BY KindsOfInputs, MappingsAssumption DEF LifecycleOK
  <2> QED BY <1>1, <2>1, <2>2, <2>3, PublishOne, Zenon
<1>5. ASSUME NEW sample \in pushing[g], PushToBus(g, sample) PROVE DataInv' /\ HandsOn(g)
  BY <1>5, PushKeeps DEF HandsOn
<1> QED BY <1>2, <1>3, <1>4, <1>5 DEF Outbound

\* The samples the application injects, and the calls that return.
LEMMA InboundKeeps ==
  ASSUME DataInv, NEW g \in Gateways, Inbound(g)
  PROVE  DataInv' /\ HandsOn(g)
<1>1. PICK env \in Envelopes :
        \/ InjectMalformed(g, env) \/ InjectNotification(g, env) \/ InjectRequest(g, env)
        \/ InjectUnmatched(g, env) \/ FinishRequest(g, env) \/ FinishDangling(g, env)
  BY DEF Inbound
<1>2. fate[g][env] \in {"new", "calling", "dangling"} /\ UNCHANGED bus
  BY <1>1 DEF InjectMalformed, InjectNotification, InjectRequest, InjectUnmatched, Injected,
              FinishRequest, FinishDangling
<1>3. \/ Publish(g, env.id, {InboundMapping(g, env)}, 1) /\ Settle(g, env, "answered")
      \/ /\ UNCHANGED <<sent, pushing>>
         /\ \E f \in {"error", "published", "calling", "dropped", "refused", "lost"} :
              Settle(g, env, f)
  BY <1>1, SMTT(20) DEF InjectMalformed, InjectNotification, InjectRequest, InjectUnmatched, Injected,
              FinishRequest, FinishDangling
<1>4. env \in Inputs /\ fate[g][env] \notin Done /\ "answered" \in Done
  BY <1>2, KindsOfInputs, SMTT(20) DEF Done
<1>5. CASE Publish(g, env.id, {InboundMapping(g, env)}, 1) /\ Settle(g, env, "answered")
  <2>1. InboundMapping(g, env) \in Nat
    BY MappingIsNat
  <2> QED BY <1>2, <1>4, <1>5, <2>1, PublishOne, Zenon
<1>6. ASSUME UNCHANGED <<sent, pushing>>,
             NEW f \in {"error", "published", "calling", "dropped", "refused", "lost"},
             Settle(g, env, f)
      PROVE  DataInv' /\ HandsOn(g)
  <2>1. f \in Fates \ Done
    BY <1>6 DEF Fates, Done
  <2> QED BY <1>2, <1>4, <1>6, <2>1, SettleKeeps, SMTT(20) DEF HandsOn
<1> QED BY <1>3, <1>5, <1>6, SMTT(20)

\* Every step keeps the invariant, and hands on what HandsOn says.
LEMMA DataNext ==
  ASSUME LifecycleOK, DataInv, [Next]_vars
  PROVE  DataInv' /\ (sent' = sent \/ \E g \in Gateways : HandsOn(g))
<1>1. CASE UNCHANGED vars
  <2>1. UNCHANGED <<bus, sent, pushing, fate>>
    BY <1>1 DEF vars, data
  <2> QED BY <2>1 DEF DataInv, DataOK, BusBounded, OnlySent, Unsent
<1>2. ASSUME NEW g \in Gateways, Control(g) \/ Outbound(g) \/ Inbound(g)
      PROVE  DataInv' /\ (sent' = sent \/ HandsOn(g))
  BY <1>2, ControlKeeps, OutboundKeeps, InboundKeeps
<1> QED BY <1>1, <1>2, SMTT(20) DEF Next

\* Nothing has been sent at first.
LEMMA DataInit == Init => DataInv
<1> SUFFICES ASSUME Init PROVE DataInv
  OBVIOUS
<1>1. DataOK
  <2>1. <<>> \in Seq(Samples)
    OBVIOUS
  <2> QED BY <2>1 DEF Init, DataOK, Fates
<1>2. \A g \in Gateways : bus[g] = <<>> /\ pushing[g] = {} /\ ToSet(bus[g]) = {}
  BY DEF Init, ToSet
<1>3. BusBounded /\ OnlySent
  BY <1>2, DepthAssumption, SMTT(20) DEF BusBounded, OnlySent
<1>4. Unsent
  BY DEF Init, Unsent, Ids
<1> QED BY <1>1, <1>3, <1>4 DEF DataInv

\* Whatever the threads that publish, start and stop do, the in-process bus of each
\* gateway holds at most kMaxDepth samples, none of them twice.
THEOREM Iceoryx2BusBounded == Spec => []BusBounded
<1>1. DataInv => BusBounded
  BY DEF DataInv
<1>2. LifecycleOK /\ DataInv /\ [Next]_vars => DataInv'
  BY DataNext
<1> QED BY <1>1, <1>2, DataInit, LifecycleInit, LifecycleTypesNext, PTL DEF Spec

-----------------------------------------------------------------------------
(* Events.                                                                 *)

SentOnce == \A g \in Gateways : \A id \in Ids : sent[g][id] <= 1

\* A group has one subscription at most, so that what a step hands on is one sample
\* at most, of an input that was not handed on before.
LEMMA OnceNext ==
  ASSUME LifecycleOK, SetMirrorsGroups, DataInv, SentOnce, [Next]_vars
  PROVE  SentOnce'
<1>1. CASE sent' = sent
  BY <1>1 DEF SentOnce
<1>2. ASSUME NEW g \in Gateways, NEW x \in Inputs, NEW by,
             (\E i \in Nat : by = {i}) \/ (\E e \in Groups(g) : by = subscribed[g][e]),
             sent' = [sent EXCEPT ![g][x.id] = Cardinality(by)]
      PROVE  SentOnce'
  <2>1. by = {} \/ \E i : by = {i}
    <3>1. ASSUME NEW e \in Groups(g) PROVE subscribed[g][e] = {} \/ \E i : subscribed[g][e] = {i}
      <4>1. subscribed[g][e] \subseteq asked[g][e] /\ (asked[g][e] = {} \/ \E i : asked[g][e] = {i})
        BY Zenon DEF SetMirrorsGroups
      <4> QED BY <4>1, Zenon
    <3> QED BY <1>2, <3>1
  <2>2. Cardinality(by) \in {0, 1}
    BY <2>1, FS_EmptySet, FS_Singleton, Zenon
  <2> DEFINE n == Cardinality(by)
  <2> HIDE DEF n
  <2>3. \A h \in Gateways : \A id \in Ids : sent'[h][id] \in {n, sent[h][id]}
    BY <1>2 DEF n, DataInv, DataOK
  <2> QED BY <2>2, <2>3 DEF SentOnce, n
<1> QED BY <1>1, <1>2, DataNext, SMTT(20) DEF HandsOn

\* A gateway that is alone in its process hands each event on at most once, however
\* many of its mappings list the event's group and however often it is restarted
\* (setup_event_subscriptions_for_mapping, bridge_pub_sub_someip_to_external).
THEOREM Iceoryx2EventsForwardedOnce ==
  ASSUME OneGateway
  PROVE  Spec => []EventsForwardedOnce
<1>1. Init => SentOnce
  BY DEF Init, SentOnce
<1>2. LifecycleOK /\ ReleasedWhenStopped /\ SetMirrorsGroups /\ Progress /\ [Next]_vars
        => SetMirrorsGroups' /\ Progress'
  BY OneGateway, GroupsNext
<1>3. LifecycleOK /\ DataInv /\ [Next]_vars => DataInv'
  BY DataNext
<1>4. LifecycleOK /\ SetMirrorsGroups /\ DataInv /\ SentOnce /\ [Next]_vars => SentOnce'
  BY OnceNext
<1>5. SentOnce => EventsForwardedOnce
  <2>1. \A ev \in Events : ev.id \in Ids
    BY DEF Ids, Inputs
  <2> QED BY <2>1 DEF SentOnce, EventsForwardedOnce
<1> QED BY <1>1, <1>2, <1>3, <1>4, <1>5, DataInit, GroupsInit, LifecycleInit, LifecycleTypesNext,
           ReleaseNext, PTL DEF Spec
=============================================================================
