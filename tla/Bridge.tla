-------------------------------- MODULE Bridge --------------------------------
(***************************************************************************)
(* The bridge task of src/bridge.rs: its select loop, the setup task that  *)
(* prepares a KLF connection, the MQTT request channel of src/mqtt.rs that *)
(* the loop both fills and drains, and the shutdown sequence.  The bridge  *)
(* is one task: a handler runs to its end before the loop selects again,   *)
(* and only the loop polls the MQTT event loop.  A handler is therefore    *)
(* one step; when its publications do not fit into the request channel it  *)
(* waits for room that nobody is left to make, and the bridge is stuck.    *)
(*                                                                         *)
(* The KLF connection is known by what KlfConnection establishes of it:    *)
(* calls return, and a shutdown that returns Ok has switched the monitor   *)
(* off.  The MQTT client library, the broker and Home Assistant are        *)
(* external.  The four status topics of a node are one topic here, the two *)
(* subscriptions one request, and the discovery of a device one message.   *)
(***************************************************************************)
EXTENDS Integers, Sequences, SequencesExt

CONSTANTS
    Nodes,              \* node identifiers
    Groups,             \* group identifiers
    Status,             \* what is known of a node
    Capacity,           \* request_capacity of the MQTT client
    MaxFaults,          \* bound: failures of gateway, broker and setup, and reboots
    MaxUnreadable,      \* bound: incoming messages that are not UTF-8
    MaxChanges          \* bound: changes of nodes and groups while connected

ASSUME IdsAssumption == IsFiniteSet(Nodes) /\ IsFiniteSet(Groups) /\ Nodes \cap Groups = {}
ASSUME BoundsAssumption == {Capacity, MaxFaults, MaxUnreadable, MaxChanges} \subseteq Nat

VARIABLES
    phase,      \* "running", then the stages of shutdown, then "stopped"
    signal,     \* a shutdown signal has arrived
    stuck,      \* a handler waits for room in the request channel
    gateway,    \* "some" while the bridge holds a gateway client
    setup,      \* the setup task
    cancel,     \* the setup task has been told to stop
    prepared,   \* nodes and groups that the setup task has found
    klf,        \* the KLF: who has a connection, its monitor, how the last one ended
    cache,      \* the node cache: the status of every node, or Absent
    groups,     \* the groups the bridge knows
    known,      \* known_components of the discovery
    queue,      \* request channel of the MQTT client
    backlog,    \* requests the client kept from a lost connection
    link,       \* MQTT connection: "down", "up", or "lost" and not yet noticed
    mqttConnected,  \* the bridge takes the MQTT connection to be up
    broker,     \* what the broker retains, by topic, and the entities of Home Assistant
    missed,     \* history: removed ids whose clearing was skipped or lost
    left        \* bounds: faults, unreadable messages and changes left

mqttVars == <<queue, stuck>>
brokerVars == <<backlog, link, mqttConnected, broker>>
setupVars == <<setup, cancel, prepared>>
cacheVars == <<cache, groups, known>>
vars == <<phase, signal, gateway, setupVars, klf, cacheVars, mqttVars, brokerVars, missed, left>>

Absent == "absent"
ASSUME StatusAssumption == Absent \notin Status

Nothing == [cache |-> [n \in Nodes |-> Absent], groups |-> {}]
Present(nodes) == {n \in Nodes : nodes[n] # Absent}
Polling == phase = "running" /\ ~stuck

(***************************************************************************)
(* Publications.  A value is a set; the empty one clears the topic.        *)
(***************************************************************************)
Topic(kind, id) == <<kind, id>>
StateTopic == Topic("state", "")
NodesTopic == Topic("nodes", "")
GroupsTopic == Topic("groups", "")
HassTopic == Topic("hass", "")
SubscribeTopic == Topic("subscribe", "")
DisconnectTopic == Topic("disconnect", "")
Topics ==
    {StateTopic, NodesTopic, GroupsTopic, HassTopic, SubscribeTopic, DisconnectTopic}
        \cup {Topic(kind, n) : kind \in {"info", "status"}, n \in Nodes}
        \cup {Topic("group", g) : g \in Groups}

\* `gone` are the components that a discovery message removes.
Message(topic, value, gone) == [topic |-> topic, value |-> value, gone |-> gone]
Publication(topic, value) == Message(topic, value, {})

Availability(value) == <<Publication(StateTopic, {value})>>
NodeInfo(n) == <<Publication(Topic("info", n), {"info"})>>
NodeStatus(nodes, n) == <<Publication(Topic("status", n), {nodes[n]})>>
NodeInventory(nodes) == <<Publication(NodesTopic, Present(nodes))>>
GroupInfo(g) == <<Publication(Topic("group", g), {"info"})>>
GroupInventory(present) == <<Publication(GroupsTopic, present)>>
Discovery(nodes, present) ==
    LET components == Present(nodes) \cup present
    IN  <<Message(HassTopic, components, known \ components)>>

ForEach(ids, Publications(_)) ==
    FlattenSeq([i \in 1..Cardinality(ids) |-> Publications(SetToSeq(ids)[i])])

ClearNode(n) == <<Publication(Topic("info", n), {}), Publication(Topic("status", n), {})>>
ClearGroup(g) == <<Publication(Topic("group", g), {})>>

Snapshot(nodes, present) ==
    Availability("offline") \o NodeInventory(nodes) \o GroupInventory(present)
        \o ForEach(Present(nodes), LAMBDA n : NodeInfo(n) \o NodeStatus(nodes, n))
        \o ForEach(present, GroupInfo)
        \o Discovery(nodes, present) \o Availability("online")

\* The handler queues its publications; where there is no room it waits for ever.
Queue(publications) ==
    LET room == Capacity - Len(queue) IN
    /\ queue' = queue \o SubSeq(publications, 1, Min({room, Len(publications)}))
    /\ stuck' = (Len(publications) > room)

QueueIfConnected(publications) == Queue(IF mqttConnected THEN publications ELSE <<>>)

Init ==
    /\ phase = "running" /\ signal = FALSE /\ stuck = FALSE
    /\ gateway = "none"
    /\ setup = "none" /\ cancel = FALSE
    /\ cache = [n \in Nodes |-> Absent] /\ groups = {} /\ known = {}
    /\ prepared = Nothing
    /\ klf \in [client : {"none"}, monitor : {"on", "off"}, closed : {"never"}]
    /\ queue = <<>> /\ backlog = <<>> /\ link = "down" /\ mqttConnected = FALSE
    /\ broker = [retained |-> [t \in Topics |-> {}], entities |-> {}]
    /\ missed = [topics |-> {}, entities |-> {}]
    /\ left = [faults |-> MaxFaults, unreadable |-> MaxUnreadable, changes |-> MaxChanges]

Fault == left.faults > 0 /\ left' = [left EXCEPT !.faults = @ - 1]
Change == left.changes > 0 /\ left' = [left EXCEPT !.changes = @ - 1]

\* The outcomes of the shutdown of a gateway client, with or without a reboot.
Close(confirmed) ==
    \/ /\ confirmed
       /\ klf' = [client |-> "none", monitor |-> "off", closed |-> "clean"]
    \/ /\ ~confirmed
       /\ \E monitor \in {klf.monitor, "off"} :
              klf' = [client |-> "none", monitor |-> monitor, closed |-> "unconfirmed"]

-----------------------------------------------------------------------------
(***************************************************************************)
(* The setup task: prepare_gateway and initialize_gateway.                 *)
(***************************************************************************)
Keep == UNCHANGED <<phase, signal, gateway, cacheVars, mqttVars, brokerVars, missed>>

SetupConnect ==
    /\ setup = "connecting"
    /\ setup' = "initializing"
    /\ klf' = [klf EXCEPT !.client = "setup"]
    /\ Keep /\ UNCHANGED <<cancel, prepared, left>>

\* Log in, switch off a stale monitor, discover nodes and groups and ask for the
\* status of every node, which stays unknown when it does not arrive in time.
SetupDiscover(nodes, present) ==
    /\ setup = "initializing"
    /\ setup' = "enabling"
    /\ klf' = [klf EXCEPT !.monitor = "off"]
    /\ prepared' = [cache |-> nodes, groups |-> present]
    /\ Keep /\ UNCHANGED <<cancel, left>>

SetupEnable ==
    /\ setup = "enabling"
    /\ setup' = "ready"
    /\ klf' = [klf EXCEPT !.monitor = "on"]
    /\ Keep /\ UNCHANGED <<cancel, prepared, left>>

\* What a request in flight may have done to the monitor.
InFlight ==
    \E monitor \in {klf.monitor, IF setup = "enabling" THEN "on" ELSE "off"} :
        klf' = [klf EXCEPT !.monitor = monitor]

SetupFail ==
    /\ Fault
    /\ \/ setup = "connecting" /\ setup' = "failed" /\ UNCHANGED klf
       \/ setup \in {"initializing", "enabling"} /\ setup' = "closing" /\ InFlight
    /\ prepared' = Nothing
    /\ Keep /\ UNCHANGED cancel

SetupCancelled ==
    /\ cancel
    /\ \/ setup = "connecting" /\ setup' = "failed" /\ UNCHANGED klf
       \/ setup \in {"initializing", "enabling"} /\ setup' = "closing" /\ InFlight
    /\ prepared' = Nothing
    /\ Keep /\ UNCHANGED <<cancel, left>>

SetupClose(confirmed) ==
    /\ setup = "closing"
    /\ setup' = "failed"
    /\ Close(confirmed)
    /\ Keep /\ UNCHANGED <<cancel, prepared, left>>

SetupStep ==
    \/ SetupConnect
    \/ \E nodes \in [Nodes -> Status \cup {Absent}], present \in SUBSET Groups :
           SetupDiscover(nodes, present)
    \/ SetupEnable
    \/ SetupFail
    \/ SetupCancelled
    \/ \E confirmed \in BOOLEAN : SetupClose(confirmed)

-----------------------------------------------------------------------------
(***************************************************************************)
(* Handlers of the select loop.                                            *)
(***************************************************************************)
\* Mutant of StartSetup: the loop does not ask whether it has a gateway.
StartSetupAlways ==
    /\ Polling /\ setup = "none"
    /\ setup' = "connecting" /\ cancel' = FALSE
    /\ Keep /\ UNCHANGED <<prepared, klf, left>>

\* The reconnect delay has passed.
StartSetup ==
    /\ Polling /\ gateway = "none" /\ setup = "none"
    /\ setup' = "connecting" /\ cancel' = FALSE
    /\ Keep /\ UNCHANGED <<prepared, klf, left>>

\* Mutant of HandleSetupReady: what was removed is not cleared.
HandleSetupReadyUncleared ==
    /\ Polling /\ setup = "ready"
    /\ setup' = "none" /\ prepared' = Nothing
    /\ gateway' = "some"
    /\ klf' = [klf EXCEPT !.client = "bridge"]
    /\ cache' = prepared.cache /\ groups' = prepared.groups
    /\ QueueIfConnected(Snapshot(prepared.cache, prepared.groups))
    /\ known' = IF mqttConnected THEN Present(cache') \cup groups' ELSE known
    /\ UNCHANGED <<phase, signal, cancel, brokerVars, missed, left>>

HandleSetupReady ==
    LET removed == Present(cache) \ Present(prepared.cache)
        removedGroups == groups \ prepared.groups
    IN  /\ Polling /\ setup = "ready"
        /\ setup' = "none" /\ prepared' = Nothing
        /\ gateway' = "some"
        /\ klf' = [klf EXCEPT !.client = "bridge"]
        /\ cache' = prepared.cache /\ groups' = prepared.groups
        /\ QueueIfConnected(ForEach(removed, ClearNode) \o ForEach(removedGroups, ClearGroup)
                                \o Snapshot(prepared.cache, prepared.groups))
        /\ known' = IF mqttConnected THEN Present(cache') \cup groups' ELSE known
        /\ missed' = IF mqttConnected THEN missed
                     ELSE [missed EXCEPT !.topics = @ \cup removed \cup removedGroups]
        /\ UNCHANGED <<phase, signal, cancel, brokerVars, left>>

\* Mutant of HandleSetupFailed: the finished task is kept.
HandleSetupFailedKept ==
    /\ Polling /\ setup = "failed"
    /\ QueueIfConnected(Availability("offline"))
    /\ UNCHANGED <<phase, signal, gateway, setupVars, klf, cacheVars, brokerVars, missed, left>>

HandleSetupFailed ==
    /\ Polling /\ setup = "failed"
    /\ setup' = "none"
    /\ QueueIfConnected(Availability("offline"))
    /\ UNCHANGED <<phase, signal, gateway, cancel, prepared, klf, cacheVars, brokerVars, missed,
                   left>>

\* Mutant of GatewayFailed: the failure is not published.
GatewayFailedQuietly(how) ==
    /\ Polling /\ gateway = "some" /\ Fault
    /\ gateway' = "none"
    /\ klf' = [klf EXCEPT !.client = "none", !.closed = how]
    /\ UNCHANGED <<phase, signal, setupVars, cacheVars, mqttVars, brokerVars, missed>>

\* gateway_failed: the connection is "lost", or "dropped" by the bridge after a
\* failed heartbeat or a lagging event receiver.
GatewayFailed(how) ==
    /\ Polling /\ gateway = "some" /\ Fault
    /\ gateway' = "none"
    /\ klf' = [klf EXCEPT !.client = "none", !.closed = how]
    /\ QueueIfConnected(Availability("offline"))
    /\ UNCHANGED <<phase, signal, setupVars, cacheVars, brokerVars, missed>>

\* A change of nodes and groups is applied and its publications are queued.
Apply(nodes, present, publications) ==
    /\ cache' = nodes /\ groups' = present
    /\ QueueIfConnected(publications)
    /\ UNCHANGED <<phase, signal, gateway, setupVars, klf, brokerVars>>

\* handle_response: a status of a node, also the one a command acceptance implies.
StatusChanged(n, status) ==
    LET nodes == [cache EXCEPT ![n] = status] IN
    /\ Polling /\ gateway = "some" /\ Change
    /\ cache[n] \notin {Absent, status}
    /\ Apply(nodes, groups, NodeStatus(nodes, n))
    /\ UNCHANGED <<known, missed>>

\* handle_response: the information record of a node, new or not.
NodeReported(n, status) ==
    LET nodes == [cache EXCEPT ![n] = status] IN
    /\ Polling /\ gateway = "some" /\ Change
    /\ cache[n] # status
    /\ Apply(nodes, groups,
             (IF cache[n] = Absent THEN NodeInventory(nodes) ELSE <<>>)
                 \o NodeInfo(n) \o Discovery(nodes, groups) \o NodeStatus(nodes, n))
    /\ known' = IF mqttConnected THEN Present(nodes) \cup groups ELSE known
    /\ UNCHANGED missed

\* apply_group_response.
GroupReported(g) ==
    LET present == groups \cup {g} IN
    /\ Polling /\ gateway = "some" /\ Change
    /\ Apply(cache, present, GroupInventory(present) \o GroupInfo(g) \o Discovery(cache, present))
    /\ known' = IF mqttConnected THEN Present(cache) \cup present ELSE known
    /\ UNCHANGED missed

GroupDeleted(g) ==
    LET present == groups \ {g} IN
    /\ Polling /\ gateway = "some" /\ Change
    /\ g \in groups
    /\ Apply(cache, present, GroupInventory(present) \o ClearGroup(g) \o Discovery(cache, present))
    /\ known' = IF mqttConnected THEN Present(cache) \cup present ELSE known
    /\ missed' = IF mqttConnected THEN missed ELSE [missed EXCEPT !.topics = @ \cup {g}]

\* execute_gateway_reboot, for a command that is not retained.
RebootCommand(confirmed) ==
    /\ Polling /\ gateway = "some" /\ Fault
    /\ link = "up" /\ broker.retained[SubscribeTopic] # {}
    /\ gateway' = "none"
    /\ Close(confirmed)
    /\ QueueIfConnected(Availability("offline"))
    /\ UNCHANGED <<phase, signal, setupVars, cacheVars, brokerVars, missed>>

\* Mutant of MqttConnects: a connected gateway is announced without a snapshot.
MqttConnectsBriefly ==
    /\ Polling /\ link = "down"
    /\ link' = "up" /\ mqttConnected' = TRUE
    /\ Queue(<<Publication(SubscribeTopic, {"on"})>>
                 \o Availability(IF gateway = "some" THEN "online" ELSE "offline"))
    /\ UNCHANGED <<phase, signal, gateway, setupVars, klf, cacheVars, backlog, broker, missed, left>>

\* handle_mqtt_result: poll has connected and subscribed.
MqttConnects ==
    /\ Polling /\ link = "down"
    /\ link' = "up" /\ mqttConnected' = TRUE
    /\ Queue(<<Publication(SubscribeTopic, {"on"})>>
                 \o IF gateway = "some" THEN Snapshot(cache, groups) ELSE Availability("offline"))
    /\ known' = IF gateway = "some" THEN Present(cache) \cup groups ELSE known
    /\ UNCHANGED <<phase, signal, gateway, setupVars, klf, cache, groups, backlog, broker, missed,
                   left>>

\* handle_mqtt_result: poll has failed.  The client keeps its requests for the
\* next connection, or drops them when the broker begins a new session.
MqttFails(kept) ==
    LET requests == backlog \o queue IN
    /\ Polling /\ link = "lost"
    /\ link' = "down" /\ mqttConnected' = FALSE
    /\ queue' = <<>>
    /\ backlog' = IF kept THEN requests ELSE <<>>
    /\ missed' = IF kept THEN missed
                 ELSE [topics |-> missed.topics \cup {p.topic[2] : p \in
                                     {q \in Range(requests) : q.value = {}}},
                       entities |-> missed.entities \cup UNION {p.gone : p \in Range(requests)}]
    /\ UNCHANGED <<phase, signal, stuck, gateway, setupVars, klf, cacheVars, broker, left>>

\* handle_mqtt_result: poll has returned an incoming message that is not UTF-8 as
\* an error.  The connection is still there; the bridge takes it to be lost.
MqttUnreadable ==
    /\ Polling /\ link = "up" /\ broker.retained[SubscribeTopic] # {}
    /\ left.unreadable > 0 /\ left' = [left EXCEPT !.unreadable = @ - 1]
    /\ mqttConnected' = FALSE
    /\ UNCHANGED <<phase, signal, gateway, setupVars, klf, cacheVars, mqttVars, backlog, link,
                   broker, missed>>

-----------------------------------------------------------------------------
(***************************************************************************)
(* Shutdown.                                                               *)
(***************************************************************************)
Signal ==
    /\ ~signal /\ signal' = TRUE
    /\ UNCHANGED <<phase, gateway, setupVars, klf, cacheVars, mqttVars, brokerVars, missed, left>>

HandleSignal ==
    /\ Polling /\ signal
    /\ phase' = IF setup = "none" THEN "closing" ELSE "cancelling"
    /\ cancel' = (setup # "none")
    /\ UNCHANGED <<signal, gateway, setup, prepared, klf, cacheVars, mqttVars, brokerVars, missed,
                   left>>

\* Mutant of SetupJoined: a setup that has completed is dropped like a failed one.
SetupJoinedCareless(confirmed) ==
    /\ phase = "cancelling" /\ setup \in {"ready", "failed"}
    /\ setup' = "none" /\ prepared' = Nothing /\ phase' = "closing"
    /\ UNCHANGED <<signal, gateway, cancel, klf, cacheVars, mqttVars, brokerVars, missed,
                   left>>

\* Mutant of SetupJoined: only a completed setup is waited for.
SetupJoinedReady(confirmed) ==
    /\ phase = "cancelling" /\ setup = "ready"
    /\ setup' = "none" /\ prepared' = Nothing /\ phase' = "closing"
    /\ Close(confirmed)
    /\ UNCHANGED <<signal, gateway, cancel, cacheVars, mqttVars, brokerVars, missed,
                   left>>

SetupJoined(confirmed) ==
    /\ phase = "cancelling" /\ setup \in {"ready", "failed"}
    /\ setup' = "none" /\ prepared' = Nothing /\ phase' = "closing"
    /\ IF setup = "ready" THEN Close(confirmed) ELSE UNCHANGED klf
    /\ UNCHANGED <<signal, gateway, cancel, cacheVars, mqttVars, brokerVars, missed,
                   left>>

\* Mutant of CloseGateway: the bridge does not say that it goes offline.
CloseGatewayQuietly(confirmed) ==
    /\ phase = "closing" /\ ~stuck
    /\ gateway' = "none" /\ phase' = "parting"
    /\ IF gateway = "some" THEN Close(confirmed) ELSE UNCHANGED klf
    /\ UNCHANGED <<signal, setupVars, cacheVars, mqttVars, brokerVars, missed, left>>

CloseGateway(confirmed) ==
    /\ phase = "closing" /\ ~stuck
    /\ QueueIfConnected(Availability("offline"))
    /\ IF stuck'
       THEN UNCHANGED <<gateway, klf, phase>>
       ELSE /\ gateway' = "none" /\ phase' = "parting"
            /\ IF gateway = "some" THEN Close(confirmed) ELSE UNCHANGED klf
    /\ UNCHANGED <<signal, setupVars, cacheVars, brokerVars, missed, left>>

(***************************************************************************)
(* The MQTT connection, external: while the bridge polls, requests reach   *)
(* the broker in order, and the connection may be lost at any of them.     *)
(***************************************************************************)
Waiting == backlog \o queue

\* The broker retains the last value of a topic.
Retained(messages) ==
    [t \in Topics |->
        LET at == {i \in DOMAIN messages : messages[i].topic = t}
        IN  IF at = {} THEN broker.retained[t] ELSE messages[Max(at)].value]

\* Home Assistant drops every entity with an empty discovery, else it removes and
\* adds: the last message that is about an entity decides.
About(message, e) ==
    message.topic = HassTopic /\ (message.value = {} \/ e \in message.gone \cup message.value)
Entities(messages) ==
    {e \in Nodes \cup Groups :
        LET at == {i \in DOMAIN messages : About(messages[i], e)}
        IN  IF at = {} THEN e \in broker.entities ELSE e \in messages[Max(at)].value}

Delivered(count) ==
    LET messages == SubSeq(Waiting, 1, count)
    IN  [retained |-> Retained(messages), entities |-> Entities(messages)]

\* The broker finds a connection dead and publishes the last will.
Deserted(state) ==
    [state EXCEPT !.retained[StateTopic] = {"offline"}, !.retained[SubscribeTopic] = {}]

Flush ==
    /\ link = "up" /\ Polling /\ Waiting # <<>>
    /\ broker' = Delivered(Len(Waiting))
    /\ backlog' = <<>> /\ queue' = <<>>
    /\ UNCHANGED <<phase, signal, stuck, gateway, setupVars, klf, cacheVars, link, mqttConnected,
                   missed, left>>

LinkLost(count) ==
    /\ link = "up" /\ Fault
    /\ IF Polling THEN count \in 0..Len(Waiting) ELSE count = 0
    /\ link' = "lost"
    /\ broker' = Deserted(Delivered(count))
    /\ backlog' = SubSeq(backlog, count + 1, Len(backlog))
    /\ queue' = IF count <= Len(backlog) THEN queue
                ELSE SubSeq(queue, count - Len(backlog) + 1, Len(queue))
    /\ UNCHANGED <<phase, signal, stuck, gateway, setupVars, klf, cacheVars, mqttConnected, missed>>

-----------------------------------------------------------------------------
RequestDisconnect ==
    /\ phase = "parting" /\ ~stuck
    /\ IF mqttConnected
       THEN /\ Queue(<<Publication(DisconnectTopic, {})>>)
            /\ phase' = IF stuck' THEN phase ELSE "disconnecting"
            /\ UNCHANGED <<link, broker>>
       ELSE /\ phase' = "stopped" /\ link' = "down"
            /\ broker' = IF link = "up" THEN Deserted(broker) ELSE broker
            /\ UNCHANGED mqttVars
    /\ UNCHANGED <<signal, gateway, setupVars, klf, cacheVars, backlog, mqttConnected, missed, left>>

\* disconnect has sent everything, has failed or has waited for two seconds; then
\* the process ends.
Disconnected(count) ==
    /\ phase = "disconnecting"
    /\ phase' = "stopped" /\ link' = "down"
    /\ queue' = <<>> /\ backlog' = <<>>
    /\ \/ link = "up" /\ count = Len(Waiting) /\ broker' = Delivered(count)
       \/ link = "up" /\ count < Len(Waiting) /\ broker' = Deserted(Delivered(count))
       \/ link = "lost" /\ count = 0 /\ UNCHANGED broker
    /\ UNCHANGED <<signal, stuck, gateway, setupVars, klf, cacheVars, mqttConnected, missed, left>>

GatewayEvent ==
    \/ \E how \in {"lost", "dropped"} : GatewayFailed(how)
    \/ \E n \in Nodes, status \in Status : StatusChanged(n, status) \/ NodeReported(n, status)
    \/ \E g \in Groups : GroupReported(g) \/ GroupDeleted(g)

Shutdown ==
    \/ HandleSignal
    \/ RequestDisconnect
    \/ \E count \in 0..Len(Waiting) : Disconnected(count)
    \/ \E confirmed \in BOOLEAN : SetupJoined(confirmed) \/ CloseGateway(confirmed)

Next ==
    \/ SetupStep
    \/ StartSetup \/ HandleSetupReady \/ HandleSetupFailed
    \/ GatewayEvent
    \/ \E confirmed \in BOOLEAN : RebootCommand(confirmed)
    \/ MqttConnects \/ MqttUnreadable \/ \E kept \in BOOLEAN : MqttFails(kept)
    \/ Signal \/ Shutdown
    \/ Flush \/ \E count \in 0..Len(Waiting) : LinkLost(count)

Spec == Init /\ [][Next]_vars

\* The setup task ends, as every call of the KLF client returns; the loop keeps
\* selecting, and select chooses at random among what is ready; the broker can
\* be reached again once it has been lost and takes what it is sent.
Fairness ==
    /\ WF_vars(SetupStep)
    /\ WF_vars(StartSetup) /\ WF_vars(HandleSetupReady \/ HandleSetupFailed)
    /\ WF_vars(MqttConnects) /\ WF_vars(\E kept \in BOOLEAN : MqttFails(kept))
    /\ WF_vars(Flush)
    /\ WF_vars(Shutdown)

FairSpec == Spec /\ Fairness

-----------------------------------------------------------------------------
Messages == [topic : Topics, value : SUBSET (Nodes \cup Groups \cup Status
                                            \cup {"online", "offline", "info", "on"}),
             gone : SUBSET (Nodes \cup Groups)]

\* Every variable has its type, the request channel never holds more than its
\* capacity, and a gateway and a setup task never exist together (the guard of
\* the reconnect branch in run_until).
TypeOK ==
    /\ phase \in {"running", "cancelling", "closing", "parting", "disconnecting", "stopped"}
    /\ signal \in BOOLEAN /\ stuck \in BOOLEAN /\ cancel \in BOOLEAN
    /\ gateway \in {"none", "some"}
    /\ setup \in {"none", "connecting", "initializing", "enabling", "closing", "ready", "failed"}
    /\ gateway = "none" \/ setup = "none"
    /\ klf \in [client : {"none", "setup", "bridge"}, monitor : {"on", "off"},
                closed : {"never", "clean", "unconfirmed", "lost", "dropped"}]
    /\ prepared \in [cache : [Nodes -> Status \cup {Absent}], groups : SUBSET Groups]
    /\ cache \in [Nodes -> Status \cup {Absent}]
    /\ groups \in SUBSET Groups /\ known \in SUBSET (Nodes \cup Groups)
    /\ queue \in Seq(Messages) /\ Len(queue) <= Capacity
    /\ backlog \in Seq(Messages)
    /\ link \in {"down", "up", "lost"} /\ mqttConnected \in BOOLEAN
    /\ DOMAIN broker.retained = Topics
    /\ broker.entities \in SUBSET (Nodes \cup Groups)

\* Everything the bridge has queued has reached the broker.
Settled == Polling /\ link = "up" /\ queue = <<>> /\ backlog = <<>> /\ mqttConnected

\* Once everything queued is delivered, the availability topic says online exactly
\* when the bridge has a gateway: whichever of gateway and broker failed and came
\* back, in whatever order, and whatever the client replays from before.
AvailabilityTrue ==
    Settled => broker.retained[StateTopic] = IF gateway = "some" THEN {"online"} ELSE {"offline"}

\* What the README says of the reboot command and of the state topic: a gateway
\* that is gone is published as offline, over a connection that is up.
OfflineShown ==
    (Polling /\ link = "up" /\ Waiting = <<>> /\ gateway = "none") =>
        broker.retained[StateTopic] # {"online"}

\* Once everything queued is delivered and the gateway is connected, the broker
\* retains the inventories and, for every node and group of the cache, its topics
\* with the cached values (publish_complete_snapshot and the updates after it).
SnapshotTrue ==
    (Settled /\ gateway = "some") =>
        /\ broker.retained[NodesTopic] = Present(cache) /\ broker.retained[GroupsTopic] = groups
        /\ broker.retained[HassTopic] = Present(cache) \cup groups
        /\ \A n \in Present(cache) : /\ broker.retained[Topic("info", n)] = {"info"}
                                     /\ broker.retained[Topic("status", n)] = {cache[n]}
        /\ \A g \in groups : broker.retained[Topic("group", g)] = {"info"}

\* Nothing of a removed node or group survives at the broker or in Home Assistant,
\* except what the bridge removed while MQTT was disconnected and what the client
\* dropped with a lost session.
RemovedIsCleared ==
    (Settled /\ gateway = "some") =>
        /\ {n \in Nodes : broker.retained[Topic("info", n)] # {}} \subseteq Present(cache) \cup missed.topics
        /\ {g \in Groups : broker.retained[Topic("group", g)] # {}} \subseteq groups \cup missed.topics
        /\ broker.entities \subseteq Present(cache) \cup groups \cup missed.entities

\* However a shutdown meets a setup task (connecting, initializing, closing after a
\* failure, or finished and not yet collected), no connection is left open, and the
\* monitor is on only if the last connection failed or did not confirm.
StopIsClean ==
    phase = "stopped" =>
        klf.client = "none" /\ (klf.monitor = "on" => klf.closed # "clean")

\* After the process has stopped the broker says offline: the farewell was sent
\* before the disconnect, or the last will has replaced what was there.
StoppedOffline == phase = "stopped" => broker.retained[StateTopic] \in {{}, {"offline"}}

\* What the README says of SIGTERM and Ctrl+C: the service handles the signal.
SignalHandled == signal ~> phase = "stopped"

\* When failures cease the bridge comes back: it ends up online at the broker and
\* subscribed, or stopped.
Recovers ==
    <>[](\/ phase = "stopped"
         \/ broker.retained[StateTopic] = {"online"} /\ broker.retained[SubscribeTopic] = {"on"})
=============================================================================
