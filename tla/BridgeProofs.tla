----------------------------- MODULE BridgeProofs -----------------------------
(***************************************************************************)
(* Proofs about Bridge, for any nodes, groups and capacities.              *)
(*                                                                         *)
(* What the broker retains is proved by looking ahead: Promised is what it *)
(* will retain when everything that waits has been delivered.  A delivery  *)
(* leaves it alone, however much of what waits it takes; a handler changes *)
(* it by what it publishes last about a topic.                             *)
(***************************************************************************)
EXTENDS Bridge, SequenceLemmas

(***************************************************************************)
(* Publications.                                                           *)
(***************************************************************************)
\* The elements of short sequences.
LEMMA ShortRange ==
    /\ \A x : Range(<<x>>) = {x}
    /\ \A x, y : Range(<<x, y>>) = {x, y}
    /\ Range(<<>>) = {}
BY DEF Range

\* The topics are different from each other.
LEMMA TopicsDiffer ==
    /\ {StateTopic, NodesTopic, GroupsTopic, HassTopic, SubscribeTopic, DisconnectTopic}
           \subseteq Topics
    /\ \A n \in Nodes : Topic("info", n) \in Topics /\ Topic("status", n) \in Topics
    /\ \A g \in Groups : Topic("group", g) \in Topics
    /\ \A k1, k2, i1, i2 : Topic(k1, i1) = Topic(k2, i2) <=> k1 = k2 /\ i1 = i2
BY DEF Topics, Topic, StateTopic, NodesTopic, GroupsTopic, HassTopic, SubscribeTopic,
       DisconnectTopic

\* A message is about one topic.
LEMMA TopicsApart ==
    /\ \A kind \in {"info", "status", "group"} : \A id :
           Topic(kind, id) \notin {StateTopic, NodesTopic, GroupsTopic, HassTopic, SubscribeTopic,
                                  DisconnectTopic}
    /\ StateTopic \notin {NodesTopic, GroupsTopic, HassTopic, SubscribeTopic, DisconnectTopic}
    /\ NodesTopic \notin {GroupsTopic, HassTopic, SubscribeTopic}
    /\ GroupsTopic \notin {HassTopic, SubscribeTopic}
    /\ HassTopic # SubscribeTopic
    /\ \A i, j : Topic("info", i) # Topic("status", j)
    /\ \A i, j : Topic("info", i) # Topic("group", j)
    /\ \A i, j : Topic("status", i) # Topic("group", j)
    /\ \A kind, i, j : Topic(kind, i) = Topic(kind, j) => i = j
BY DEF Topic, StateTopic, NodesTopic, GroupsTopic, HassTopic, SubscribeTopic, DisconnectTopic

Words == {"online", "offline", "info", "on"}
Caches == [Nodes -> Status \cup {Absent}]

\* A message without removals is one of Messages.
LEMMA PublicationType ==
    ASSUME NEW t \in Topics, NEW v \in SUBSET (Nodes \cup Groups \cup Status \cup Words)
    PROVE  Publication(t, v) \in Messages
BY DEF Publication, Message, Messages, Words

\* The publications of one message or two are sequences of messages.
LEMMA SmallPublications ==
    /\ \A word \in {"online", "offline"} : Availability(word) \in Seq(Messages)
    /\ \A n \in Nodes : NodeInfo(n) \in Seq(Messages) /\ ClearNode(n) \in Seq(Messages)
    /\ \A nodes \in Caches : NodeInventory(nodes) \in Seq(Messages)
    /\ \A nodes \in Caches, n \in Nodes :
           nodes[n] # Absent => NodeStatus(nodes, n) \in Seq(Messages)
    /\ \A g \in Groups : GroupInfo(g) \in Seq(Messages) /\ ClearGroup(g) \in Seq(Messages)
    /\ \A present \in SUBSET Groups : GroupInventory(present) \in Seq(Messages)
<1>1. \A word \in {"online", "offline"} : Availability(word) \in Seq(Messages)
    <2> SUFFICES ASSUME NEW word \in {"online", "offline"}
                 PROVE  Availability(word) \in Seq(Messages)
        OBVIOUS
    <2>1. Publication(StateTopic, {word}) \in Messages
        BY PublicationType, TopicsDiffer DEF Words
    <2> QED
        BY <2>1 DEF Availability
<1>2. ASSUME NEW n \in Nodes
      PROVE  NodeInfo(n) \in Seq(Messages) /\ ClearNode(n) \in Seq(Messages)
    <2>1. /\ Publication(Topic("info", n), {"info"}) \in Messages
          /\ Publication(Topic("info", n), {}) \in Messages
          /\ Publication(Topic("status", n), {}) \in Messages
        BY PublicationType, TopicsDiffer DEF Words
    <2> QED
        BY <2>1 DEF NodeInfo, ClearNode
<1>3. ASSUME NEW nodes \in Caches
      PROVE  NodeInventory(nodes) \in Seq(Messages)
    <2>1. Publication(NodesTopic, Present(nodes)) \in Messages
        BY PublicationType, TopicsDiffer DEF Present
    <2> QED
        BY <2>1 DEF NodeInventory
<1>4. ASSUME NEW nodes \in Caches, NEW n \in Nodes, nodes[n] # Absent
      PROVE  NodeStatus(nodes, n) \in Seq(Messages)
    <2>1. nodes[n] \in Status
        BY <1>4 DEF Caches
    <2>2. Publication(Topic("status", n), {nodes[n]}) \in Messages
        BY <2>1, PublicationType, TopicsDiffer
    <2> QED
        BY <2>2 DEF NodeStatus
<1>5. ASSUME NEW g \in Groups
      PROVE  GroupInfo(g) \in Seq(Messages) /\ ClearGroup(g) \in Seq(Messages)
    <2>1. /\ Publication(Topic("group", g), {"info"}) \in Messages
          /\ Publication(Topic("group", g), {}) \in Messages
        BY PublicationType, TopicsDiffer DEF Words
    <2> QED
        BY <2>1 DEF GroupInfo, ClearGroup
<1>6. ASSUME NEW present \in SUBSET Groups
      PROVE  GroupInventory(present) \in Seq(Messages)
    <2>1. Publication(GroupsTopic, present) \in Messages
        BY PublicationType, TopicsDiffer
    <2> QED
        BY <2>1 DEF GroupInventory
<1> QED
    BY <1>1, <1>2, <1>3, <1>4, <1>5, <1>6

\* What a discovery message holds.
LEMMA DiscoveryType ==
    ASSUME TypeOK, NEW nodes \in Caches, NEW present \in SUBSET Groups
    PROVE  /\ Discovery(nodes, present) \in Seq(Messages)
           /\ Range(Discovery(nodes, present)) =
                  {Message(HassTopic, Present(nodes) \cup present,
                           known \ (Present(nodes) \cup present))}
<1> DEFINE m == Message(HassTopic, Present(nodes) \cup present, known \ (Present(nodes) \cup present))
<1>1. m \in Messages
    BY TopicsDiffer DEF Message, Messages, Present, TypeOK
<1>2. Discovery(nodes, present) = <<m>>
    BY DEF Discovery
<1> HIDE DEF m
<1>3. Discovery(nodes, present) \in Seq(Messages) /\ Range(Discovery(nodes, present)) = {m}
    BY <1>1, <1>2, ShortRange
<1> QED
    BY <1>3 DEF m

\* The publications for every element of a set: of the nodes that are cleared, of the
\* groups that are cleared, of the nodes and of the groups of a snapshot.
LEMMA ForEachType ==
    /\ \A ids \in SUBSET Nodes :
           /\ ForEach(ids, ClearNode) \in Seq(Messages)
           /\ Range(ForEach(ids, ClearNode)) = UNION {Range(ClearNode(n)) : n \in ids}
    /\ \A ids \in SUBSET Groups :
           /\ ForEach(ids, ClearGroup) \in Seq(Messages)
           /\ Range(ForEach(ids, ClearGroup)) = UNION {Range(ClearGroup(g)) : g \in ids}
           /\ ForEach(ids, GroupInfo) \in Seq(Messages)
           /\ Range(ForEach(ids, GroupInfo)) = UNION {Range(GroupInfo(g)) : g \in ids}
    /\ \A nodes \in Caches :
           LET all == ForEach(Present(nodes), LAMBDA n : NodeInfo(n) \o NodeStatus(nodes, n))
           IN  /\ all \in Seq(Messages)
               /\ Range(all) = UNION {Range(NodeInfo(n) \o NodeStatus(nodes, n)) : n \in Present(nodes)}
<1>1. ASSUME NEW ids \in SUBSET Nodes
      PROVE  /\ ForEach(ids, ClearNode) \in Seq(Messages)
             /\ Range(ForEach(ids, ClearNode)) = UNION {Range(ClearNode(x)) : x \in ids}
    <2> DEFINE P == [x \in ids |-> ClearNode(x)]
               all == Flattened(ids, P)
    <2>1. IsFiniteSet(ids)
        BY IdsAssumption, FS_Subset
    <2>2. P \in [ids -> Seq(Messages)]
        BY SmallPublications
    <2>3. all \in Seq(Messages) /\ Range(all) = UNION {Range(P[x]) : x \in ids}
        <3> HIDE DEF P
        <3> QED
            BY <2>1, <2>2, FlattenOverSet
    <2>4. \A i \in 1..Cardinality(ids) : P[SetToSeq(ids)[i]] = ClearNode(SetToSeq(ids)[i])
        BY <2>1, SetToSeqElements
    <2>5. ForEach(ids, ClearNode) = all
        BY <2>4 DEF ForEach, Flattened
    <2> QED
        BY <2>3, <2>5
<1>2. ASSUME NEW ids \in SUBSET Groups
      PROVE  /\ ForEach(ids, ClearGroup) \in Seq(Messages)
             /\ Range(ForEach(ids, ClearGroup)) = UNION {Range(ClearGroup(x)) : x \in ids}
    <2> DEFINE P == [x \in ids |-> ClearGroup(x)]
               all == Flattened(ids, P)
    <2>1. IsFiniteSet(ids)
        BY IdsAssumption, FS_Subset
    <2>2. P \in [ids -> Seq(Messages)]
        BY SmallPublications
    <2>3. all \in Seq(Messages) /\ Range(all) = UNION {Range(P[x]) : x \in ids}
        <3> HIDE DEF P
        <3> QED
            BY <2>1, <2>2, FlattenOverSet
    <2>4. \A i \in 1..Cardinality(ids) : P[SetToSeq(ids)[i]] = ClearGroup(SetToSeq(ids)[i])
        BY <2>1, SetToSeqElements
    <2>5. ForEach(ids, ClearGroup) = all
        BY <2>4 DEF ForEach, Flattened
    <2> QED
        BY <2>3, <2>5
<1>3. ASSUME NEW ids \in SUBSET Groups
      PROVE  /\ ForEach(ids, GroupInfo) \in Seq(Messages)
             /\ Range(ForEach(ids, GroupInfo)) = UNION {Range(GroupInfo(x)) : x \in ids}
    <2> DEFINE P == [x \in ids |-> GroupInfo(x)]
               all == Flattened(ids, P)
    <2>1. IsFiniteSet(ids)
        BY IdsAssumption, FS_Subset
    <2>2. P \in [ids -> Seq(Messages)]
        BY SmallPublications
    <2>3. all \in Seq(Messages) /\ Range(all) = UNION {Range(P[x]) : x \in ids}
        <3> HIDE DEF P
        <3> QED
            BY <2>1, <2>2, FlattenOverSet
    <2>4. \A i \in 1..Cardinality(ids) : P[SetToSeq(ids)[i]] = GroupInfo(SetToSeq(ids)[i])
        BY <2>1, SetToSeqElements
    <2>5. ForEach(ids, GroupInfo) = all
        BY <2>4 DEF ForEach, Flattened
    <2> QED
        BY <2>3, <2>5
<1>4. ASSUME NEW nodes \in Caches
      PROVE  LET all == ForEach(Present(nodes), LAMBDA n : NodeInfo(n) \o NodeStatus(nodes, n))
             IN  /\ all \in Seq(Messages)
                 /\ Range(all) = UNION {Range(NodeInfo(n) \o NodeStatus(nodes, n)) : n \in Present(nodes)}
    <2> DEFINE ids == Present(nodes)
               P == [n \in ids |-> NodeInfo(n) \o NodeStatus(nodes, n)]
               all == Flattened(ids, P)
    <2>1. ids \in SUBSET Nodes /\ IsFiniteSet(ids) /\ \A n \in ids : nodes[n] # Absent
        BY IdsAssumption, FS_Subset DEF Present
    <2> HIDE DEF ids
    <2>2. P \in [ids -> Seq(Messages)]
        <3>1. \A n \in ids : NodeInfo(n) \in Seq(Messages) /\ NodeStatus(nodes, n) \in Seq(Messages)
            BY <2>1, SmallPublications
        <3> QED
            BY <3>1, ConcatRange
    <2>3. all \in Seq(Messages) /\ Range(all) = UNION {Range(P[x]) : x \in ids}
        <3> HIDE DEF P
        <3> QED
            BY <2>1, <2>2, FlattenOverSet
    <2>4. \A i \in 1..Cardinality(ids) :
              P[SetToSeq(ids)[i]] = NodeInfo(SetToSeq(ids)[i]) \o NodeStatus(nodes, SetToSeq(ids)[i])
        BY <2>1, SetToSeqElements
    <2>5. ForEach(ids, LAMBDA n : NodeInfo(n) \o NodeStatus(nodes, n)) = all
        BY <2>4 DEF ForEach, Flattened
    <2> QED
        BY <2>3, <2>5 DEF ids
<1> QED
    BY <1>1, <1>2, <1>3, <1>4

\* What a snapshot says: about availability last, that the bridge is online; about
\* every other topic one thing.
SnapshotMessages(nodes, present) ==
    {Publication(StateTopic, {"offline"}), Publication(StateTopic, {"online"}),
     Publication(NodesTopic, Present(nodes)), Publication(GroupsTopic, present),
     Message(HassTopic, Present(nodes) \cup present, known \ (Present(nodes) \cup present))}
        \cup {Publication(Topic("info", n), {"info"}) : n \in Present(nodes)}
        \cup {Publication(Topic("status", n), {nodes[n]}) : n \in Present(nodes)}
        \cup {Publication(Topic("group", g), {"info"}) : g \in present}

\* The messages of a snapshot (publish_complete_snapshot), of which the last says online.
LEMMA SnapshotContent ==
    ASSUME TypeOK, NEW nodes \in Caches, NEW present \in SUBSET Groups
    PROVE  /\ Snapshot(nodes, present) \in Seq(Messages)
           /\ Range(Snapshot(nodes, present)) = SnapshotMessages(nodes, present)
           /\ \E most \in Seq(Messages) :
                  Snapshot(nodes, present) = most \o <<Publication(StateTopic, {"online"})>>
<1> DEFINE a == Availability("offline")
           b == NodeInventory(nodes)
           c == GroupInventory(present)
           d == ForEach(Present(nodes), LAMBDA n : NodeInfo(n) \o NodeStatus(nodes, n))
           e == ForEach(present, GroupInfo)
           f == Discovery(nodes, present)
           g == Availability("online")
<1>1. /\ a \in Seq(Messages) /\ b \in Seq(Messages) /\ c \in Seq(Messages) /\ g \in Seq(Messages)
      /\ d \in Seq(Messages) /\ e \in Seq(Messages) /\ f \in Seq(Messages)
    BY SmallPublications, ForEachType, DiscoveryType
<1>2. /\ Range(a) = {Publication(StateTopic, {"offline"})}
      /\ Range(g) = {Publication(StateTopic, {"online"})}
    BY ShortRange DEF Availability
<1>3. /\ Range(b) = {Publication(NodesTopic, Present(nodes))}
      /\ Range(c) = {Publication(GroupsTopic, present)}
    BY ShortRange DEF NodeInventory, GroupInventory
<1>4. Range(d) = {Publication(Topic("info", n), {"info"}) : n \in Present(nodes)}
                    \cup {Publication(Topic("status", n), {nodes[n]}) : n \in Present(nodes)}
    <2>1. Range(d) = UNION {Range(NodeInfo(n) \o NodeStatus(nodes, n)) : n \in Present(nodes)}
        BY ForEachType
    <2>2. ASSUME NEW n \in Present(nodes)
          PROVE  Range(NodeInfo(n) \o NodeStatus(nodes, n)) =
                     {Publication(Topic("info", n), {"info"}), Publication(Topic("status", n), {nodes[n]})}
        <3>1. NodeInfo(n) \in Seq(Messages) /\ NodeStatus(nodes, n) \in Seq(Messages)
            BY SmallPublications DEF Present
        <3>2. Range(NodeInfo(n) \o NodeStatus(nodes, n)) = Range(NodeInfo(n)) \cup Range(NodeStatus(nodes, n))
            BY <3>1, ConcatRange
        <3>3. Range(NodeInfo(n)) = {Publication(Topic("info", n), {"info"})}
            BY ShortRange DEF NodeInfo
        <3>4. Range(NodeStatus(nodes, n)) = {Publication(Topic("status", n), {nodes[n]})}
            BY ShortRange DEF NodeStatus
        <3> QED
            BY <3>2, <3>3, <3>4
    <2> HIDE DEF d
    <2>3. \A m : m \in Range(d) <=> \E n \in Present(nodes) :
              m \in Range(NodeInfo(n) \o NodeStatus(nodes, n))
        BY <2>1
    <2>4. \A n \in Present(nodes) : \A m : m \in Range(NodeInfo(n) \o NodeStatus(nodes, n)) <=>
              m = Publication(Topic("info", n), {"info"}) \/ m = Publication(Topic("status", n), {nodes[n]})
        BY <2>2
    <2>5. \A m : m \in Range(d) <=> \E n \in Present(nodes) :
              m = Publication(Topic("info", n), {"info"}) \/ m = Publication(Topic("status", n), {nodes[n]})
        BY <2>3, <2>4, Zenon
    <2> QED
        BY <2>5
<1>5. Range(e) = {Publication(Topic("group", x), {"info"}) : x \in present}
    <2>1. Range(e) = UNION {Range(GroupInfo(x)) : x \in present}
        BY ForEachType
    <2>2. \A x \in present : Range(GroupInfo(x)) = {Publication(Topic("group", x), {"info"})}
        BY ShortRange DEF GroupInfo
    <2> HIDE DEF e
    <2> QED
        BY <2>1, <2>2
<1>6. Range(f) = {Message(HassTopic, Present(nodes) \cup present, known \ (Present(nodes) \cup present))}
    BY DiscoveryType
<1>7. Snapshot(nodes, present) = (((((a \o b) \o c) \o d) \o e) \o f) \o g
    BY DEF Snapshot
<1>8. g = <<Publication(StateTopic, {"online"})>>
    BY DEF Availability
<1> HIDE DEF a, b, c, d, e, f, g
<1> DEFINE s1 == a \o b
           s2 == s1 \o c
           s3 == s2 \o d
           s4 == s3 \o e
           s5 == s4 \o f
<1>11. s1 \in Seq(Messages) /\ Range(s1) = Range(a) \cup Range(b)
    BY <1>1, ConcatRange
<1> HIDE DEF s1
<1>12. s2 \in Seq(Messages) /\ Range(s2) = Range(s1) \cup Range(c)
    BY <1>1, <1>11, ConcatRange
<1> HIDE DEF s2
<1>13. s3 \in Seq(Messages) /\ Range(s3) = Range(s2) \cup Range(d)
    BY <1>1, <1>12, ConcatRange
<1> HIDE DEF s3
<1>14. s4 \in Seq(Messages) /\ Range(s4) = Range(s3) \cup Range(e)
    BY <1>1, <1>13, ConcatRange
<1> HIDE DEF s4
<1>15. s5 \in Seq(Messages) /\ Range(s5) = Range(s4) \cup Range(f)
    BY <1>1, <1>14, ConcatRange
<1> HIDE DEF s5
<1>16. s5 \o g \in Seq(Messages) /\ Range(s5 \o g) = Range(s5) \cup Range(g)
    BY <1>1, <1>15, ConcatRange
<1>17. Snapshot(nodes, present) = s5 \o g
    BY <1>7 DEF s1, s2, s3, s4, s5
<1>18. Range(s5 \o g) = SnapshotMessages(nodes, present)
    <2>1. Range(s5 \o g) = Range(a) \cup Range(b) \cup Range(c) \cup Range(d) \cup Range(e)
                               \cup Range(f) \cup Range(g)
        BY <1>11, <1>12, <1>13, <1>14, <1>15, <1>16
    <2> QED
        BY <2>1, <1>2, <1>3, <1>4, <1>5, <1>6 DEF SnapshotMessages
<1> QED
    BY <1>8, <1>15, <1>16, <1>17, <1>18

-----------------------------------------------------------------------------
(***************************************************************************)
(* Types.                                                                  *)
(***************************************************************************)
\* What a handler publishes is queued as far as there is room, and all of it unless
\* the handler then waits.
LEMMA QueueType ==
    ASSUME TypeOK, NEW pubs \in Seq(Messages), Queue(pubs)
    PROVE  /\ queue' \in Seq(Messages) /\ Len(queue') <= Capacity
           /\ stuck' \in BOOLEAN
           /\ ~stuck' => queue' = queue \o pubs
           /\ \E part \in Seq(Messages) : queue' = queue \o part /\ Range(part) \subseteq Range(pubs)
<1> DEFINE room == Capacity - Len(queue)
           k == Min({room, Len(pubs)})
           part == SubSeq(pubs, 1, k)
<1>1. /\ queue \in Seq(Messages) /\ room \in Nat /\ Len(pubs) \in Nat /\ Len(queue) \in Nat
      /\ Capacity = Len(queue) + room
    BY BoundsAssumption DEF TypeOK
<1> HIDE DEF room
<1>2. k \in {room, Len(pubs)} /\ k <= room /\ k <= Len(pubs)
    BY <1>1, MinSmallest
<1> HIDE DEF k
<1>3. /\ part \in Seq(Messages) /\ Len(part) = k
      /\ \A i \in 1..k : part[i] = pubs[i] /\ i \in DOMAIN pubs
    BY <1>1, <1>2
<1>4. queue' = queue \o part /\ stuck' = (Len(pubs) > room)
    BY DEF Queue, room, k
<1>5. ASSUME ~stuck'
      PROVE  part = pubs
    <2>1. k = Len(pubs)
        <3>1. ~ (Len(pubs) > room)
            BY <1>4, <1>5
        <3> QED
            BY <1>1, <1>2, <3>1
    <2> QED
        BY <1>1, <2>1
<1>6. Range(part) \subseteq Range(pubs)
    BY <1>3 DEF Range
<1> HIDE DEF part
<1>7. queue \o part \in Seq(Messages) /\ Len(queue \o part) <= Capacity
    BY <1>1, <1>2, <1>3
<1>8. stuck' \in BOOLEAN
    BY <1>4
<1>9. ~stuck' => queue' = queue \o pubs
    BY <1>4, <1>5
<1> QED
    BY <1>3, <1>4, <1>6, <1>7, <1>8, <1>9

\* The same for a handler that publishes only while MQTT is connected.
LEMMA QueueIfConnectedType ==
    ASSUME TypeOK, NEW pubs \in Seq(Messages), QueueIfConnected(pubs)
    PROVE  /\ queue' \in Seq(Messages) /\ Len(queue') <= Capacity
           /\ stuck' \in BOOLEAN
           /\ ~stuck' => queue' = queue \o (IF mqttConnected THEN pubs ELSE <<>>)
<1>1. CASE mqttConnected
    <2>1. Queue(pubs)
        BY <1>1 DEF QueueIfConnected
    <2> QED
        BY <1>1, <2>1, QueueType
<1>2. CASE ~mqttConnected
    <2>1. Queue(<<>>) /\ <<>> \in Seq(Messages)
        BY <1>2 DEF QueueIfConnected
    <2> QED
        BY <1>2, <2>1, QueueType
<1> QED
    BY <1>1, <1>2

BrokerRecord == broker = [retained |-> broker.retained, entities |-> broker.entities]
Typed == TypeOK /\ BrokerRecord

\* The parts of TypeOK that a handler's publications are about.
QueueTyped ==
    /\ queue \in Seq(Messages) /\ Len(queue) <= Capacity /\ stuck \in BOOLEAN

\* The initial state.
LEMMA TypedInit == Init => Typed
<1> SUFFICES ASSUME Init
             PROVE  Typed
    OBVIOUS
<1>1. queue \in Seq(Messages) /\ Len(queue) <= Capacity /\ backlog \in Seq(Messages)
    BY BoundsAssumption DEF Init
<1>2. BrokerRecord /\ DOMAIN broker.retained = Topics /\ broker.entities \in SUBSET (Nodes \cup Groups)
    BY DEF Init, BrokerRecord
<1>3. klf \in [client : {"none", "setup", "bridge"}, monitor : {"on", "off"},
               closed : {"never", "clean", "unconfirmed", "lost", "dropped"}]
    BY DEF Init
<1>4. /\ cache \in [Nodes -> Status \cup {Absent}]
      /\ prepared \in [cache : [Nodes -> Status \cup {Absent}], groups : SUBSET Groups]
      /\ groups \in SUBSET Groups /\ known \in SUBSET (Nodes \cup Groups)
    BY DEF Init, Nothing
<1> QED
    BY <1>1, <1>2, <1>3, <1>4 DEF Init, Typed, TypeOK

\* A setup that closes its connection leaves a well-typed one.
LEMMA CloseType ==
    ASSUME TypeOK, NEW confirmed \in BOOLEAN, Close(confirmed)
    PROVE  /\ klf' \in [client : {"none"}, monitor : {"on", "off"}, closed : {"clean", "unconfirmed"}]
           /\ klf'.client = "none" /\ (klf'.monitor = "on" => klf'.closed # "clean")
BY DEF Close, TypeOK

KlfStates == [client : {"none", "setup", "bridge"}, monitor : {"on", "off"},
              closed : {"never", "clean", "unconfirmed", "lost", "dropped"}]

\* The setup task.
LEMMA TypedSetup == Typed /\ (SetupStep \/ StartSetup) => Typed'
<1> SUFFICES ASSUME Typed, SetupStep \/ StartSetup
             PROVE  Typed'
    OBVIOUS
<1>1. klf \in KlfStates
    BY DEF Typed, TypeOK, KlfStates
<1>2. klf' \in KlfStates
    <2>1. CASE SetupConnect
        BY <1>1, <2>1 DEF SetupConnect, KlfStates
    <2>2. ASSUME NEW nodes \in [Nodes -> Status \cup {Absent}], NEW present \in SUBSET Groups,
                 SetupDiscover(nodes, present)
          PROVE  klf' \in KlfStates
        BY <1>1, <2>2 DEF SetupDiscover, KlfStates
    <2>3. CASE SetupEnable
        BY <1>1, <2>3 DEF SetupEnable, KlfStates
    <2>4. ASSUME InFlight
          PROVE  klf' \in KlfStates
        BY <1>1, <2>4 DEF InFlight, KlfStates
    <2>5. CASE SetupFail
        BY <1>1, <2>4, <2>5 DEF SetupFail
    <2>6. CASE SetupCancelled
        BY <1>1, <2>4, <2>6 DEF SetupCancelled
    <2>7. ASSUME NEW confirmed \in BOOLEAN, SetupClose(confirmed)
          PROVE  klf' \in KlfStates
        BY <2>7, CloseType DEF SetupClose, KlfStates, Typed
    <2>8. CASE StartSetup
        BY <1>1, <2>8 DEF StartSetup
    <2> QED
        BY <2>1, <2>2, <2>3, <2>5, <2>6, <2>7, <2>8 DEF SetupStep
<1>3. prepared' \in [cache : [Nodes -> Status \cup {Absent}], groups : SUBSET Groups]
    BY DEF SetupStep, StartSetup, SetupConnect, SetupDiscover, SetupEnable, SetupFail, SetupCancelled,
           SetupClose, Typed, TypeOK, Nothing
<1>4. /\ setup' \in {"none", "connecting", "initializing", "enabling", "closing", "ready", "failed"}
      /\ gateway' = "none" \/ setup' = "none"
      /\ cancel' \in BOOLEAN
    BY DEF SetupStep, StartSetup, SetupConnect, SetupDiscover, SetupEnable, SetupFail, SetupCancelled,
           SetupClose, Typed, TypeOK, Keep
<1>5. Keep
    BY DEF SetupStep, StartSetup, SetupConnect, SetupDiscover, SetupEnable, SetupFail, SetupCancelled,
           SetupClose
<1> QED
    BY <1>2, <1>3, <1>4, <1>5
       DEF Keep, cacheVars, mqttVars, brokerVars, Typed, TypeOK, BrokerRecord, KlfStates

-----------------------------------------------------------------------------
(***************************************************************************)
(* What each handler publishes.                                            *)
(***************************************************************************)
HassMessage(nodes, present) ==
    Message(HassTopic, Present(nodes) \cup present, known \ (Present(nodes) \cup present))

\* The last of the publications is about availability.
EndsWith(pubs, word) == \E most \in Seq(Messages) : pubs = most \o <<Publication(StateTopic, {word})>>

\* handle_setup_result: what was removed is cleared, then a snapshot follows.
LEMMA ReadyPublishes ==
    ASSUME TypeOK, HandleSetupReady
    PROVE  \E pubs \in Seq(Messages) :
               /\ QueueIfConnected(pubs) /\ EndsWith(pubs, "online")
               /\ Range(pubs) =
                      (UNION {Range(ClearNode(n)) : n \in Present(cache) \ Present(prepared.cache)})
                      \cup (UNION {Range(ClearGroup(g)) : g \in groups \ prepared.groups})
                      \cup SnapshotMessages(prepared.cache, prepared.groups)
<1> DEFINE removed == Present(cache) \ Present(prepared.cache)
           removedGroups == groups \ prepared.groups
           a == ForEach(removed, ClearNode)
           b == ForEach(removedGroups, ClearGroup)
           c == Snapshot(prepared.cache, prepared.groups)
<1>1. /\ removed \in SUBSET Nodes /\ removedGroups \in SUBSET Groups
      /\ prepared.cache \in Caches /\ prepared.groups \in SUBSET Groups
    BY DEF TypeOK, Present, Caches
<1>2. QueueIfConnected((a \o b) \o c)
    BY DEF HandleSetupReady
<1> HIDE DEF removed, removedGroups
<1>3. /\ a \in Seq(Messages) /\ Range(a) = UNION {Range(ClearNode(n)) : n \in removed}
      /\ b \in Seq(Messages) /\ Range(b) = UNION {Range(ClearGroup(g)) : g \in removedGroups}
    BY <1>1, ForEachType
<1>4. /\ c \in Seq(Messages) /\ Range(c) = SnapshotMessages(prepared.cache, prepared.groups)
      /\ \E most \in Seq(Messages) : c = most \o <<Publication(StateTopic, {"online"})>>
    BY <1>1, SnapshotContent
<1> HIDE DEF a, b, c
<1>5. a \o b \in Seq(Messages) /\ Range(a \o b) = Range(a) \cup Range(b)
    BY <1>3, ConcatRange
<1>6. (a \o b) \o c \in Seq(Messages) /\ Range((a \o b) \o c) = Range(a \o b) \cup Range(c)
    <2> DEFINE ab == a \o b
    <2>1. ab \in Seq(Messages) /\ c \in Seq(Messages)
        BY <1>4, <1>5
    <2> HIDE DEF ab
    <2>2. ab \o c \in Seq(Messages) /\ Range(ab \o c) = Range(ab) \cup Range(c)
        BY <2>1, ConcatRange
    <2> QED
        BY <2>2 DEF ab
<1>7. PICK most \in Seq(Messages) : c = most \o <<Publication(StateTopic, {"online"})>>
    BY <1>4
<1>8. Publication(StateTopic, {"online"}) \in Messages
    BY PublicationType, TopicsDiffer DEF Words
<1>9. (a \o b) \o c = ((a \o b) \o most) \o <<Publication(StateTopic, {"online"})>>
      /\ (a \o b) \o most \in Seq(Messages)
    BY <1>5, <1>7, <1>8, ConcatAssociative
<1>10. EndsWith((a \o b) \o c, "online")
    BY <1>9 DEF EndsWith
<1> QED
    BY <1>2, <1>3, <1>4, <1>5, <1>6, <1>10 DEF removed, removedGroups

\* handle_response, of a status.
LEMMA StatusPublishes ==
    ASSUME TypeOK, NEW n \in Nodes, NEW status \in Status, StatusChanged(n, status)
    PROVE  \E pubs \in Seq(Messages) :
               QueueIfConnected(pubs) /\ Range(pubs) = {Publication(Topic("status", n), {status})}
<1> DEFINE nodes == [cache EXCEPT ![n] = status]
<1>1. nodes \in Caches /\ nodes[n] = status /\ status # Absent
    BY StatusAssumption DEF TypeOK, Caches
<1>2. QueueIfConnected(NodeStatus(nodes, n))
    BY DEF StatusChanged, Apply
<1>3. NodeStatus(nodes, n) = <<Publication(Topic("status", n), {status})>>
    BY <1>1 DEF NodeStatus
<1>4. NodeStatus(nodes, n) \in Seq(Messages)
    BY <1>1, SmallPublications
<1> QED
    BY <1>2, <1>3, <1>4, ShortRange

\* handle_response, of the information record of a node.
LEMMA NodePublishes ==
    ASSUME TypeOK, NEW n \in Nodes, NEW status \in Status, NodeReported(n, status)
    PROVE  LET nodes == [cache EXCEPT ![n] = status] IN
           \E pubs \in Seq(Messages) :
               /\ QueueIfConnected(pubs)
               /\ Range(pubs) = (IF cache[n] = Absent THEN {Publication(NodesTopic, Present(nodes))} ELSE {})
                                    \cup {Publication(Topic("info", n), {"info"}), HassMessage(nodes, groups),
                                          Publication(Topic("status", n), {status})}
<1> DEFINE nodes == [cache EXCEPT ![n] = status]
           a == IF cache[n] = Absent THEN NodeInventory(nodes) ELSE <<>>
           b == NodeInfo(n)
           c == Discovery(nodes, groups)
           d == NodeStatus(nodes, n)
<1>1. nodes \in Caches /\ nodes[n] = status /\ status # Absent /\ groups \in SUBSET Groups
    BY StatusAssumption DEF TypeOK, Caches
<1>2. QueueIfConnected(((a \o b) \o c) \o d)
    BY DEF NodeReported, Apply
<1> HIDE DEF nodes
<1>3. /\ a \in Seq(Messages)
      /\ Range(a) = IF cache[n] = Absent THEN {Publication(NodesTopic, Present(nodes))} ELSE {}
    <2>1. NodeInventory(nodes) \in Seq(Messages) /\ <<>> \in Seq(Messages)
        BY <1>1, SmallPublications
    <2>2. Range(NodeInventory(nodes)) = {Publication(NodesTopic, Present(nodes))}
        BY ShortRange DEF NodeInventory
    <2> QED
        BY <2>1, <2>2, ShortRange
<1>4. b \in Seq(Messages) /\ Range(b) = {Publication(Topic("info", n), {"info"})}
    BY SmallPublications, ShortRange DEF NodeInfo
<1>5. c \in Seq(Messages) /\ Range(c) = {HassMessage(nodes, groups)}
    BY <1>1, DiscoveryType DEF HassMessage
<1>6. d \in Seq(Messages) /\ Range(d) = {Publication(Topic("status", n), {status})}
    <2>1. d = <<Publication(Topic("status", n), {status})>>
        BY <1>1 DEF NodeStatus
    <2> QED
        BY <1>1, <2>1, SmallPublications, ShortRange
<1> HIDE DEF a, b, c, d
<1>7. a \o b \in Seq(Messages) /\ Range(a \o b) = Range(a) \cup Range(b)
    BY <1>3, <1>4, ConcatRange
<1>8. (a \o b) \o c \in Seq(Messages) /\ Range((a \o b) \o c) = Range(a \o b) \cup Range(c)
    <2> DEFINE ab == a \o b
    <2>1. ab \in Seq(Messages)
        BY <1>7
    <2> HIDE DEF ab
    <2>2. ab \o c \in Seq(Messages) /\ Range(ab \o c) = Range(ab) \cup Range(c)
        BY <1>5, <2>1, ConcatRange
    <2> QED
        BY <2>2 DEF ab
<1>9. /\ ((a \o b) \o c) \o d \in Seq(Messages)
      /\ Range(((a \o b) \o c) \o d) = Range((a \o b) \o c) \cup Range(d)
    <2> DEFINE abc == (a \o b) \o c
    <2>1. abc \in Seq(Messages)
        BY <1>8
    <2> HIDE DEF abc
    <2>2. abc \o d \in Seq(Messages) /\ Range(abc \o d) = Range(abc) \cup Range(d)
        BY <1>6, <2>1, ConcatRange, ZenonT(60)
    <2> QED
        BY <2>2 DEF abc
<1>10. Range(((a \o b) \o c) \o d) =
           (IF cache[n] = Absent THEN {Publication(NodesTopic, Present(nodes))} ELSE {})
               \cup {Publication(Topic("info", n), {"info"}), HassMessage(nodes, groups),
                     Publication(Topic("status", n), {status})}
    BY <1>3, <1>4, <1>5, <1>6, <1>7, <1>8, <1>9
<1> QED
    BY <1>2, <1>9, <1>10 DEF nodes

\* apply_group_response, of a new or changed group.
LEMMA GroupPublishes ==
    ASSUME TypeOK, NEW g \in Groups, GroupReported(g)
    PROVE  LET present == groups \cup {g} IN
           \E pubs \in Seq(Messages) :
               /\ QueueIfConnected(pubs)
               /\ Range(pubs) = {Publication(GroupsTopic, present),
                                 Publication(Topic("group", g), {"info"}), HassMessage(cache, present)}
<1> DEFINE present == groups \cup {g}
           a == GroupInventory(present)
           b == GroupInfo(g)
           c == Discovery(cache, present)
<1>1. cache \in Caches /\ present \in SUBSET Groups
    BY DEF TypeOK, Caches
<1>2. QueueIfConnected((a \o b) \o c)
    BY DEF GroupReported, Apply
<1> HIDE DEF present
<1>3. a \in Seq(Messages) /\ Range(a) = {Publication(GroupsTopic, present)}
    BY <1>1, SmallPublications, ShortRange DEF GroupInventory
<1>4. b \in Seq(Messages) /\ Range(b) = {Publication(Topic("group", g), {"info"})}
    BY SmallPublications, ShortRange DEF GroupInfo
<1>5. c \in Seq(Messages) /\ Range(c) = {HassMessage(cache, present)}
    BY <1>1, DiscoveryType DEF HassMessage
<1> HIDE DEF a, b, c
<1>6. a \o b \in Seq(Messages) /\ Range(a \o b) = Range(a) \cup Range(b)
    BY <1>3, <1>4, ConcatRange
<1>7. (a \o b) \o c \in Seq(Messages) /\ Range((a \o b) \o c) = Range(a \o b) \cup Range(c)
    <2> DEFINE ab == a \o b
    <2>1. ab \in Seq(Messages)
        BY <1>6
    <2> HIDE DEF ab
    <2>2. ab \o c \in Seq(Messages) /\ Range(ab \o c) = Range(ab) \cup Range(c)
        BY <1>5, <2>1, ConcatRange
    <2> QED
        BY <2>2 DEF ab
<1>8. Range((a \o b) \o c) = {Publication(GroupsTopic, present),
                              Publication(Topic("group", g), {"info"}), HassMessage(cache, present)}
    BY <1>3, <1>4, <1>5, <1>6, <1>7
<1> QED
    BY <1>2, <1>7, <1>8 DEF present

\* apply_group_response, of a group that is gone.
LEMMA GroupGonePublishes ==
    ASSUME TypeOK, NEW g \in Groups, GroupDeleted(g)
    PROVE  LET present == groups \ {g} IN
           \E pubs \in Seq(Messages) :
               /\ QueueIfConnected(pubs)
               /\ Range(pubs) = {Publication(GroupsTopic, present),
                                 Publication(Topic("group", g), {}), HassMessage(cache, present)}
<1> DEFINE present == groups \ {g}
           a == GroupInventory(present)
           b == ClearGroup(g)
           c == Discovery(cache, present)
<1>1. cache \in Caches /\ present \in SUBSET Groups
    BY DEF TypeOK, Caches
<1>2. QueueIfConnected((a \o b) \o c)
    BY DEF GroupDeleted, Apply
<1> HIDE DEF present
<1>3. a \in Seq(Messages) /\ Range(a) = {Publication(GroupsTopic, present)}
    BY <1>1, SmallPublications, ShortRange DEF GroupInventory
<1>4. b \in Seq(Messages) /\ Range(b) = {Publication(Topic("group", g), {})}
    BY SmallPublications, ShortRange DEF ClearGroup
<1>5. c \in Seq(Messages) /\ Range(c) = {HassMessage(cache, present)}
    BY <1>1, DiscoveryType DEF HassMessage
<1> HIDE DEF a, b, c
<1>6. a \o b \in Seq(Messages) /\ Range(a \o b) = Range(a) \cup Range(b)
    BY <1>3, <1>4, ConcatRange
<1>7. (a \o b) \o c \in Seq(Messages) /\ Range((a \o b) \o c) = Range(a \o b) \cup Range(c)
    <2> DEFINE ab == a \o b
    <2>1. ab \in Seq(Messages)
        BY <1>6
    <2> HIDE DEF ab
    <2>2. ab \o c \in Seq(Messages) /\ Range(ab \o c) = Range(ab) \cup Range(c)
        BY <1>5, <2>1, ConcatRange
    <2> QED
        BY <2>2 DEF ab
<1>8. Range((a \o b) \o c) = {Publication(GroupsTopic, present),
                              Publication(Topic("group", g), {}), HassMessage(cache, present)}
    BY <1>3, <1>4, <1>5, <1>6, <1>7
<1> QED
    BY <1>2, <1>7, <1>8 DEF present

\* handle_mqtt_result: after the subscription a snapshot if there is a gateway, else
\* that there is none.
LEMMA ConnectPublishes ==
    ASSUME TypeOK, MqttConnects
    PROVE  \E pubs \in Seq(Messages) :
               /\ Queue(pubs)
               /\ gateway = "some" =>
                      /\ EndsWith(pubs, "online")
                      /\ Range(pubs) = {Publication(SubscribeTopic, {"on"})} \cup SnapshotMessages(cache, groups)
               /\ gateway # "some" =>
                      /\ EndsWith(pubs, "offline")
                      /\ Range(pubs) = {Publication(SubscribeTopic, {"on"}), Publication(StateTopic, {"offline"})}
<1> DEFINE a == <<Publication(SubscribeTopic, {"on"})>>
           b == Snapshot(cache, groups)
<1>1. /\ Publication(SubscribeTopic, {"on"}) \in Messages
      /\ Publication(StateTopic, {"online"}) \in Messages
      /\ Publication(StateTopic, {"offline"}) \in Messages
    BY PublicationType, TopicsDiffer DEF Words
<1>2. a \in Seq(Messages) /\ Range(a) = {Publication(SubscribeTopic, {"on"})}
    BY <1>1, ShortRange
<1>3. CASE gateway = "some"
    <2>1. cache \in Caches /\ groups \in SUBSET Groups
        BY DEF TypeOK, Caches
    <2>2. /\ b \in Seq(Messages) /\ Range(b) = SnapshotMessages(cache, groups)
          /\ \E most \in Seq(Messages) : b = most \o <<Publication(StateTopic, {"online"})>>
        BY <2>1, SnapshotContent
    <2>3. Queue(a \o b)
        BY <1>3 DEF MqttConnects
    <2> HIDE DEF a, b
    <2>4. a \o b \in Seq(Messages) /\ Range(a \o b) = Range(a) \cup Range(b)
        <3>1. a \in Seq(Messages) /\ b \in Seq(Messages)
            BY <1>2, <2>2
        <3> QED
            BY <3>1, ConcatRange
    <2>5. PICK most \in Seq(Messages) : b = most \o <<Publication(StateTopic, {"online"})>>
        BY <2>2
    <2>6. /\ a \o b = (a \o most) \o <<Publication(StateTopic, {"online"})>>
          /\ a \o most \in Seq(Messages)
        BY <1>1, <1>2, <2>5, ConcatAssociative
    <2>7. EndsWith(a \o b, "online")
        BY <2>6 DEF EndsWith
    <2> QED
        BY <1>2, <1>3, <2>2, <2>3, <2>4, <2>7
<1>4. CASE gateway # "some"
    <2> DEFINE c == <<Publication(StateTopic, {"offline"})>>
    <2>1. Queue(a \o c)
        BY <1>4 DEF MqttConnects, Availability
    <2>2. c \in Seq(Messages) /\ Range(c) = {Publication(StateTopic, {"offline"})}
        BY <1>1, ShortRange
    <2>3. EndsWith(a \o c, "offline")
        BY <1>2 DEF EndsWith
    <2> HIDE DEF a, c
    <2>4. a \o c \in Seq(Messages) /\ Range(a \o c) = Range(a) \cup Range(c)
        BY <1>2, <2>2, ConcatRange
    <2>5. Range(a \o c) = {Publication(SubscribeTopic, {"on"}), Publication(StateTopic, {"offline"})}
        BY <1>2, <2>2, <2>4
    <2> QED
        BY <1>4, <2>1, <2>3, <2>4, <2>5
<1> QED
    BY <1>3, <1>4

\* Every handler that says that the gateway is gone.
LEMMA OfflinePublishes ==
    /\ Availability("offline") = <<Publication(StateTopic, {"offline"})>>
    /\ Availability("offline") \in Seq(Messages)
BY SmallPublications DEF Availability

-----------------------------------------------------------------------------
(***************************************************************************)
(* Every action keeps the types.                                           *)
(***************************************************************************)
\* The handlers of the gateway: setup results, failures and reboots.
LEMMA TypedGateway ==
    ASSUME Typed, \/ HandleSetupReady \/ HandleSetupFailed
                  \/ \E how \in {"lost", "dropped"} : GatewayFailed(how)
                  \/ \E confirmed \in BOOLEAN : RebootCommand(confirmed)
    PROVE  Typed'
<1> USE DEF Typed
<1>1. CASE HandleSetupReady
    <2>1. PICK pubs \in Seq(Messages) : QueueIfConnected(pubs)
        BY <1>1, ReadyPublishes
    <2>2. QueueTyped'
        BY <2>1, QueueIfConnectedType DEF QueueTyped
    <2>3. klf' \in KlfStates
        BY <1>1 DEF HandleSetupReady, TypeOK, KlfStates
    <2>4. /\ prepared' \in [cache : [Nodes -> Status \cup {Absent}], groups : SUBSET Groups]
          /\ cache' \in [Nodes -> Status \cup {Absent}] /\ groups' \in SUBSET Groups
        BY <1>1 DEF HandleSetupReady, TypeOK, Nothing
    <2>5. known' \in SUBSET (Nodes \cup Groups)
        BY <1>1, <2>4 DEF HandleSetupReady, TypeOK, Present
    <2> QED
        BY <1>1, <2>2, <2>3, <2>4, <2>5
           DEF HandleSetupReady, brokerVars, TypeOK, BrokerRecord, QueueTyped, KlfStates
<1>2. CASE HandleSetupFailed
    <2>1. QueueIfConnected(Availability("offline"))
        BY <1>2 DEF HandleSetupFailed
    <2>2. QueueTyped'
        BY <2>1, QueueIfConnectedType, OfflinePublishes DEF QueueTyped
    <2> QED
        BY <1>2, <2>2
           DEF HandleSetupFailed, cacheVars, brokerVars, TypeOK, BrokerRecord, QueueTyped
<1>3. ASSUME NEW how \in {"lost", "dropped"}, GatewayFailed(how)
      PROVE  Typed'
    <2>1. QueueIfConnected(Availability("offline"))
        BY <1>3 DEF GatewayFailed
    <2>2. QueueTyped'
        BY <2>1, QueueIfConnectedType, OfflinePublishes DEF QueueTyped
    <2>3. klf' \in KlfStates
        BY <1>3 DEF GatewayFailed, TypeOK, KlfStates
    <2> QED
        BY <1>3, <2>2, <2>3
           DEF GatewayFailed, setupVars, cacheVars, brokerVars, TypeOK, BrokerRecord, QueueTyped,
               KlfStates
<1>4. ASSUME NEW confirmed \in BOOLEAN, RebootCommand(confirmed)
      PROVE  Typed'
    <2>1. QueueIfConnected(Availability("offline")) /\ Close(confirmed)
        BY <1>4 DEF RebootCommand
    <2>2. QueueTyped'
        BY <2>1, QueueIfConnectedType, OfflinePublishes DEF QueueTyped
    <2>3. klf' \in KlfStates
        BY <2>1, CloseType DEF KlfStates
    <2> QED
        BY <1>4, <2>2, <2>3
           DEF RebootCommand, setupVars, cacheVars, brokerVars, TypeOK, BrokerRecord, QueueTyped,
               KlfStates
<1> QED
    BY <1>1, <1>2, <1>3, <1>4

\* The handlers of what the gateway reports.
LEMMA TypedReport ==
    ASSUME Typed, \/ \E n \in Nodes, status \in Status : StatusChanged(n, status) \/ NodeReported(n, status)
                  \/ \E g \in Groups : GroupReported(g) \/ GroupDeleted(g)
    PROVE  Typed'
<1> USE DEF Typed
<1>1. ASSUME QueueTyped', UNCHANGED <<phase, signal, gateway, setupVars, klf, brokerVars>>,
             cache' \in [Nodes -> Status \cup {Absent}], groups' \in SUBSET Groups,
             known' \in SUBSET (Nodes \cup Groups)
      PROVE  Typed'
    BY <1>1 DEF setupVars, brokerVars, TypeOK, BrokerRecord, QueueTyped
<1>2. ASSUME NEW n \in Nodes, NEW status \in Status, StatusChanged(n, status)
      PROVE  Typed'
    <2>1. PICK pubs \in Seq(Messages) : QueueIfConnected(pubs)
        BY <1>2, StatusPublishes
    <2>2. QueueTyped'
        BY <2>1, QueueIfConnectedType DEF QueueTyped
    <2> QED
        BY <1>1, <1>2, <2>2 DEF StatusChanged, Apply, TypeOK
<1>3. ASSUME NEW n \in Nodes, NEW status \in Status, NodeReported(n, status)
      PROVE  Typed'
    <2>1. PICK pubs \in Seq(Messages) : QueueIfConnected(pubs)
        BY <1>3, NodePublishes
    <2>2. QueueTyped'
        BY <2>1, QueueIfConnectedType DEF QueueTyped
    <2> QED
        BY <1>1, <1>3, <2>2 DEF NodeReported, Apply, TypeOK, Present
<1>4. ASSUME NEW g \in Groups, GroupReported(g)
      PROVE  Typed'
    <2>1. PICK pubs \in Seq(Messages) : QueueIfConnected(pubs)
        BY <1>4, GroupPublishes
    <2>2. QueueTyped'
        BY <2>1, QueueIfConnectedType DEF QueueTyped
    <2> QED
        BY <1>1, <1>4, <2>2 DEF GroupReported, Apply, TypeOK, Present
<1>5. ASSUME NEW g \in Groups, GroupDeleted(g)
      PROVE  Typed'
    <2>1. PICK pubs \in Seq(Messages) : QueueIfConnected(pubs)
        BY <1>5, GroupGonePublishes
    <2>2. QueueTyped'
        BY <2>1, QueueIfConnectedType DEF QueueTyped
    <2> QED
        BY <1>1, <1>5, <2>2 DEF GroupDeleted, Apply, TypeOK, Present
<1> QED
    BY <1>2, <1>3, <1>4, <1>5

\* What has been delivered, or lost with a connection, and what waits behind it.
LEMMA DeliveredType ==
    ASSUME Typed, NEW count \in 0..Len(Waiting)
    PROVE  /\ Waiting \in Seq(Messages)
           /\ Delivered(count) = [retained |-> Delivered(count).retained,
                                  entities |-> Delivered(count).entities]
           /\ DOMAIN Delivered(count).retained = Topics
           /\ Delivered(count).entities \in SUBSET (Nodes \cup Groups)
<1>1. Waiting \in Seq(Messages)
    BY DEF Typed, TypeOK, Waiting
<1> QED
    BY <1>1 DEF Delivered, Retained, Entities

\* A broker that has published the last will.
LEMMA DesertedType ==
    ASSUME NEW state, state = [retained |-> state.retained, entities |-> state.entities],
           DOMAIN state.retained = Topics, state.entities \in SUBSET (Nodes \cup Groups)
    PROVE  LET b == Deserted(state)
           IN  /\ b = [retained |-> b.retained, entities |-> b.entities]
               /\ DOMAIN b.retained = Topics /\ b.entities = state.entities
               /\ b.retained[StateTopic] = {"offline"}
               /\ \A t \in Topics \ {StateTopic, SubscribeTopic} : b.retained[t] = state.retained[t]
<1>1. StateTopic \in Topics /\ SubscribeTopic \in Topics
    BY TopicsDiffer
<1>4. StateTopic # SubscribeTopic
    BY DEF StateTopic, SubscribeTopic, Topic
<1> DEFINE r == [[state.retained EXCEPT ![StateTopic] = {"offline"}] EXCEPT ![SubscribeTopic] = {}]
<1>2. Deserted(state) = [retained |-> r, entities |-> state.entities]
    <2> DEFINE one == [state EXCEPT !.retained = [@ EXCEPT ![StateTopic] = {"offline"}]]
               two == [one EXCEPT !.retained = [@ EXCEPT ![SubscribeTopic] = {}]]
    <2>1. Deserted(state) = two
        BY DEF Deserted
    <2>2. one = [retained |-> [state.retained EXCEPT ![StateTopic] = {"offline"}],
                 entities |-> state.entities]
        OBVIOUS
    <2> HIDE DEF one
    <2>3. two = [retained |-> r, entities |-> state.entities]
        BY <2>2
    <2> QED
        BY <2>1, <2>3
<1>3. /\ DOMAIN r = Topics /\ r[StateTopic] = {"offline"}
      /\ \A t \in Topics \ {StateTopic, SubscribeTopic} : r[t] = state.retained[t]
    BY <1>1, <1>4
<1> HIDE DEF r
<1> QED
    BY <1>2, <1>3

\* MQTT: connections, failures, deliveries.
LEMMA TypedMqtt ==
    ASSUME Typed, \/ MqttConnects \/ MqttUnreadable \/ \E kept \in BOOLEAN : MqttFails(kept)
                  \/ Flush \/ \E count \in 0..Len(Waiting) : LinkLost(count)
    PROVE  Typed'
<1> USE DEF Typed
<1>1. CASE MqttConnects
    <2>1. PICK pubs \in Seq(Messages) : Queue(pubs)
        BY <1>1, ConnectPublishes
    <2>2. QueueTyped'
        BY <2>1, QueueType DEF QueueTyped
    <2>3. known' \in SUBSET (Nodes \cup Groups)
        BY <1>1 DEF MqttConnects, TypeOK, Present
    <2> QED
        BY <1>1, <2>2, <2>3 DEF MqttConnects, setupVars, TypeOK, BrokerRecord, QueueTyped
<1>2. CASE MqttUnreadable
    <2>1. mqttConnected' \in BOOLEAN
        BY <1>2 DEF MqttUnreadable
    <2> QED
        BY <1>2, <2>1 DEF MqttUnreadable, setupVars, cacheVars, mqttVars, TypeOK, BrokerRecord
<1>3. ASSUME NEW kept \in BOOLEAN, MqttFails(kept)
      PROVE  Typed'
    <2>1. queue' = <<>> /\ backlog' \in Seq(Messages)
        BY <1>3 DEF MqttFails, TypeOK
    <2>2. queue' \in Seq(Messages) /\ Len(queue') <= Capacity
        BY <2>1, BoundsAssumption
    <2>3. mqttConnected' \in BOOLEAN
        BY <1>3 DEF MqttFails
    <2> QED
        BY <1>3, <2>1, <2>2, <2>3 DEF MqttFails, setupVars, cacheVars, TypeOK, BrokerRecord
<1>4. CASE Flush
    <2>1. Len(Waiting) \in 0..Len(Waiting)
        BY DEF Waiting, TypeOK
    <2>2. queue' \in Seq(Messages) /\ Len(queue') <= Capacity /\ backlog' \in Seq(Messages)
        BY <1>4, BoundsAssumption DEF Flush
    <2>3. /\ broker' = [retained |-> broker'.retained, entities |-> broker'.entities]
          /\ DOMAIN broker'.retained = Topics
          /\ broker'.entities \in SUBSET (Nodes \cup Groups)
        BY <1>4, <2>1, DeliveredType DEF Flush
    <2> QED
        BY <1>4, <2>2, <2>3 DEF Flush, setupVars, cacheVars, TypeOK, BrokerRecord
<1>5. ASSUME NEW count \in 0..Len(Waiting), LinkLost(count)
      PROVE  Typed'
    <2>1. /\ queue \in Seq(Messages) /\ backlog \in Seq(Messages) /\ Len(queue) <= Capacity
          /\ Len(Waiting) = Len(backlog) + Len(queue) /\ count \in Nat
          /\ Len(queue) \in Nat /\ Len(backlog) \in Nat /\ Capacity \in Nat
        BY BoundsAssumption DEF Waiting, TypeOK
    <2>2. backlog' \in Seq(Messages)
        <3>1. backlog' = SubSeq(backlog, count + 1, Len(backlog))
            BY <1>5 DEF LinkLost
        <3>2. \A i \in (count + 1)..Len(backlog) : i \in 1..Len(backlog)
            BY <2>1
        <3> QED
            BY <2>1, <3>1, <3>2, SubSeqProperties
    <2>3. queue' \in Seq(Messages) /\ Len(queue') <= Capacity
        <3>1. CASE count <= Len(backlog)
            BY <1>5, <2>1, <3>1 DEF LinkLost
        <3>2. CASE ~ (count <= Len(backlog))
            <4> DEFINE k == count - Len(backlog)
            <4>1. k \in Nat /\ k <= Len(queue) /\ k + 1 \in 1..(Len(queue) + 1)
                BY <2>1, <3>2
            <4>2. queue' = SubSeq(queue, k + 1, Len(queue))
                BY <1>5, <3>2 DEF LinkLost
            <4> HIDE DEF k
            <4>3. /\ SubSeq(queue, k + 1, Len(queue)) \in Seq(Messages)
                  /\ Len(SubSeq(queue, k + 1, Len(queue))) <= Len(queue)
                BY <2>1, <4>1
            <4> QED
                BY <2>1, <4>2, <4>3
        <3> QED
            BY <3>1, <3>2
    <2>4. /\ broker' = [retained |-> broker'.retained, entities |-> broker'.entities]
          /\ DOMAIN broker'.retained = Topics
          /\ broker'.entities \in SUBSET (Nodes \cup Groups)
        <3>1. broker' = Deserted(Delivered(count))
            BY <1>5 DEF LinkLost
        <3> QED
            BY <3>1, DeliveredType, DesertedType
    <2> QED
        BY <1>5, <2>2, <2>3, <2>4 DEF LinkLost, setupVars, cacheVars, TypeOK, BrokerRecord
<1> QED
    BY <1>1, <1>2, <1>3, <1>4, <1>5

\* The steps of a shutdown.
LEMMA TypedShutdown ==
    ASSUME Typed, Signal \/ Shutdown
    PROVE  Typed'
<1> USE DEF Typed
<1>1. CASE Signal \/ HandleSignal
    <2>1. signal' \in BOOLEAN /\ cancel' \in BOOLEAN
        BY <1>1 DEF Signal, HandleSignal, setupVars, TypeOK
    <2> QED
        BY <1>1, <2>1 DEF Signal, HandleSignal, setupVars, cacheVars, mqttVars, brokerVars, TypeOK, BrokerRecord
<1>2. CASE RequestDisconnect
    <2>1. CASE mqttConnected
        <3>1. Queue(<<Publication(DisconnectTopic, {})>>)
            BY <1>2, <2>1 DEF RequestDisconnect
        <3>2. Publication(DisconnectTopic, {}) \in Messages
            BY PublicationType, TopicsDiffer
        <3>3. <<Publication(DisconnectTopic, {})>> \in Seq(Messages)
            BY <3>2
        <3>4. QueueTyped'
            BY <3>1, <3>3, QueueType DEF QueueTyped
        <3>5. phase' \in {"parting", "disconnecting"}
            BY <1>2, <2>1 DEF RequestDisconnect
        <3> QED
            BY <1>2, <2>1, <3>4, <3>5
               DEF RequestDisconnect, setupVars, cacheVars, TypeOK, BrokerRecord, QueueTyped
    <2>2. CASE ~mqttConnected
        <3>1. /\ broker' = [retained |-> broker'.retained, entities |-> broker'.entities]
              /\ DOMAIN broker'.retained = Topics
              /\ broker'.entities \in SUBSET (Nodes \cup Groups)
            <4>1. broker' = Deserted(broker) \/ broker' = broker
                BY <1>2, <2>2 DEF RequestDisconnect
            <4>2. CASE broker' = Deserted(broker)
                BY <4>2, DesertedType DEF TypeOK, BrokerRecord
            <4> QED
                BY <4>1, <4>2 DEF TypeOK, BrokerRecord
        <3> QED
            BY <1>2, <2>2, <3>1
               DEF RequestDisconnect, setupVars, cacheVars, mqttVars, TypeOK, BrokerRecord
    <2> QED
        BY <2>1, <2>2
<1>3. ASSUME NEW count \in 0..Len(Waiting), Disconnected(count)
      PROVE  Typed'
    <2>1. queue' \in Seq(Messages) /\ Len(queue') <= Capacity /\ backlog' \in Seq(Messages)
        BY <1>3, BoundsAssumption DEF Disconnected
    <2>2. /\ broker' = [retained |-> broker'.retained, entities |-> broker'.entities]
          /\ DOMAIN broker'.retained = Topics
          /\ broker'.entities \in SUBSET (Nodes \cup Groups)
        <3>1. broker' \in {Delivered(count), Deserted(Delivered(count)), broker}
            BY <1>3 DEF Disconnected
        <3>2. CASE broker' = Delivered(count)
            BY <3>2, DeliveredType
        <3>3. CASE broker' = Deserted(Delivered(count))
            BY <3>3, DeliveredType, DesertedType
        <3>4. CASE broker' = broker
            BY <3>4 DEF TypeOK, BrokerRecord
        <3> QED
            BY <3>1, <3>2, <3>3, <3>4
    <2> QED
        BY <1>3, <2>1, <2>2 DEF Disconnected, setupVars, cacheVars, TypeOK, BrokerRecord
<1>4. ASSUME NEW confirmed \in BOOLEAN, SetupJoined(confirmed)
      PROVE  Typed'
    <2>1. klf' \in KlfStates
        BY <1>4, CloseType DEF SetupJoined, TypeOK, KlfStates
    <2>2. prepared' \in [cache : [Nodes -> Status \cup {Absent}], groups : SUBSET Groups]
        BY <1>4 DEF SetupJoined, Nothing
    <2> QED
        BY <1>4, <2>1, <2>2
           DEF SetupJoined, cacheVars, mqttVars, brokerVars, TypeOK, BrokerRecord, KlfStates
<1>5. ASSUME NEW confirmed \in BOOLEAN, CloseGateway(confirmed)
      PROVE  Typed'
    <2>1. QueueIfConnected(Availability("offline"))
        BY <1>5 DEF CloseGateway
    <2>2. QueueTyped'
        BY <2>1, QueueIfConnectedType, OfflinePublishes DEF QueueTyped
    <2>3. klf' \in KlfStates
        BY <1>5, CloseType DEF CloseGateway, TypeOK, KlfStates
    <2>4. gateway' \in {"none", gateway} /\ phase' \in {"closing", "parting"}
        BY <1>5 DEF CloseGateway
    <2> QED
        BY <1>5, <2>2, <2>3, <2>4
           DEF CloseGateway, setupVars, cacheVars, brokerVars, TypeOK, BrokerRecord, QueueTyped,
               KlfStates
<1> QED
    BY <1>1, <1>2, <1>3, <1>4, <1>5 DEF Shutdown

\* Every step keeps the types.
LEMMA TypedNext == Typed /\ [Next]_vars => Typed'
<1> SUFFICES ASSUME Typed, [Next]_vars
             PROVE  Typed'
    OBVIOUS
<1>1. CASE UNCHANGED vars
    BY <1>1 DEF vars, setupVars, cacheVars, mqttVars, brokerVars, Typed, TypeOK, BrokerRecord
<1> QED
    BY <1>1, TypedSetup, TypedGateway, TypedReport, TypedMqtt, TypedShutdown DEF Next, GatewayEvent

\* Every variable of the bridge keeps its type, the request channel keeps to its
\* capacity, and a gateway and a setup task never exist together (the reconnect
\* branch of run_until).
THEOREM TypeCorrect == Spec => []TypeOK
<1>1. Typed => TypeOK
    BY DEF Typed
<1> QED
    BY <1>1, TypedInit, TypedNext, PTL DEF Spec

-----------------------------------------------------------------------------
(***************************************************************************)
(* Who owns the KLF connection.  StopIsClean says nothing of the states    *)
(* before the stop; Owners says of every state who has to close the        *)
(* connection, and that nothing is dropped with the monitor on and called  *)
(* clean.                                                                  *)
(***************************************************************************)
Owners ==
    /\ klf.client = "setup" <=> setup \in {"initializing", "enabling", "closing", "ready"}
    /\ klf.client = "bridge" <=> gateway = "some"
    /\ phase \in {"closing", "parting", "disconnecting", "stopped"} => setup = "none"
    /\ phase \in {"parting", "disconnecting", "stopped"} => gateway = "none"
    /\ (klf.client = "none" /\ klf.monitor = "on") => klf.closed # "clean"

\* The initial state.
LEMMA OwnersInit == Init => Owners
BY DEF Init, Owners

\* The steps of the setup task.
LEMMA OwnersSetup ==
    ASSUME TypeOK, Owners, SetupStep \/ StartSetup
    PROVE  Owners'
<1>1. klf \in KlfStates
    BY DEF TypeOK, KlfStates
<1>2. phase' = phase /\ gateway' = gateway
    BY DEF SetupStep, StartSetup, SetupConnect, SetupDiscover, SetupEnable, SetupFail, SetupCancelled,
           SetupClose, Keep
<1>3. CASE SetupConnect
    <2>1. klf'.client = "setup" /\ klf'.monitor = klf.monitor /\ klf'.closed = klf.closed
        BY <1>1, <1>3 DEF SetupConnect, KlfStates
    <2> QED
        BY <1>2, <1>3, <2>1 DEF SetupConnect, Owners, TypeOK
<1>4. ASSUME NEW nodes \in [Nodes -> Status \cup {Absent}], NEW present \in SUBSET Groups,
             SetupDiscover(nodes, present)
      PROVE  Owners'
    <2>1. klf'.client = klf.client
        BY <1>1, <1>4 DEF SetupDiscover, KlfStates
    <2> QED
        BY <1>2, <1>4, <2>1 DEF SetupDiscover, Owners, TypeOK
<1>5. CASE SetupEnable
    <2>1. klf'.client = klf.client
        BY <1>1, <1>5 DEF SetupEnable, KlfStates
    <2> QED
        BY <1>2, <1>5, <2>1 DEF SetupEnable, Owners, TypeOK
<1>6. CASE SetupFail \/ SetupCancelled
    <2>1. CASE setup = "connecting"
        BY <1>2, <1>6, <2>1 DEF SetupFail, SetupCancelled, Owners, TypeOK
    <2>2. CASE setup # "connecting"
        <3>1. setup \in {"initializing", "enabling"} /\ setup' = "closing" /\ InFlight
            BY <1>6, <2>2 DEF SetupFail, SetupCancelled
        <3>2. klf'.client = klf.client
            BY <1>1, <3>1 DEF InFlight, KlfStates
        <3> QED
            BY <1>2, <3>1, <3>2 DEF Owners, TypeOK
    <2> QED
        BY <2>1, <2>2
<1>7. ASSUME NEW confirmed \in BOOLEAN, SetupClose(confirmed)
      PROVE  Owners'
    <2>1. klf'.client = "none" /\ (klf'.monitor = "on" => klf'.closed # "clean")
        BY <1>7, CloseType DEF SetupClose
    <2> QED
        BY <1>2, <1>7, <2>1 DEF SetupClose, Owners, TypeOK
<1>8. CASE StartSetup
    BY <1>2, <1>8 DEF StartSetup, Polling, Owners, TypeOK
<1> QED
    BY <1>3, <1>4, <1>5, <1>6, <1>7, <1>8 DEF SetupStep

\* The handlers that take over or give up a connection, and the shutdown.
LEMMA OwnersHandlers ==
    ASSUME TypeOK, Owners,
           \/ HandleSetupReady \/ HandleSetupFailed
           \/ \E how \in {"lost", "dropped"} : GatewayFailed(how)
           \/ \E confirmed \in BOOLEAN : RebootCommand(confirmed)
           \/ HandleSignal
           \/ \E confirmed \in BOOLEAN : SetupJoined(confirmed) \/ CloseGateway(confirmed)
    PROVE  Owners'
<1>1. klf \in KlfStates
    BY DEF TypeOK, KlfStates
<1>2. CASE HandleSetupReady
    <2>1. klf'.client = "bridge"
        BY <1>1, <1>2 DEF HandleSetupReady, KlfStates
    <2> QED
        BY <1>2, <2>1 DEF HandleSetupReady, Polling, Owners, TypeOK
<1>3. CASE HandleSetupFailed
    BY <1>3 DEF HandleSetupFailed, Polling, Owners, TypeOK
<1>4. ASSUME NEW how \in {"lost", "dropped"}, GatewayFailed(how)
      PROVE  Owners'
    <2>1. klf'.client = "none" /\ klf'.closed # "clean"
        BY <1>1, <1>4 DEF GatewayFailed, KlfStates
    <2> QED
        BY <1>4, <2>1 DEF GatewayFailed, Polling, setupVars, Owners, TypeOK
<1>5. ASSUME NEW confirmed \in BOOLEAN, RebootCommand(confirmed)
      PROVE  Owners'
    <2>1. klf'.client = "none" /\ (klf'.monitor = "on" => klf'.closed # "clean")
        BY <1>5, CloseType DEF RebootCommand
    <2> QED
        BY <1>5, <2>1 DEF RebootCommand, Polling, setupVars, Owners, TypeOK
<1>6. CASE HandleSignal
    BY <1>6 DEF HandleSignal, Polling, Owners, TypeOK
<1>7. ASSUME NEW confirmed \in BOOLEAN, SetupJoined(confirmed)
      PROVE  Owners'
    <2>1. CASE setup = "ready"
        <3>1. klf'.client = "none" /\ (klf'.monitor = "on" => klf'.closed # "clean")
            BY <1>7, <2>1, CloseType DEF SetupJoined
        <3> QED
            BY <1>7, <2>1, <3>1 DEF SetupJoined, Owners, TypeOK
    <2>2. CASE setup = "failed"
        BY <1>7, <2>2 DEF SetupJoined, Owners, TypeOK
    <2> QED
        BY <1>7, <2>1, <2>2 DEF SetupJoined
<1>8. ASSUME NEW confirmed \in BOOLEAN, CloseGateway(confirmed)
      PROVE  Owners'
    <2>1. CASE stuck'
        BY <1>8, <2>1 DEF CloseGateway, setupVars, Owners, TypeOK
    <2>2. CASE ~stuck' /\ gateway = "some"
        <3>1. klf'.client = "none" /\ (klf'.monitor = "on" => klf'.closed # "clean")
            BY <1>8, <2>2, CloseType DEF CloseGateway
        <3> QED
            BY <1>8, <2>2, <3>1 DEF CloseGateway, setupVars, Owners, TypeOK
    <2>3. CASE ~stuck' /\ gateway # "some"
        BY <1>8, <2>3 DEF CloseGateway, setupVars, Owners, TypeOK
    <2> QED
        BY <2>1, <2>2, <2>3
<1> QED
    BY <1>2, <1>3, <1>4, <1>5, <1>6, <1>7, <1>8

\* Every step keeps the connection owned.
LEMMA OwnersNext == TypeOK /\ Owners /\ [Next]_vars => Owners'
<1> SUFFICES ASSUME TypeOK, Owners, [Next]_vars
             PROVE  Owners'
    OBVIOUS
<1>1. ASSUME UNCHANGED <<phase, gateway, setup, klf>>
      PROVE  Owners'
    BY <1>1 DEF Owners
<1>2. CASE UNCHANGED vars
    BY <1>1, <1>2 DEF vars, setupVars
<1>3. CASE GatewayEvent
    <2>1. ASSUME NEW n \in Nodes, NEW status \in Status, StatusChanged(n, status) \/ NodeReported(n, status)
          PROVE  Owners'
        BY <1>1, <2>1 DEF StatusChanged, NodeReported, Apply, setupVars
    <2>2. ASSUME NEW g \in Groups, GroupReported(g) \/ GroupDeleted(g)
          PROVE  Owners'
        BY <1>1, <2>2 DEF GroupReported, GroupDeleted, Apply, setupVars
    <2> QED
        BY <1>3, <2>1, <2>2, OwnersHandlers DEF GatewayEvent
<1>4. CASE MqttConnects \/ MqttUnreadable \/ \E kept \in BOOLEAN : MqttFails(kept)
    BY <1>1, <1>4 DEF MqttConnects, MqttUnreadable, MqttFails, setupVars
<1>5. CASE Signal \/ Flush \/ \E count \in 0..Len(Waiting) : LinkLost(count)
    BY <1>1, <1>5 DEF Signal, Flush, LinkLost, setupVars
<1>6. CASE Shutdown
    <2>1. CASE RequestDisconnect
        <3>1. phase = "parting" /\ phase' \in {"parting", "disconnecting", "stopped"}
              /\ UNCHANGED <<gateway, setup, klf>>
            BY <2>1 DEF RequestDisconnect, setupVars
        <3> QED
            BY <3>1 DEF Owners
    <2>2. ASSUME NEW count \in 0..Len(Waiting), Disconnected(count)
          PROVE  Owners'
        BY <2>2 DEF Disconnected, setupVars, Owners
    <2> QED
        BY <1>6, <2>1, <2>2, OwnersHandlers DEF Shutdown
<1> QED
    BY <1>2, <1>3, <1>4, <1>5, <1>6, OwnersSetup, OwnersHandlers DEF Next

\* However a shutdown meets the setup task and the gateway, the process that has
\* stopped has no connection open, and has switched the monitor off unless the last
\* connection failed or did not confirm (VeluxMqttBridge::shutdown, prepare_gateway).
THEOREM StopsClean == Spec => []StopIsClean
<1>1. TypeOK /\ Owners => StopIsClean
    <2> SUFFICES ASSUME TypeOK, Owners, phase = "stopped"
                 PROVE  klf.client = "none" /\ (klf.monitor = "on" => klf.closed # "clean")
        BY DEF StopIsClean
    <2>1. setup = "none" /\ gateway = "none"
        BY DEF Owners
    <2>2. klf.client \in {"none", "setup", "bridge"}
        BY DEF TypeOK
    <2>3. klf.client = "none"
        BY <2>1, <2>2 DEF Owners
    <2> QED
        BY <2>3 DEF Owners
<1>2. Init => Typed /\ Owners
    BY TypedInit, OwnersInit
<1>3. Typed /\ Owners /\ [Next]_vars => Typed' /\ Owners'
    BY TypedNext, OwnersNext DEF Typed
<1>4. Typed => TypeOK
    BY DEF Typed
<1> QED
    BY <1>1, <1>2, <1>3, <1>4, PTL DEF Spec

-----------------------------------------------------------------------------
(***************************************************************************)
(* What a topic holds after messages have been delivered: the value of the *)
(* last one about it.                                                      *)
(***************************************************************************)
LastValue(old, messages, t) ==
    LET at == {i \in DOMAIN messages : messages[i].topic = t}
    IN  IF at = {} THEN old ELSE messages[Max(at)].value

Mentions(messages, t) == \E m \in Range(messages) : m.topic = t
Agrees(messages, t, v) == \A m \in Range(messages) : m.topic = t => m.value = v

\* The messages about a topic.
On(t) == {m \in Messages : m.topic = t}

\* What a topic holds after some messages: what the last one about it says, if any is.
LEMMA LastValueIn ==
    ASSUME NEW messages \in Seq(Messages), NEW t, NEW old
    PROVE  /\ Mentions(messages, t) <=> Range(messages) \cap On(t) # {}
           /\ Mentions(messages, t) => LastValue(old, messages, t) = LastIn(messages, On(t)).value
           /\ ~Mentions(messages, t) => LastValue(old, messages, t) = old
<1> DEFINE at == {i \in DOMAIN messages : messages[i].topic = t}
<1>1. at = {i \in DOMAIN messages : messages[i] \in On(t)}
    BY DEF On
<1>2. Mentions(messages, t) <=> at # {}
    BY DEF Mentions, Range
<1>3. Range(messages) \cap On(t) # {} <=> at # {}
    BY <1>1 DEF Range
<1>4. LastIn(messages, On(t)) = messages[Max(at)]
    BY <1>1 DEF LastIn
<1>5. LastValue(old, messages, t) = IF at = {} THEN old ELSE messages[Max(at)].value
    BY DEF LastValue
<1> HIDE DEF at
<1> QED
    BY <1>2, <1>3, <1>4, <1>5

\* Messages about other topics change nothing.
LEMMA LastKept ==
    ASSUME NEW p \in Seq(Messages), NEW q \in Seq(Messages), NEW t, NEW old, ~Mentions(q, t)
    PROVE  LastValue(old, p \o q, t) = LastValue(old, p, t)
<1>1. p \o q \in Seq(Messages) /\ Range(p \o q) = Range(p) \cup Range(q)
    BY ConcatRange
<1>2. Mentions(p \o q, t) <=> Mentions(p, t)
    BY <1>1 DEF Mentions
<1>3. CASE Mentions(p, t)
    <2>1. Range(q) \cap On(t) = {} /\ Range(p) \cap On(t) # {}
        BY <1>3, LastValueIn
    <2>2. LastIn(p \o q, On(t)) = LastIn(p, On(t))
        BY <2>1, LastInConcat
    <2> QED
        BY <1>1, <1>2, <1>3, <2>2, LastValueIn, ZenonT(60)
<1>4. CASE ~Mentions(p, t)
    BY <1>1, <1>2, <1>4, LastValueIn
<1> QED
    BY <1>3, <1>4

\* Messages about the topic decide, whatever came before.
LEMMA LastTaken ==
    ASSUME NEW p \in Seq(Messages), NEW q \in Seq(Messages), NEW t, NEW old, NEW older, Mentions(q, t)
    PROVE  LastValue(old, p \o q, t) = LastValue(older, q, t)
<1>1. p \o q \in Seq(Messages) /\ Range(p \o q) = Range(p) \cup Range(q)
    BY ConcatRange
<1>2. Mentions(p \o q, t)
    BY <1>1 DEF Mentions
<1>3. Range(q) \cap On(t) # {}
    BY LastValueIn
<1>4. LastIn(p \o q, On(t)) = LastIn(q, On(t))
    BY <1>3, LastInConcat
<1> QED
    BY <1>1, <1>2, <1>4, LastValueIn

\* When all messages about the topic say the same, it holds that.
LEMMA LastAgreed ==
    ASSUME NEW p \in Seq(Messages), NEW q \in Seq(Messages), NEW t, NEW old, NEW v, Mentions(q, t),
           Agrees(q, t, v)
    PROVE  LastValue(old, p \o q, t) = v
<1>1. LastIn(q, On(t)) \in Range(q) \cap On(t)
    BY LastValueIn, LastInElement
<1>2. LastIn(q, On(t)).value = v
    BY <1>1 DEF Agrees, On
<1>3. LastValue(old, q, t) = v
    BY <1>2, LastValueIn
<1>4. LastValue(old, p \o q, t) = LastValue(old, q, t)
    BY LastTaken
<1> QED
    BY <1>3, <1>4

\* The last message of all decides about its topic.
LEMMA LastOfAll ==
    ASSUME NEW p \in Seq(Messages), NEW old, NEW t, NEW v, <<Publication(t, v)>> \in Seq(Messages)
    PROVE  LastValue(old, p \o <<Publication(t, v)>>, t) = v
<1> DEFINE q == <<Publication(t, v)>>
<1>1. Publication(t, v).topic = t /\ Publication(t, v).value = v
    BY DEF Publication, Message
<1>2. Range(q) = {Publication(t, v)}
    BY ShortRange
<1> HIDE DEF q
<1>3. Mentions(q, t) /\ Agrees(q, t, v)
    BY <1>1, <1>2 DEF Mentions, Agrees
<1>4. q \in Seq(Messages)
    BY DEF q
<1>5. LastValue(old, p \o q, t) = v
    BY <1>3, <1>4, LastAgreed
<1> QED
    BY <1>5 DEF q

\* Messages delivered in two parts.
LEMMA LastInParts ==
    ASSUME NEW p \in Seq(Messages), NEW q \in Seq(Messages), NEW t, NEW old
    PROVE  LastValue(LastValue(old, p, t), q, t) = LastValue(old, p \o q, t)
<1>1. CASE Mentions(q, t)
    <2>1. LastValue(old, p \o q, t) = LastValue(LastValue(old, p, t), q, t)
        BY <1>1, LastTaken
    <2> QED
        BY <2>1
<1>2. CASE ~Mentions(q, t)
    <2>1. LastValue(old, p \o q, t) = LastValue(old, p, t)
        BY <1>2, LastKept
    <2>2. LastValue(LastValue(old, p, t), q, t) = LastValue(old, p, t)
        BY <1>2, LastValueIn
    <2> QED
        BY <2>1, <2>2
<1> QED
    BY <1>1, <1>2

\* Nothing has been delivered.
LEMMA LastOfNone == \A t, old : LastValue(old, <<>>, t) = old
BY DEF LastValue

-----------------------------------------------------------------------------
(***************************************************************************)
(* What is promised: what the broker will retain of a topic when it has    *)
(* been sent everything that waits.                                        *)
(***************************************************************************)
Promised(t) == LastValue(broker.retained[t], Waiting, t)

\* Retained in terms of the last value.
LEMMA RetainedLast ==
    ASSUME NEW messages, NEW t \in Topics
    PROVE  Retained(messages)[t] = LastValue(broker.retained[t], messages, t)
BY DEF Retained, LastValue

\* What waits after a handler has published, unless it is stuck.
LEMMA WaitsLonger ==
    ASSUME Typed, NEW pubs \in Seq(Messages), queue' = queue \o pubs, backlog' = backlog
    PROVE  /\ Waiting \in Seq(Messages) /\ Waiting' = Waiting \o pubs
<1>1. queue \in Seq(Messages) /\ backlog \in Seq(Messages)
    BY DEF Typed, TypeOK
<1>2. backlog \o (queue \o pubs) = (backlog \o queue) \o pubs
    <2>1. \A a, b, c \in Seq(Messages) : a \o (b \o c) = (a \o b) \o c
        BY ConcatAssociative, SMTT(60)
    <2> QED
        BY <1>1, <2>1, Zenon
<1> QED
    BY <1>1, <1>2 DEF Waiting

\* A handler that publishes while MQTT is connected changes the promises by what it
\* publishes; a topic it does not mention keeps its promise.
LEMMA PromisedAfter ==
    ASSUME Typed, NEW pubs \in Seq(Messages), queue' = queue \o pubs, UNCHANGED <<backlog, broker>>
    PROVE  \A t :
               /\ ~Mentions(pubs, t) => Promised(t)' = Promised(t)
               /\ \A v : Mentions(pubs, t) /\ Agrees(pubs, t, v) => Promised(t)' = v
               /\ \A word \in {"online", "offline"} :
                      EndsWith(pubs, word) => Promised(StateTopic)' = {word}
<1>1. Waiting \in Seq(Messages) /\ Waiting' = Waiting \o pubs
    BY WaitsLonger
<1>2. \A t : Promised(t)' = LastValue(broker.retained[t], Waiting \o pubs, t)
    BY <1>1 DEF Promised
<1>3. ASSUME NEW t, ~Mentions(pubs, t)
      PROVE  Promised(t)' = Promised(t)
    BY <1>1, <1>2, <1>3, LastKept DEF Promised
<1>4. ASSUME NEW t, NEW v, Mentions(pubs, t), Agrees(pubs, t, v)
      PROVE  Promised(t)' = v
    BY <1>1, <1>2, <1>4, LastAgreed
<1>5. ASSUME NEW word \in {"online", "offline"}, EndsWith(pubs, word)
      PROVE  Promised(StateTopic)' = {word}
    <2> DEFINE m == Publication(StateTopic, {word})
    <2>1. m \in Messages
        BY PublicationType, TopicsDiffer DEF Words
    <2>2. PICK most \in Seq(Messages) : pubs = most \o <<m>>
        BY <1>5 DEF EndsWith
    <2> HIDE DEF m
    <2>3. <<m>> \in Seq(Messages) /\ Waiting \o most \in Seq(Messages)
        BY <1>1, <2>1
    <2>4. Waiting \o pubs = (Waiting \o most) \o <<m>>
        BY <1>1, <2>2, <2>3, ConcatAssociative
    <2>5. \A old : LastValue(old, (Waiting \o most) \o <<m>>, StateTopic) = {word}
        BY <2>3, LastOfAll DEF m
    <2> QED
        BY <1>2, <2>4, <2>5
<1> QED
    BY <1>3, <1>4, <1>5

\* A delivery of part of what waits.
LEMMA DeliveredParts ==
    ASSUME Typed, NEW count \in 0..Len(Waiting),
           backlog' = SubSeq(backlog, count + 1, Len(backlog)),
           queue' = IF count <= Len(backlog) THEN queue
                    ELSE SubSeq(queue, count - Len(backlog) + 1, Len(queue))
    PROVE  /\ SubSeq(Waiting, 1, count) \in Seq(Messages) /\ Waiting' \in Seq(Messages)
           /\ Waiting = SubSeq(Waiting, 1, count) \o Waiting'
           /\ Waiting' = SubSeq(Waiting, count + 1, Len(Waiting))
<1>1. /\ queue \in Seq(Messages) /\ backlog \in Seq(Messages)
      /\ Waiting = backlog \o queue /\ Waiting \in Seq(Messages)
      /\ Len(Waiting) = Len(backlog) + Len(queue) /\ Len(backlog) \in Nat /\ Len(queue) \in Nat
    BY DEF Waiting, Typed, TypeOK
<1>2. SubSeq(Waiting, count + 1, Len(Waiting)) =
          SubSeq(backlog, count + 1, Len(backlog)) \o
              (IF count <= Len(backlog) THEN queue ELSE SubSeq(queue, count - Len(backlog) + 1, Len(queue)))
    BY <1>1, SuffixOfConcat
<1>3. Waiting' = SubSeq(Waiting, count + 1, Len(Waiting))
    BY <1>2 DEF Waiting
<1>4. /\ SubSeq(Waiting, 1, count) \in Seq(Messages)
      /\ SubSeq(Waiting, count + 1, Len(Waiting)) \in Seq(Messages)
      /\ Waiting = SubSeq(Waiting, 1, count) \o SubSeq(Waiting, count + 1, Len(Waiting))
    BY <1>1, Suffix
<1> QED
    BY <1>3, <1>4

\* Deliveries, however much they take, keep every promise; the last will breaks the
\* promises about availability and subscription only.
LEMMA PromisedDelivered ==
    ASSUME Typed
    PROVE  /\ Flush => \A t \in Topics : Promised(t)' = Promised(t)
           /\ \A count \in 0..Len(Waiting) : LinkLost(count) =>
                  /\ \A t \in Topics \ {StateTopic, SubscribeTopic} : Promised(t)' = Promised(t)
                  /\ broker'.retained[StateTopic] = {"offline"}
<1>1. Waiting \in Seq(Messages) /\ Len(Waiting) \in 0..Len(Waiting)
    BY DEF Waiting, Typed, TypeOK
<1>2. ASSUME Flush, NEW t \in Topics
      PROVE  Promised(t)' = Promised(t)
    <2>1. SubSeq(Waiting, 1, Len(Waiting)) = Waiting
        BY <1>1
    <2>2. broker'.retained = Retained(Waiting)
        BY <1>2, <2>1 DEF Flush, Delivered
    <2>3. broker'.retained[t] = Promised(t)
        BY <2>2, RetainedLast DEF Promised
    <2>4. Waiting' = <<>>
        BY <1>2 DEF Flush, Waiting
    <2>5. Promised(t)' = LastValue(broker'.retained[t], <<>>, t)
        BY <2>4 DEF Promised
    <2> QED
        BY <2>3, <2>5, LastOfNone
<1>3. ASSUME NEW count \in 0..Len(Waiting), LinkLost(count)
      PROVE  /\ \A t \in Topics \ {StateTopic, SubscribeTopic} : Promised(t)' = Promised(t)
             /\ broker'.retained[StateTopic] = {"offline"}
    <2> DEFINE p == SubSeq(Waiting, 1, count)
    <2>1. p \in Seq(Messages) /\ Waiting' \in Seq(Messages) /\ Waiting = p \o Waiting'
        BY <1>3, DeliveredParts DEF LinkLost
    <2>2. broker' = Deserted(Delivered(count))
        BY <1>3 DEF LinkLost
    <2>3. /\ broker'.retained[StateTopic] = {"offline"}
          /\ \A t \in Topics \ {StateTopic, SubscribeTopic} : broker'.retained[t] = Delivered(count).retained[t]
        BY <2>2, DeliveredType, DesertedType
    <2>4. Delivered(count).retained = Retained(p)
        BY DEF Delivered
    <2> HIDE DEF p
    <2>5. ASSUME NEW t \in Topics \ {StateTopic, SubscribeTopic}
          PROVE  Promised(t)' = Promised(t)
        <3>1. broker'.retained[t] = LastValue(broker.retained[t], p, t)
            BY <2>3, <2>4, RetainedLast
        <3>2. Promised(t)' = LastValue(LastValue(broker.retained[t], p, t), Waiting', t)
            BY <3>1 DEF Promised
        <3>3. LastValue(LastValue(broker.retained[t], p, t), Waiting', t)
                  = LastValue(broker.retained[t], p \o Waiting', t)
            BY <2>1, LastInParts
        <3> QED
            BY <2>1, <3>2, <3>3 DEF Promised
    <2> QED
        BY <2>3, <2>5
<1> QED
    BY <1>2, <1>3

-----------------------------------------------------------------------------
(***************************************************************************)
(* Availability.                                                           *)
(***************************************************************************)
\* The bridge runs and takes a connection to be up that is up.
Heard == Polling /\ link = "up" /\ mqttConnected

AvailabilityPromised ==
    Heard => Promised(StateTopic) = IF gateway = "some" THEN {"online"} ELSE {"offline"}

\* The last will has replaced what a lost connection had said.
WillPublished == link # "up" => broker.retained[StateTopic] \in {{}, {"offline"}}

\* A shutdown has said farewell before it disconnects.
FarewellPromised ==
    (phase \in {"parting", "disconnecting"} /\ mqttConnected /\ link = "up") =>
        Promised(StateTopic) = {"offline"}

LinkKnown ==
    /\ (phase # "stopped" /\ mqttConnected) => link # "down"
    /\ phase = "disconnecting" => mqttConnected
    /\ phase = "stopped" => link = "down"

AvailabilityInv == AvailabilityPromised /\ WillPublished /\ FarewellPromised /\ LinkKnown

\* The initial state.
LEMMA AvailabilityInit == Init => AvailabilityInv
<1> SUFFICES ASSUME Init
             PROVE  AvailabilityInv
    OBVIOUS
<1>1. StateTopic \in Topics
    BY TopicsDiffer
<1>2. broker.retained[StateTopic] = {} /\ link = "down" /\ mqttConnected = FALSE /\ phase = "running"
    BY <1>1 DEF Init
<1> QED
    BY <1>2 DEF AvailabilityInv, AvailabilityPromised, WillPublished, FarewellPromised, LinkKnown, Heard

\* A handler of the loop that publishes over a connection it takes to be up: what it
\* publishes is about other topics and the gateway stays, or it ends with the new
\* availability.
LEMMA AvailabilityHandler ==
    ASSUME Typed, AvailabilityInv, NEW pubs \in Seq(Messages), QueueIfConnected(pubs), Polling,
           UNCHANGED <<phase, brokerVars>>,
           \/ ~Mentions(pubs, StateTopic) /\ gateway' = gateway
           \/ EndsWith(pubs, "online") /\ gateway' = "some"
           \/ EndsWith(pubs, "offline") /\ gateway' = "none"
    PROVE  AvailabilityInv'
<1>1. /\ UNCHANGED <<phase, backlog, link, mqttConnected, broker>> /\ phase = "running"
    BY DEF brokerVars, Polling
<1>2. WillPublished' /\ FarewellPromised' /\ LinkKnown'
    BY <1>1 DEF AvailabilityInv, WillPublished, FarewellPromised, LinkKnown
<1>3. AvailabilityPromised'
    <2> SUFFICES ASSUME Heard'
                 PROVE  Promised(StateTopic)' = IF gateway' = "some" THEN {"online"} ELSE {"offline"}
        BY DEF AvailabilityPromised
    <2>1. ~stuck' /\ mqttConnected /\ link = "up" /\ Heard
        BY <1>1 DEF Heard, Polling
    <2>2. queue' = queue \o pubs
        BY <2>1, QueueIfConnectedType DEF Typed
    <2>3. CASE ~Mentions(pubs, StateTopic) /\ gateway' = gateway
        BY <1>1, <2>1, <2>2, <2>3, PromisedAfter DEF AvailabilityInv, AvailabilityPromised
    <2>4. CASE EndsWith(pubs, "online") /\ gateway' = "some"
        BY <1>1, <2>2, <2>4, PromisedAfter
    <2>5. CASE EndsWith(pubs, "offline") /\ gateway' = "none"
        BY <1>1, <2>2, <2>5, PromisedAfter
    <2> QED
        BY <2>3, <2>4, <2>5
<1> QED
    BY <1>2, <1>3 DEF AvailabilityInv

\* publish_availability is about availability only.
LEMMA OfflineEnds == EndsWith(Availability("offline"), "offline")
<1> DEFINE m == <<Publication(StateTopic, {"offline"})>>
<1>1. m \in Seq(Messages) /\ Availability("offline") = m
    BY OfflinePublishes
<1> HIDE DEF m
<1>2. <<>> \in Seq(Messages) /\ m = <<>> \o m
    BY <1>1
<1> QED
    BY <1>1, <1>2 DEF EndsWith, m

\* The handlers of the gateway: setup results, failures and reboots.
LEMMA AvailabilityGateway ==
    ASSUME Typed, AvailabilityInv,
           \/ HandleSetupReady \/ HandleSetupFailed
           \/ \E how \in {"lost", "dropped"} : GatewayFailed(how)
           \/ \E confirmed \in BOOLEAN : RebootCommand(confirmed)
    PROVE  AvailabilityInv'
<1>1. EndsWith(Availability("offline"), "offline") /\ Availability("offline") \in Seq(Messages)
    BY OfflinePublishes, OfflineEnds
<1>2. CASE HandleSetupReady
    <2>1. PICK pubs \in Seq(Messages) : QueueIfConnected(pubs) /\ EndsWith(pubs, "online")
        BY <1>2, ReadyPublishes DEF Typed
    <2>2. Polling /\ UNCHANGED <<phase, brokerVars>> /\ gateway' = "some"
        BY <1>2 DEF HandleSetupReady
    <2> QED
        BY <2>1, <2>2, AvailabilityHandler
<1>3. CASE HandleSetupFailed
    <2>1. /\ Polling /\ UNCHANGED <<phase, brokerVars>> /\ gateway' = gateway
          /\ QueueIfConnected(Availability("offline")) /\ setup # "none"
        BY <1>3 DEF HandleSetupFailed
    <2>2. gateway' = "none"
        BY <2>1 DEF Typed, TypeOK
    <2> QED
        BY <1>1, <2>1, <2>2, AvailabilityHandler
<1>4. ASSUME NEW how \in {"lost", "dropped"}, GatewayFailed(how)
      PROVE  AvailabilityInv'
    <2>1. /\ Polling /\ UNCHANGED <<phase, brokerVars>> /\ gateway' = "none"
          /\ QueueIfConnected(Availability("offline"))
        BY <1>4 DEF GatewayFailed
    <2> QED
        BY <1>1, <2>1, AvailabilityHandler
<1>5. ASSUME NEW confirmed \in BOOLEAN, RebootCommand(confirmed)
      PROVE  AvailabilityInv'
    <2>1. /\ Polling /\ UNCHANGED <<phase, brokerVars>> /\ gateway' = "none"
          /\ QueueIfConnected(Availability("offline"))
        BY <1>5 DEF RebootCommand
    <2> QED
        BY <1>1, <2>1, AvailabilityHandler
<1> QED
    BY <1>2, <1>3, <1>4, <1>5

\* The handlers of what the gateway reports.
LEMMA AvailabilityReport ==
    ASSUME Typed, AvailabilityInv,
           \/ \E n \in Nodes, status \in Status : StatusChanged(n, status) \/ NodeReported(n, status)
           \/ \E g \in Groups : GroupReported(g) \/ GroupDeleted(g)
    PROVE  AvailabilityInv'
<1> USE TopicsApart DEF Mentions, Publication, Message, HassMessage
<1>1. ASSUME NEW n \in Nodes, NEW status \in Status, StatusChanged(n, status)
      PROVE  AvailabilityInv'
    <2>1. PICK pubs \in Seq(Messages) :
              QueueIfConnected(pubs) /\ Range(pubs) = {Publication(Topic("status", n), {status})}
        BY <1>1, StatusPublishes DEF Typed
    <2>2. ~Mentions(pubs, StateTopic)
        BY <2>1
    <2>3. Polling /\ UNCHANGED <<phase, brokerVars>> /\ gateway' = gateway
        BY <1>1 DEF StatusChanged, Apply
    <2> QED
        BY <2>1, <2>2, <2>3, AvailabilityHandler
<1>2. ASSUME NEW n \in Nodes, NEW status \in Status, NodeReported(n, status)
      PROVE  AvailabilityInv'
    <2> DEFINE nodes == [cache EXCEPT ![n] = status]
    <2>1. PICK pubs \in Seq(Messages) :
               /\ QueueIfConnected(pubs)
               /\ Range(pubs) = (IF cache[n] = Absent THEN {Publication(NodesTopic, Present(nodes))} ELSE {})
                                    \cup {Publication(Topic("info", n), {"info"}), HassMessage(nodes, groups),
                                          Publication(Topic("status", n), {status})}
        BY <1>2, NodePublishes DEF Typed
    <2>2. ~Mentions(pubs, StateTopic)
        BY <2>1
    <2>3. Polling /\ UNCHANGED <<phase, brokerVars>> /\ gateway' = gateway
        BY <1>2 DEF NodeReported, Apply
    <2> QED
        BY <2>1, <2>2, <2>3, AvailabilityHandler
<1>3. ASSUME NEW g \in Groups, GroupReported(g)
      PROVE  AvailabilityInv'
    <2>1. PICK pubs \in Seq(Messages) :
               /\ QueueIfConnected(pubs)
               /\ Range(pubs) = {Publication(GroupsTopic, groups \cup {g}),
                                 Publication(Topic("group", g), {"info"}), HassMessage(cache, groups \cup {g})}
        BY <1>3, GroupPublishes DEF Typed
    <2>2. ~Mentions(pubs, StateTopic)
        BY <2>1
    <2>3. Polling /\ UNCHANGED <<phase, brokerVars>> /\ gateway' = gateway
        BY <1>3 DEF GroupReported, Apply
    <2> QED
        BY <2>1, <2>2, <2>3, AvailabilityHandler
<1>4. ASSUME NEW g \in Groups, GroupDeleted(g)
      PROVE  AvailabilityInv'
    <2>1. PICK pubs \in Seq(Messages) :
               /\ QueueIfConnected(pubs)
               /\ Range(pubs) = {Publication(GroupsTopic, groups \ {g}),
                                 Publication(Topic("group", g), {}), HassMessage(cache, groups \ {g})}
        BY <1>4, GroupGonePublishes DEF Typed
    <2>2. ~Mentions(pubs, StateTopic)
        BY <2>1
    <2>3. Polling /\ UNCHANGED <<phase, brokerVars>> /\ gateway' = gateway
        BY <1>4 DEF GroupDeleted, Apply
    <2> QED
        BY <2>1, <2>2, <2>3, AvailabilityHandler
<1> QED
    BY <1>1, <1>2, <1>3, <1>4

\* MQTT: connections, failures, deliveries.
LEMMA AvailabilityMqtt ==
    ASSUME Typed, AvailabilityInv,
           \/ MqttConnects \/ MqttUnreadable \/ \E kept \in BOOLEAN : MqttFails(kept)
           \/ Flush \/ \E count \in 0..Len(Waiting) : LinkLost(count)
    PROVE  AvailabilityInv'
<1> USE DEF AvailabilityInv
<1>1. CASE MqttConnects
    <2>1. PICK pubs \in Seq(Messages) :
              /\ Queue(pubs)
              /\ gateway = "some" => EndsWith(pubs, "online")
              /\ gateway # "some" => EndsWith(pubs, "offline")
        BY <1>1, ConnectPublishes DEF Typed
    <2>2. /\ phase = "running" /\ link' = "up"
          /\ UNCHANGED <<phase, gateway, backlog, broker>>
        BY <1>1 DEF MqttConnects, Polling
    <2>3. AvailabilityPromised'
        <3> SUFFICES ASSUME ~stuck'
                     PROVE  Promised(StateTopic)' = IF gateway' = "some" THEN {"online"} ELSE {"offline"}
            BY DEF AvailabilityPromised, Heard, Polling
        <3>1. queue' = queue \o pubs
            BY <2>1, QueueType DEF Typed
        <3>2. CASE gateway = "some"
            BY <2>1, <2>2, <3>1, <3>2, PromisedAfter
        <3>3. CASE gateway # "some"
            BY <2>1, <2>2, <3>1, <3>3, PromisedAfter
        <3> QED
            BY <3>2, <3>3
    <2> QED
        BY <2>2, <2>3 DEF WillPublished, FarewellPromised, LinkKnown
<1>2. CASE MqttUnreadable
    <2>1. UNCHANGED <<phase, link, broker>> /\ mqttConnected' = FALSE /\ phase = "running"
        BY <1>2 DEF MqttUnreadable, Polling
    <2> QED
        BY <2>1 DEF AvailabilityPromised, Heard, WillPublished, FarewellPromised, LinkKnown
<1>3. ASSUME NEW kept \in BOOLEAN, MqttFails(kept)
      PROVE  AvailabilityInv'
    <2>1. /\ UNCHANGED <<phase, broker>> /\ link = "lost" /\ link' = "down" /\ mqttConnected' = FALSE
          /\ phase = "running"
        BY <1>3 DEF MqttFails, Polling
    <2> QED
        BY <2>1 DEF AvailabilityPromised, Heard, WillPublished, FarewellPromised, LinkKnown
<1>4. CASE Flush
    <2>1. /\ UNCHANGED <<phase, stuck, gateway, link, mqttConnected>> /\ link = "up" /\ phase = "running"
        BY <1>4 DEF Flush, Polling
    <2>2. Promised(StateTopic)' = Promised(StateTopic)
        BY <1>4, PromisedDelivered, TopicsDiffer
    <2> QED
        BY <2>1, <2>2
           DEF AvailabilityPromised, Heard, Polling, WillPublished, FarewellPromised, LinkKnown
<1>5. ASSUME NEW count \in 0..Len(Waiting), LinkLost(count)
      PROVE  AvailabilityInv'
    <2>1. UNCHANGED <<phase, mqttConnected>> /\ link = "up" /\ link' = "lost"
        BY <1>5 DEF LinkLost
    <2>2. broker'.retained[StateTopic] = {"offline"}
        BY <1>5, PromisedDelivered
    <2> QED
        BY <2>1, <2>2 DEF AvailabilityPromised, Heard, WillPublished, FarewellPromised, LinkKnown
<1> QED
    BY <1>1, <1>2, <1>3, <1>4, <1>5

\* The steps of a shutdown.
LEMMA AvailabilityShutdown ==
    ASSUME Typed, AvailabilityInv, Signal \/ Shutdown
    PROVE  AvailabilityInv'
<1> USE DEF AvailabilityInv
<1>1. CASE Signal
    <2>1. UNCHANGED <<phase, stuck, gateway, link, mqttConnected, broker, queue, backlog>>
        BY <1>1 DEF Signal, mqttVars, brokerVars
    <2> QED
        BY <2>1 DEF AvailabilityPromised, Heard, Polling, WillPublished, FarewellPromised, LinkKnown,
                    Promised, Waiting
<1>2. ASSUME phase' \in {"cancelling", "closing"}, phase # "stopped", UNCHANGED brokerVars
      PROVE  AvailabilityInv'
    BY <1>2 DEF brokerVars, AvailabilityPromised, Heard, Polling, WillPublished, FarewellPromised, LinkKnown
<1>3. CASE HandleSignal
    BY <1>2, <1>3 DEF HandleSignal, Polling
<1>4. ASSUME NEW confirmed \in BOOLEAN, SetupJoined(confirmed)
      PROVE  AvailabilityInv'
    BY <1>2, <1>4 DEF SetupJoined
<1>5. ASSUME NEW confirmed \in BOOLEAN, CloseGateway(confirmed)
      PROVE  AvailabilityInv'
    <2>1. CASE stuck'
        BY <1>2, <1>5, <2>1 DEF CloseGateway
    <2>2. CASE ~stuck'
        <3>1. /\ phase = "closing" /\ phase' = "parting"
              /\ UNCHANGED <<backlog, link, mqttConnected, broker>>
              /\ QueueIfConnected(Availability("offline"))
            BY <1>5, <2>2 DEF CloseGateway, brokerVars
        <3>2. ASSUME mqttConnected
              PROVE  Promised(StateTopic)' = {"offline"}
            <4>1. queue' = queue \o Availability("offline")
                BY <2>2, <3>1, <3>2, OfflinePublishes, QueueIfConnectedType DEF Typed
            <4>2. EndsWith(Availability("offline"), "offline")
                BY OfflineEnds
            <4> QED
                BY <3>1, <4>1, <4>2, OfflinePublishes, PromisedAfter
        <3> QED
            BY <3>1, <3>2
               DEF AvailabilityPromised, Heard, Polling, WillPublished, FarewellPromised, LinkKnown
    <2> QED
        BY <2>1, <2>2
<1>6. CASE RequestDisconnect
    <2>1. CASE mqttConnected
        <3>1. /\ phase = "parting" /\ phase' \in {"parting", "disconnecting"} /\ mqttConnected'
              /\ UNCHANGED <<backlog, link, broker>>
              /\ Queue(<<Publication(DisconnectTopic, {})>>)
            BY <1>6, <2>1 DEF RequestDisconnect
        <3>2. Promised(StateTopic)' = Promised(StateTopic)
            <4> DEFINE pubs == <<Publication(DisconnectTopic, {})>>
            <4>1. Publication(DisconnectTopic, {}) \in Messages
                BY PublicationType, TopicsDiffer
            <4>2. pubs \in Seq(Messages) /\ Range(pubs) = {Publication(DisconnectTopic, {})}
                BY <4>1, ShortRange
            <4> HIDE DEF pubs
            <4>3. PICK part \in Seq(Messages) : queue' = queue \o part /\ Range(part) \subseteq Range(pubs)
                BY <3>1, <4>2, QueueType DEF Typed, pubs
            <4>4. ~Mentions(part, StateTopic)
                BY <4>2, <4>3, TopicsApart DEF Mentions, Publication, Message
            <4> QED
                BY <3>1, <4>3, <4>4, PromisedAfter
        <3> QED
            BY <2>1, <3>1, <3>2
               DEF AvailabilityPromised, Heard, Polling, WillPublished, FarewellPromised, LinkKnown
    <2>2. CASE ~mqttConnected
        <3>1. /\ phase' = "stopped" /\ link' = "down"
              /\ broker' = IF link = "up" THEN Deserted(broker) ELSE broker
            BY <1>6, <2>2 DEF RequestDisconnect
        <3>2. broker'.retained[StateTopic] \in {{}, {"offline"}}
            <4>1. CASE link = "up"
                BY <3>1, <4>1, DesertedType DEF Typed, TypeOK, BrokerRecord
            <4>2. CASE link # "up"
                BY <3>1, <4>2 DEF WillPublished
            <4> QED
                BY <4>1, <4>2
        <3> QED
            BY <3>1, <3>2
               DEF AvailabilityPromised, Heard, Polling, WillPublished, FarewellPromised, LinkKnown
    <2> QED
        BY <2>1, <2>2
<1>7. ASSUME NEW count \in 0..Len(Waiting), Disconnected(count)
      PROVE  AvailabilityInv'
    <2>1. phase = "disconnecting" /\ phase' = "stopped" /\ link' = "down"
        BY <1>7 DEF Disconnected
    <2>2. broker'.retained[StateTopic] \in {{}, {"offline"}}
        <3>1. CASE link = "up" /\ count = Len(Waiting) /\ broker' = Delivered(count)
            <4>1. Waiting \in Seq(Messages) /\ SubSeq(Waiting, 1, Len(Waiting)) = Waiting
                BY DEF Waiting, Typed, TypeOK
            <4>2. broker'.retained = Retained(Waiting)
                BY <3>1, <4>1 DEF Delivered
            <4>3. broker'.retained[StateTopic] = Promised(StateTopic)
                BY <4>2, RetainedLast, TopicsDiffer DEF Promised
            <4> QED
                BY <2>1, <3>1, <4>3 DEF FarewellPromised, LinkKnown
        <3>2. CASE broker' = Deserted(Delivered(count))
            BY <3>2, DeliveredType, DesertedType
        <3>3. CASE link = "lost" /\ UNCHANGED broker
            BY <3>3 DEF WillPublished
        <3> QED
            BY <1>7, <3>1, <3>2, <3>3 DEF Disconnected
    <2> QED
        BY <2>1, <2>2
           DEF AvailabilityPromised, Heard, Polling, WillPublished, FarewellPromised, LinkKnown
<1> QED
    BY <1>1, <1>3, <1>4, <1>5, <1>6, <1>7 DEF Shutdown

\* Every step keeps what is promised about availability.
LEMMA AvailabilityNext == Typed /\ AvailabilityInv /\ [Next]_vars => AvailabilityInv'
<1> SUFFICES ASSUME Typed, AvailabilityInv, [Next]_vars
             PROVE  AvailabilityInv'
    OBVIOUS
<1>1. CASE SetupStep \/ StartSetup \/ UNCHANGED vars
    <2>1. UNCHANGED <<phase, stuck, gateway, link, mqttConnected, broker, queue, backlog>>
        BY <1>1 DEF SetupStep, SetupConnect, SetupDiscover, SetupEnable, SetupFail, SetupCancelled,
                    SetupClose, StartSetup, Keep, vars, mqttVars, brokerVars
    <2> QED
        BY <2>1 DEF AvailabilityInv, AvailabilityPromised, Heard, Polling, WillPublished,
                    FarewellPromised, LinkKnown, Promised, Waiting
<1> QED
    BY <1>1, AvailabilityGateway, AvailabilityReport, AvailabilityMqtt, AvailabilityShutdown
       DEF Next, GatewayEvent

\* Every state of the bridge satisfies the types and what is promised about availability.
LEMMA AvailabilityKept == Spec => [](Typed /\ AvailabilityInv)
BY TypedInit, TypedNext, AvailabilityInit, AvailabilityNext, PTL DEF Spec

\* Once everything queued is delivered, the availability topic says online exactly
\* when the bridge has a gateway (publish_availability and publish_complete_snapshot,
\* over every order of failures and whatever the client replays).
THEOREM AvailabilityIsTrue == Spec => []AvailabilityTrue
<1>1. AvailabilityInv => AvailabilityTrue
    <2> SUFFICES ASSUME AvailabilityInv, Settled
                 PROVE  broker.retained[StateTopic] = IF gateway = "some" THEN {"online"} ELSE {"offline"}
        BY DEF AvailabilityTrue
    <2>1. Heard /\ Waiting = <<>>
        BY DEF Settled, Heard, Waiting
    <2>2. Promised(StateTopic) = broker.retained[StateTopic]
        BY <2>1, LastOfNone DEF Promised
    <2> QED
        BY <2>1, <2>2 DEF AvailabilityInv, AvailabilityPromised
<1> QED
    BY <1>1, AvailabilityKept, PTL

\* After the process has stopped the broker says offline or nothing: the farewell of
\* shutdown was sent before the disconnect, or the last will has replaced what was there.
THEOREM StopsOffline == Spec => []StoppedOffline
<1>1. AvailabilityInv => StoppedOffline
    BY DEF AvailabilityInv, WillPublished, LinkKnown, StoppedOffline
<1> QED
    BY <1>1, AvailabilityKept, PTL

-----------------------------------------------------------------------------
(***************************************************************************)
(* The snapshot.                                                           *)
(***************************************************************************)
\* What the broker will retain of nodes and groups is what is known of them.
Shows(nodes, present) ==
    /\ Promised(NodesTopic) = Present(nodes) /\ Promised(GroupsTopic) = present
    /\ Promised(HassTopic) = Present(nodes) \cup present
    /\ \A n \in Present(nodes) : /\ Promised(Topic("info", n)) = {"info"}
                                 /\ Promised(Topic("status", n)) = {nodes[n]}
    /\ \A g \in present : Promised(Topic("group", g)) = {"info"}

SnapshotInv == (Heard /\ gateway = "some") => Shows(cache, groups)

\* A message of other topics than those of a snapshot.
Elsewhere(m, nodes, present) ==
    /\ m.topic \notin {NodesTopic, GroupsTopic, HassTopic}
    /\ \A n \in Present(nodes) : m.topic \notin {Topic("info", n), Topic("status", n)}
    /\ \A g \in present : m.topic # Topic("group", g)

\* A snapshot that is queued is what will be retained, whatever was before
\* (publish_complete_snapshot).
LEMMA SnapshotShown ==
    ASSUME Typed, NEW pubs \in Seq(Messages), queue' = queue \o pubs, UNCHANGED <<backlog, broker>>,
           NEW nodes, NEW present, NEW others,
           Range(pubs) = others \cup SnapshotMessages(nodes, present),
           \A m \in others : Elsewhere(m, nodes, present)
    PROVE  Shows(nodes, present)'
<1>0. \A t, v : Publication(t, v).topic = t /\ Publication(t, v).value = v
    BY DEF Publication, Message
<1>1. \A t, v, gone : Message(t, v, gone).topic = t /\ Message(t, v, gone).value = v
    BY DEF Message
<1>2. ASSUME NEW m \in Range(pubs)
      PROVE  /\ m.topic = NodesTopic => m.value = Present(nodes)
             /\ m.topic = GroupsTopic => m.value = present
             /\ m.topic = HassTopic => m.value = Present(nodes) \cup present
             /\ \A n \in Present(nodes) : /\ m.topic = Topic("info", n) => m.value = {"info"}
                                          /\ m.topic = Topic("status", n) => m.value = {nodes[n]}
             /\ \A g \in present : m.topic = Topic("group", g) => m.value = {"info"}
    <2>1. CASE m \in others
        BY <2>1 DEF Elsewhere
    <2>2. CASE m \in SnapshotMessages(nodes, present)
        <3>1. CASE m \in {Publication(StateTopic, {"offline"}), Publication(StateTopic, {"online"}),
                          Publication(NodesTopic, Present(nodes)), Publication(GroupsTopic, present),
                          Message(HassTopic, Present(nodes) \cup present,
                                  known \ (Present(nodes) \cup present))}
            BY <1>0, <1>1, <3>1, TopicsApart
        <3>2. CASE \E n \in Present(nodes) : m = Publication(Topic("info", n), {"info"})
            BY <1>0, <3>2, TopicsApart
        <3>3. CASE \E n \in Present(nodes) : m = Publication(Topic("status", n), {nodes[n]})
            <4>1. PICK n \in Present(nodes) : m = Publication(Topic("status", n), {nodes[n]})
                BY <3>3
            <4>2. m.topic = Topic("status", n) /\ m.value = {nodes[n]}
                BY <1>0, <4>1
            <4>3. \A k : m.topic = Topic("status", k) => k = n
                BY <4>2, TopicsApart
            <4> QED
                BY <4>2, <4>3, TopicsApart
        <3>4. CASE \E g \in present : m = Publication(Topic("group", g), {"info"})
            BY <1>0, <3>4, TopicsApart
        <3> QED
            BY <2>2, <3>1, <3>2, <3>3, <3>4 DEF SnapshotMessages
    <2> QED
        BY <2>1, <2>2
<1>3. /\ {Publication(NodesTopic, Present(nodes)), Publication(GroupsTopic, present)} \subseteq Range(pubs)
      /\ \E gone : Message(HassTopic, Present(nodes) \cup present, gone) \in Range(pubs)
      /\ \A n \in Present(nodes) : /\ Publication(Topic("info", n), {"info"}) \in Range(pubs)
                                   /\ Publication(Topic("status", n), {nodes[n]}) \in Range(pubs)
      /\ \A g \in present : Publication(Topic("group", g), {"info"}) \in Range(pubs)
    BY DEF SnapshotMessages
<1>4. /\ Mentions(pubs, NodesTopic) /\ Mentions(pubs, GroupsTopic) /\ Mentions(pubs, HassTopic)
      /\ \A n \in Present(nodes) : Mentions(pubs, Topic("info", n)) /\ Mentions(pubs, Topic("status", n))
      /\ \A g \in present : Mentions(pubs, Topic("group", g))
    <2>1. \A t, v : Publication(t, v) \in Range(pubs) => Mentions(pubs, t)
        BY <1>0 DEF Mentions
    <2>2. \A t, v, gone : Message(t, v, gone) \in Range(pubs) => Mentions(pubs, t)
        BY <1>1 DEF Mentions
    <2>3. Mentions(pubs, NodesTopic) /\ Mentions(pubs, GroupsTopic) /\ Mentions(pubs, HassTopic)
        BY <1>3, <2>1, <2>2
    <2> QED
        BY <1>3, <2>1, <2>3
<1>5. /\ Agrees(pubs, NodesTopic, Present(nodes)) /\ Agrees(pubs, GroupsTopic, present)
      /\ Agrees(pubs, HassTopic, Present(nodes) \cup present)
      /\ \A n \in Present(nodes) : /\ Agrees(pubs, Topic("info", n), {"info"})
                                   /\ Agrees(pubs, Topic("status", n), {nodes[n]})
      /\ \A g \in present : Agrees(pubs, Topic("group", g), {"info"})
    BY <1>2 DEF Agrees
<1>6. \A t, v : Mentions(pubs, t) /\ Agrees(pubs, t, v) => Promised(t)' = v
    BY PromisedAfter
<1> QED
    BY <1>4, <1>5, <1>6 DEF Shows

\* A handler of the loop that has published and is not stuck, over a connection that
\* is up.
LEMMA HeardHandler ==
    ASSUME Typed, NEW pubs \in Seq(Messages), QueueIfConnected(pubs), Polling,
           UNCHANGED <<phase, brokerVars>>, Heard'
    PROVE  Heard /\ mqttConnected /\ queue' = queue \o pubs /\ UNCHANGED <<backlog, broker>>
<1>1. UNCHANGED <<backlog, link, mqttConnected, broker>> /\ ~stuck' /\ mqttConnected /\ link = "up"
    BY DEF brokerVars, Heard, Polling
<1>2. queue' = queue \o pubs
    BY <1>1, QueueIfConnectedType DEF Typed
<1> QED
    BY <1>1, <1>2 DEF Heard

\* Reports of the gateway keep what is shown true.
LEMMA SnapshotReport ==
    ASSUME Typed, SnapshotInv,
           \/ \E n \in Nodes, status \in Status : StatusChanged(n, status) \/ NodeReported(n, status)
           \/ \E g \in Groups : GroupReported(g) \/ GroupDeleted(g)
    PROVE  SnapshotInv'
<1> SUFFICES ASSUME Heard', gateway' = "some"
             PROVE  Shows(cache, groups)'
    BY DEF SnapshotInv
<1>0. /\ \A t, v : Publication(t, v).topic = t /\ Publication(t, v).value = v
      /\ \A nodes, present : /\ HassMessage(nodes, present).topic = HassTopic
                             /\ HassMessage(nodes, present).value = Present(nodes) \cup present
    BY DEF Publication, Message, HassMessage
<1>1. cache \in Caches /\ Absent \notin Status
    BY StatusAssumption DEF Typed, TypeOK, Caches
<1>2. ASSUME NEW n \in Nodes, NEW status \in Status, StatusChanged(n, status)
      PROVE  Shows(cache, groups)'
    <2>1. PICK pubs \in Seq(Messages) :
              QueueIfConnected(pubs) /\ Range(pubs) = {Publication(Topic("status", n), {status})}
        BY <1>2, StatusPublishes DEF Typed
    <2>2. /\ Polling /\ UNCHANGED <<phase, brokerVars, groups>> /\ gateway = "some"
          /\ cache' = [cache EXCEPT ![n] = status] /\ cache[n] # Absent
        BY <1>2 DEF StatusChanged, Apply
    <2>3. Heard /\ queue' = queue \o pubs /\ UNCHANGED <<backlog, broker>>
        BY <2>1, <2>2, HeardHandler
    <2>4. Shows(cache, groups)
        BY <2>2, <2>3 DEF SnapshotInv
    <2>5. /\ Present(cache') = Present(cache) /\ cache'[n] = status
          /\ \A k \in Nodes \ {n} : cache'[k] = cache[k]
        BY <1>1, <2>2 DEF Present, Caches
    <2>6. /\ \A t : t # Topic("status", n) => ~Mentions(pubs, t)
          /\ Mentions(pubs, Topic("status", n)) /\ Agrees(pubs, Topic("status", n), {status})
        BY <1>0, <2>1 DEF Mentions, Agrees
    <2>7. /\ \A t : t # Topic("status", n) => Promised(t)' = Promised(t)
          /\ Promised(Topic("status", n))' = {status}
        BY <2>3, <2>6, PromisedAfter
    <2>8. Present(cache)' = Present(cache) /\ Present(cache) \subseteq Nodes
        BY <2>5 DEF Present
    <2>9. ASSUME NEW k \in Present(cache)
          PROVE  /\ Promised(Topic("info", k))' = {"info"}
                 /\ Promised(Topic("status", k))' = {cache'[k]}
        <3>1. CASE k = n
            BY <2>4, <2>5, <2>7, <3>1, TopicsApart DEF Shows
        <3>2. CASE k # n
            BY <2>4, <2>5, <2>7, <2>8, <3>2, TopicsApart DEF Shows
        <3> QED
            BY <3>1, <3>2
    <2>10. /\ Promised(NodesTopic)' = Present(cache) /\ Promised(GroupsTopic)' = groups
           /\ Promised(HassTopic)' = Present(cache) \cup groups
           /\ \A g \in groups : Promised(Topic("group", g))' = {"info"}
        BY <2>4, <2>7, TopicsApart DEF Shows
    <2> QED
        BY <2>2, <2>8, <2>9, <2>10 DEF Shows
<1>3. ASSUME NEW n \in Nodes, NEW status \in Status, NodeReported(n, status)
      PROVE  Shows(cache, groups)'
    <2> DEFINE nodes == [cache EXCEPT ![n] = status]
    <2>1. PICK pubs \in Seq(Messages) :
               /\ QueueIfConnected(pubs)
               /\ Range(pubs) = (IF cache[n] = Absent THEN {Publication(NodesTopic, Present(nodes))} ELSE {})
                                    \cup {Publication(Topic("info", n), {"info"}), HassMessage(nodes, groups),
                                          Publication(Topic("status", n), {status})}
        BY <1>3, NodePublishes DEF Typed
    <2>2. /\ Polling /\ UNCHANGED <<phase, brokerVars, groups>> /\ gateway = "some"
          /\ cache' = nodes
        BY <1>3 DEF NodeReported, Apply
    <2>3. Heard /\ queue' = queue \o pubs /\ UNCHANGED <<backlog, broker>>
        BY <2>1, <2>2, HeardHandler
    <2>4. Shows(cache, groups)
        BY <2>2, <2>3 DEF SnapshotInv
    <2>5. /\ Present(nodes) = Present(cache) \cup {n} /\ nodes[n] = status
          /\ \A k \in Nodes \ {n} : nodes[k] = cache[k]
          /\ cache[n] # Absent => Present(nodes) = Present(cache)
        BY <1>1 DEF Present, Caches
    <2> HIDE DEF nodes
    <2>6. /\ \A t : t \notin {Topic("status", n), Topic("info", n), HassTopic, NodesTopic} => ~Mentions(pubs, t)
          /\ Mentions(pubs, Topic("status", n)) /\ Agrees(pubs, Topic("status", n), {status})
          /\ Mentions(pubs, Topic("info", n)) /\ Agrees(pubs, Topic("info", n), {"info"})
          /\ Mentions(pubs, HassTopic) /\ Agrees(pubs, HassTopic, Present(nodes) \cup groups)
        BY <1>0, <2>1, TopicsApart DEF Mentions, Agrees
    <2>7. /\ cache[n] = Absent => Mentions(pubs, NodesTopic) /\ Agrees(pubs, NodesTopic, Present(nodes))
          /\ cache[n] # Absent => ~Mentions(pubs, NodesTopic)
        BY <1>0, <2>1, TopicsApart DEF Mentions, Agrees
    <2>8. \A t : /\ ~Mentions(pubs, t) => Promised(t)' = Promised(t)
                 /\ \A v : Mentions(pubs, t) /\ Agrees(pubs, t, v) => Promised(t)' = v
        BY <2>3, PromisedAfter
    <2>9. Promised(NodesTopic)' = Present(nodes)
        <3>1. CASE cache[n] = Absent
            BY <2>7, <2>8, <3>1
        <3>2. CASE cache[n] # Absent
            BY <2>4, <2>5, <2>7, <2>8, <3>2 DEF Shows
        <3> QED
            BY <3>1, <3>2
    <2>10. Promised(GroupsTopic)' = groups /\ Promised(HassTopic)' = Present(nodes) \cup groups
        BY <2>4, <2>6, <2>8, TopicsApart DEF Shows
    <2>11. ASSUME NEW k \in Present(nodes)
           PROVE  Promised(Topic("info", k))' = {"info"} /\ Promised(Topic("status", k))' = {nodes[k]}
        <3>1. CASE k = n
            BY <2>5, <2>6, <2>8, <3>1
        <3>2. CASE k # n
            <4>1. k \in Present(cache) /\ nodes[k] = cache[k]
                BY <2>5, <3>2 DEF Present
            <4>2. ~Mentions(pubs, Topic("info", k)) /\ ~Mentions(pubs, Topic("status", k))
                BY <2>6, <3>2, TopicsApart
            <4> QED
                BY <2>4, <2>8, <4>1, <4>2 DEF Shows
        <3> QED
            BY <3>1, <3>2
    <2>12. \A g \in groups : Promised(Topic("group", g))' = {"info"}
        BY <2>4, <2>6, <2>8, TopicsApart DEF Shows
    <2>13. Present(cache)' = Present(nodes)
        BY <2>2 DEF Present
    <2> QED
        BY <2>2, <2>9, <2>10, <2>11, <2>12, <2>13 DEF Shows
<1>4. ASSUME NEW g \in Groups, NEW present, NEW value,
             \/ GroupReported(g) /\ present = groups \cup {g} /\ value = {"info"}
             \/ GroupDeleted(g) /\ present = groups \ {g} /\ value = {}
      PROVE  Shows(cache, groups)'
    <2>1. PICK pubs \in Seq(Messages) :
               /\ QueueIfConnected(pubs)
               /\ Range(pubs) = {Publication(GroupsTopic, present),
                                 Publication(Topic("group", g), value), HassMessage(cache, present)}
        BY <1>4, GroupPublishes, GroupGonePublishes DEF Typed
    <2>2. /\ Polling /\ UNCHANGED <<phase, brokerVars, cache>> /\ gateway = "some"
          /\ groups' = present
        BY <1>4 DEF GroupReported, GroupDeleted, Apply
    <2>3. Heard /\ queue' = queue \o pubs /\ UNCHANGED <<backlog, broker>>
        BY <2>1, <2>2, HeardHandler
    <2>4. Shows(cache, groups)
        BY <2>2, <2>3 DEF SnapshotInv
    <2>5. /\ \A t : t \notin {Topic("group", g), HassTopic, GroupsTopic} => ~Mentions(pubs, t)
          /\ Mentions(pubs, Topic("group", g)) /\ Agrees(pubs, Topic("group", g), value)
          /\ Mentions(pubs, GroupsTopic) /\ Agrees(pubs, GroupsTopic, present)
          /\ Mentions(pubs, HassTopic) /\ Agrees(pubs, HassTopic, Present(cache) \cup present)
        BY <1>0, <2>1, TopicsApart DEF Mentions, Agrees
    <2>6. \A t : /\ ~Mentions(pubs, t) => Promised(t)' = Promised(t)
                 /\ \A v : Mentions(pubs, t) /\ Agrees(pubs, t, v) => Promised(t)' = v
        BY <2>3, PromisedAfter
    <2>7. /\ Promised(NodesTopic)' = Present(cache) /\ Promised(GroupsTopic)' = present
          /\ Promised(HassTopic)' = Present(cache) \cup present
        BY <2>4, <2>5, <2>6, TopicsApart DEF Shows
    <2>8. \A n \in Present(cache) : /\ Promised(Topic("info", n))' = {"info"}
                                    /\ Promised(Topic("status", n))' = {cache[n]}
        BY <2>4, <2>5, <2>6, TopicsApart DEF Shows
    <2>9. ASSUME NEW h \in present
          PROVE  Promised(Topic("group", h))' = {"info"}
        <3>1. CASE h = g
            <4>1. value = {"info"}
                BY <1>4, <3>1
            <4> QED
                BY <2>5, <2>6, <3>1, <4>1
        <3>2. CASE h # g
            <4>1. h \in groups
                BY <1>4, <3>2
            <4>2. ~Mentions(pubs, Topic("group", h))
                BY <2>5, <3>2, TopicsApart
            <4> QED
                BY <2>4, <2>6, <4>1, <4>2 DEF Shows
        <3> QED
            BY <3>1, <3>2
    <2>10. Present(cache)' = Present(cache)
        BY <2>2 DEF Present
    <2> QED
        BY <2>2, <2>7, <2>8, <2>9, <2>10 DEF Shows
<1>5. ASSUME NEW g \in Groups, GroupReported(g) \/ GroupDeleted(g)
      PROVE  Shows(cache, groups)'
    <2>1. CASE GroupReported(g)
        BY <1>4, <2>1
    <2>2. CASE GroupDeleted(g)
        BY <1>4, <2>2
    <2> QED
        BY <1>5, <2>1, <2>2
<1> QED
    BY <1>2, <1>3, <1>5

\* Every step keeps what is shown true.
LEMMA SnapshotNext == Typed /\ SnapshotInv /\ [Next]_vars => SnapshotInv'
<1> SUFFICES ASSUME Typed, SnapshotInv, [Next]_vars, Heard', gateway' = "some"
             PROVE  Shows(cache, groups)'
    BY DEF SnapshotInv
<1>1. CASE SetupStep \/ StartSetup \/ Signal \/ UNCHANGED vars
    <2>1. UNCHANGED <<phase, stuck, gateway, cache, groups, link, mqttConnected, broker, queue, backlog>>
        BY <1>1 DEF SetupStep, SetupConnect, SetupDiscover, SetupEnable, SetupFail, SetupCancelled,
                    SetupClose, StartSetup, Signal, Keep, vars, mqttVars, brokerVars, cacheVars
    <2>2. Shows(cache, groups)
        BY <2>1 DEF SnapshotInv, Heard, Polling
    <2> QED
        BY <2>1, <2>2 DEF Shows, Promised, Waiting, Present
<1>2. CASE HandleSetupReady
    <2>1. PICK pubs \in Seq(Messages) :
              /\ QueueIfConnected(pubs)
              /\ Range(pubs) =
                     (UNION {Range(ClearNode(n)) : n \in Present(cache) \ Present(prepared.cache)})
                     \cup (UNION {Range(ClearGroup(g)) : g \in groups \ prepared.groups})
                     \cup SnapshotMessages(prepared.cache, prepared.groups)
        BY <1>2, ReadyPublishes DEF Typed
    <2>2. /\ Polling /\ UNCHANGED <<phase, brokerVars>>
          /\ cache' = prepared.cache /\ groups' = prepared.groups
        BY <1>2 DEF HandleSetupReady
    <2>3. Heard /\ queue' = queue \o pubs /\ UNCHANGED <<backlog, broker>>
        BY <2>1, <2>2, HeardHandler
    <2>4. PICK nodes, present : nodes = prepared.cache /\ present = prepared.groups
        OBVIOUS
    <2> DEFINE others == (UNION {Range(ClearNode(n)) : n \in Present(cache) \ Present(nodes)})
                         \cup (UNION {Range(ClearGroup(g)) : g \in groups \ present})
    <2>5. ASSUME NEW m \in others
          PROVE  Elsewhere(m, nodes, present)
        <3>1. CASE \E n \in Present(cache) \ Present(nodes) : m \in Range(ClearNode(n))
            <4>1. PICK n \in Present(cache) \ Present(nodes) : m \in Range(ClearNode(n))
                BY <3>1
            <4>2. m.topic \in {Topic("info", n), Topic("status", n)}
                BY <4>1, ShortRange DEF ClearNode, Publication, Message
            <4> QED
                BY <4>1, <4>2, TopicsApart DEF Elsewhere
        <3>2. CASE \E g \in groups \ present : m \in Range(ClearGroup(g))
            <4>1. PICK g \in groups \ present : m \in Range(ClearGroup(g))
                BY <3>2
            <4>2. m.topic = Topic("group", g)
                BY <4>1, ShortRange DEF ClearGroup, Publication, Message
            <4> QED
                BY <4>1, <4>2, TopicsApart DEF Elsewhere
        <3> QED
            BY <3>1, <3>2
    <2>6. Range(pubs) = others \cup SnapshotMessages(nodes, present)
        BY <2>1, <2>4
    <2> HIDE DEF others
    <2>7. Shows(nodes, present)'
        BY <2>3, <2>5, <2>6, SnapshotShown
    <2> QED
        BY <2>2, <2>4, <2>7 DEF Shows, Present
<1>3. CASE MqttConnects
    <2>1. /\ gateway = "some" /\ UNCHANGED <<cache, groups, backlog, broker>> /\ ~stuck'
        BY <1>3 DEF MqttConnects, Heard, Polling
    <2>2. PICK pubs \in Seq(Messages) :
              /\ Queue(pubs)
              /\ Range(pubs) = {Publication(SubscribeTopic, {"on"})} \cup SnapshotMessages(cache, groups)
        BY <1>3, <2>1, ConnectPublishes DEF Typed
    <2>3. queue' = queue \o pubs
        BY <2>1, <2>2, QueueType DEF Typed
    <2>4. PICK nodes, present : nodes = cache /\ present = groups
        OBVIOUS
    <2> DEFINE others == {Publication(SubscribeTopic, {"on"})}
    <2>5. \A m \in others : Elsewhere(m, nodes, present)
        BY TopicsApart DEF Elsewhere, Publication, Message
    <2>6. Range(pubs) = others \cup SnapshotMessages(nodes, present)
        BY <2>2, <2>4
    <2> HIDE DEF others
    <2>7. Shows(nodes, present)'
        BY <2>1, <2>3, <2>5, <2>6, SnapshotShown
    <2> QED
        BY <2>1, <2>4, <2>7 DEF Shows, Present
<1>4. CASE Flush
    <2>1. UNCHANGED <<phase, stuck, gateway, cache, groups, link, mqttConnected>>
        BY <1>4 DEF Flush, cacheVars
    <2>2. Shows(cache, groups)
        BY <2>1 DEF SnapshotInv, Heard, Polling
    <2>3. \A t \in Topics : Promised(t)' = Promised(t)
        BY <1>4, PromisedDelivered
    <2>4. Present(cache) \subseteq Nodes /\ groups \subseteq Groups /\ Present(cache)' = Present(cache)
        BY <2>1 DEF Present, Typed, TypeOK
    <2> QED
        BY <2>1, <2>2, <2>3, <2>4, TopicsDiffer DEF Shows
<1>5. CASE HandleSetupFailed
    <2>1. setup = "failed" /\ gateway' = gateway
        BY <1>5 DEF HandleSetupFailed
    <2> QED
        BY <2>1 DEF Typed, TypeOK
<1>6. ~ \E how \in {"lost", "dropped"} : GatewayFailed(how)
    BY DEF GatewayFailed
<1>7. ~ \E confirmed \in BOOLEAN : RebootCommand(confirmed)
    BY DEF RebootCommand
<1>8. ~MqttUnreadable /\ ~ \E kept \in BOOLEAN : MqttFails(kept)
    BY DEF MqttUnreadable, MqttFails, Heard
<1>9. ~ \E count \in 0..Len(Waiting) : LinkLost(count)
    BY DEF LinkLost, Heard
<1>10. ~Shutdown
    BY DEF Shutdown, HandleSignal, RequestDisconnect, Disconnected, SetupJoined, CloseGateway, Heard, Polling
<1> QED
    BY <1>1, <1>2, <1>3, <1>4, <1>5, <1>6, <1>7, <1>8, <1>9, <1>10, SnapshotReport DEF Next, GatewayEvent, SnapshotInv

\* Once everything queued is delivered and the gateway is connected, the broker
\* retains the inventories and the topics of every node and group of the cache with
\* the cached values (publish_complete_snapshot and the updates after it).
THEOREM SnapshotIsTrue == Spec => []SnapshotTrue
<1>1. Init => SnapshotInv
    BY DEF Init, SnapshotInv, Heard
<1>2. SnapshotInv => SnapshotTrue
    <2> SUFFICES ASSUME SnapshotInv, Settled, gateway = "some"
                 PROVE  SnapshotTrue
        BY DEF SnapshotTrue
    <2>1. Heard /\ Waiting = <<>>
        BY DEF Settled, Heard, Waiting
    <2>2. \A t : Promised(t) = broker.retained[t]
        BY <2>1, LastOfNone DEF Promised
    <2> QED
        BY <2>1, <2>2 DEF SnapshotInv, Shows, SnapshotTrue
<1> QED
    BY <1>1, <1>2, TypedInit, TypedNext, SnapshotNext, PTL DEF Spec

-----------------------------------------------------------------------------
(***************************************************************************)
(* What has been removed.                                                  *)
(***************************************************************************)
\* Nothing will be retained of nodes and groups that are not known, except of the
\* excused.
Cleared(nodes, present, excused) ==
    /\ \A n \in Nodes \ (Present(nodes) \cup excused) : Promised(Topic("info", n)) = {}
    /\ \A g \in Groups \ (present \cup excused) : Promised(Topic("group", g)) = {}

MissedRecord == missed = [topics |-> missed.topics, entities |-> missed.entities]
ClearedInv == MissedRecord /\ (Polling => Cleared(cache, groups, missed.topics))

\* A value comes from a message or was there before.
LEMMA LastSource ==
    ASSUME NEW messages \in Seq(Messages), NEW t, NEW old
    PROVE  \/ LastValue(old, messages, t) = old
           \/ \E m \in Range(messages) : m.topic = t /\ m.value = LastValue(old, messages, t)
<1>1. CASE Mentions(messages, t)
    <2>1. Range(messages) \cap On(t) # {} /\ LastValue(old, messages, t) = LastIn(messages, On(t)).value
        BY <1>1, LastValueIn
    <2>2. LastIn(messages, On(t)) \in Range(messages) \cap On(t)
        BY <2>1, LastInElement
    <2> QED
        BY <2>1, <2>2 DEF On
<1>2. CASE ~Mentions(messages, t)
    BY <1>2, LastValueIn
<1> QED
    BY <1>1, <1>2


Clears(pubs, t) == Mentions(pubs, t) /\ Agrees(pubs, t, {})

\* A handler of the loop: the topic of an id that is not known after it was clear and
\* stays so, or is cleared.
LEMMA ClearedHandler ==
    ASSUME Typed, ClearedInv, NEW pubs \in Seq(Messages), QueueIfConnected(pubs), Polling,
           UNCHANGED <<phase, brokerVars>>, MissedRecord',
           NEW nodes, NEW present, NEW excused,
           cache' = nodes, groups' = present, missed'.topics = excused,
           \A n \in Nodes \ (Present(nodes) \cup excused) :
               \/ n \notin Present(cache) \cup missed.topics /\ ~Mentions(pubs, Topic("info", n))
               \/ n \notin Present(cache) \cup missed.topics /\ ~mqttConnected
               \/ mqttConnected /\ Clears(pubs, Topic("info", n)),
           \A g \in Groups \ (present \cup excused) :
               \/ g \notin groups \cup missed.topics /\ ~Mentions(pubs, Topic("group", g))
               \/ g \notin groups \cup missed.topics /\ ~mqttConnected
               \/ mqttConnected /\ Clears(pubs, Topic("group", g))
    PROVE  ClearedInv'
<1> SUFFICES ASSUME ~stuck'
             PROVE  Cleared(nodes, present, excused)'
    BY DEF ClearedInv, Polling, Cleared, Present
<1>1. Cleared(cache, groups, missed.topics) /\ UNCHANGED <<backlog, broker>>
    BY DEF ClearedInv, brokerVars
<1>2. CASE mqttConnected
    <2>1. queue' = queue \o pubs
        BY <1>2, QueueIfConnectedType DEF Typed
    <2>2. \A t : /\ ~Mentions(pubs, t) => Promised(t)' = Promised(t)
                 /\ Clears(pubs, t) => Promised(t)' = {}
        BY <1>1, <2>1, PromisedAfter DEF Clears
    <2> QED
        BY <1>1, <1>2, <2>2 DEF Cleared
<1>3. CASE ~mqttConnected
    <2>1. queue' = queue \o <<>> /\ <<>> \in Seq(Messages)
        <3>1. queue' = queue \o (IF mqttConnected THEN pubs ELSE <<>>)
            BY QueueIfConnectedType DEF Typed
        <3> QED
            BY <1>3, <3>1
    <2>2. \A t : Promised(t)' = Promised(t)
        BY <1>1, <2>1, PromisedAfter, ShortRange DEF Mentions
    <2> QED
        BY <1>1, <1>3, <2>2 DEF Cleared
<1> QED
    BY <1>2, <1>3

\* The topics of a snapshot.
LEMMA SnapshotTopics ==
    ASSUME NEW nodes, NEW present, NEW m \in SnapshotMessages(nodes, present)
    PROVE  \/ m.topic \in {StateTopic, NodesTopic, GroupsTopic, HassTopic}
           \/ \E n \in Present(nodes) : m.topic \in {Topic("info", n), Topic("status", n)}
           \/ \E g \in present : m.topic = Topic("group", g)
<1>0. \A t, v : Publication(t, v).topic = t /\ \A gone : Message(t, v, gone).topic = t
    BY DEF Publication, Message
<1>1. CASE m \in {Publication(StateTopic, {"offline"}), Publication(StateTopic, {"online"}),
                  Publication(NodesTopic, Present(nodes)), Publication(GroupsTopic, present),
                  Message(HassTopic, Present(nodes) \cup present, known \ (Present(nodes) \cup present))}
    BY <1>0, <1>1
<1>2. CASE \E n \in Present(nodes) : m = Publication(Topic("info", n), {"info"})
    BY <1>0, <1>2
<1>3. CASE \E n \in Present(nodes) : m = Publication(Topic("status", n), {nodes[n]})
    BY <1>0, <1>3
<1>4. CASE \E g \in present : m = Publication(Topic("group", g), {"info"})
    BY <1>0, <1>4
<1> QED
    BY <1>1, <1>2, <1>3, <1>4 DEF SnapshotMessages

\* The handlers of the gateway: setup results, failures and reboots.
LEMMA ClearedGateway ==
    ASSUME Typed, ClearedInv,
           \/ HandleSetupReady \/ HandleSetupFailed
           \/ \E how \in {"lost", "dropped"} : GatewayFailed(how)
           \/ \E confirmed \in BOOLEAN : RebootCommand(confirmed)
    PROVE  ClearedInv'
<1>0. \A t, v : Publication(t, v).topic = t /\ Publication(t, v).value = v
    BY DEF Publication, Message
<1>1. CASE HandleSetupReady
    <2> DEFINE removed == Present(cache) \ Present(prepared.cache)
               removedGroups == groups \ prepared.groups
    <2>1. PICK pubs \in Seq(Messages) :
              /\ QueueIfConnected(pubs)
              /\ Range(pubs) = (UNION {Range(ClearNode(n)) : n \in removed})
                               \cup (UNION {Range(ClearGroup(g)) : g \in removedGroups})
                               \cup SnapshotMessages(prepared.cache, prepared.groups)
        BY <1>1, ReadyPublishes DEF Typed
    <2>2. /\ Polling /\ UNCHANGED <<phase, brokerVars>>
          /\ cache' = prepared.cache /\ groups' = prepared.groups
          /\ missed' = IF mqttConnected THEN missed
                       ELSE [missed EXCEPT !.topics = @ \cup removed \cup removedGroups]
        BY <1>1 DEF HandleSetupReady
    <2>3. /\ MissedRecord' /\ missed.topics \subseteq missed'.topics
          /\ ~mqttConnected => removed \cup removedGroups \subseteq missed'.topics
        BY <2>2 DEF ClearedInv, MissedRecord
    <2>4. PICK nodes, present, excused :
              nodes = prepared.cache /\ present = prepared.groups /\ excused = missed'.topics
        OBVIOUS
    <2>5. ASSUME NEW m \in Range(pubs)
          PROVE  \/ \E n \in removed : m.topic \in {Topic("info", n), Topic("status", n)} /\ m.value = {}
                 \/ \E g \in removedGroups : m.topic = Topic("group", g) /\ m.value = {}
                 \/ m.topic \in {StateTopic, NodesTopic, GroupsTopic, HassTopic}
                 \/ \E n \in Present(nodes) : m.topic \in {Topic("info", n), Topic("status", n)}
                 \/ \E g \in present : m.topic = Topic("group", g)
        <3>1. CASE \E n \in removed : m \in Range(ClearNode(n))
            BY <1>0, <3>1, ShortRange DEF ClearNode
        <3>2. CASE \E g \in removedGroups : m \in Range(ClearGroup(g))
            BY <1>0, <3>2, ShortRange DEF ClearGroup
        <3>3. CASE m \in SnapshotMessages(prepared.cache, prepared.groups)
            BY <2>4, <3>3, SnapshotTopics
        <3> QED
            BY <2>1, <3>1, <3>2, <3>3
    <2>6. /\ \A n \in removed : \E m \in Range(pubs) : m.topic = Topic("info", n)
          /\ \A g \in removedGroups : \E m \in Range(pubs) : m.topic = Topic("group", g)
        <3>1. \A n \in removed : Range(ClearNode(n)) \subseteq Range(pubs)
            BY <2>1
        <3>2. \A g \in removedGroups : Range(ClearGroup(g)) \subseteq Range(pubs)
            BY <2>1
        <3>3. \A n : Publication(Topic("info", n), {}) \in Range(ClearNode(n))
            BY ShortRange DEF ClearNode
        <3>4. \A g : Publication(Topic("group", g), {}) \in Range(ClearGroup(g))
            BY ShortRange DEF ClearGroup
        <3> QED
            BY <1>0, <3>1, <3>2, <3>3, <3>4
    <2>7. ASSUME NEW n \in Nodes \ (Present(nodes) \cup excused)
          PROVE  \/ n \notin Present(cache) \cup missed.topics /\ ~Mentions(pubs, Topic("info", n))
                 \/ n \notin Present(cache) \cup missed.topics /\ ~mqttConnected
                 \/ mqttConnected /\ Clears(pubs, Topic("info", n))
        <3>1. CASE n \in removed
            BY <2>3, <2>4, <2>5, <2>6, <3>1, TopicsApart DEF Clears, Mentions, Agrees
        <3>2. CASE n \notin removed
            BY <2>3, <2>4, <2>5, <3>2, TopicsApart DEF Mentions
        <3> QED
            BY <3>1, <3>2
    <2>8. ASSUME NEW g \in Groups \ (present \cup excused)
          PROVE  \/ g \notin groups \cup missed.topics /\ ~Mentions(pubs, Topic("group", g))
                 \/ g \notin groups \cup missed.topics /\ ~mqttConnected
                 \/ mqttConnected /\ Clears(pubs, Topic("group", g))
        <3>1. CASE g \in removedGroups
            BY <2>3, <2>4, <2>5, <2>6, <3>1, TopicsApart DEF Clears, Mentions, Agrees
        <3>2. CASE g \notin removedGroups
            BY <2>3, <2>4, <2>5, <3>2, TopicsApart DEF Mentions
        <3> QED
            BY <3>1, <3>2
    <2>9. cache' = nodes /\ groups' = present /\ missed'.topics = excused
        BY <2>2, <2>4
    <2> HIDE DEF removed, removedGroups
    <2> QED
        BY <2>1, <2>2, <2>3, <2>7, <2>8, <2>9, ClearedHandler, SMTT(60)
<1>2. CASE \/ HandleSetupFailed
           \/ \E how \in {"lost", "dropped"} : GatewayFailed(how)
           \/ \E confirmed \in BOOLEAN : RebootCommand(confirmed)
    <2>1. /\ Polling /\ UNCHANGED <<phase, brokerVars, cache, groups, missed>>
          /\ QueueIfConnected(Availability("offline"))
        BY <1>2 DEF HandleSetupFailed, GatewayFailed, RebootCommand, cacheVars
    <2>2. PICK nodes, present, excused : nodes = cache /\ present = groups /\ excused = missed.topics
        OBVIOUS
    <2>3. MissedRecord'
        BY <2>1 DEF ClearedInv, MissedRecord
    <2>4. PICK pubs \in Seq(Messages) : pubs = Availability("offline")
        BY OfflinePublishes
    <2>5. \A m \in Range(pubs) : m.topic = StateTopic
        BY <1>0, <2>4, ShortRange DEF Availability
    <2>6. \A id : ~Mentions(pubs, Topic("info", id)) /\ ~Mentions(pubs, Topic("group", id))
        BY <2>5, TopicsApart DEF Mentions
    <2> QED
        BY <2>1, <2>2, <2>3, <2>4, <2>6, ClearedHandler
<1> QED
    BY <1>1, <1>2

\* The handlers of what the gateway reports.
LEMMA ClearedReport ==
    ASSUME Typed, ClearedInv,
           \/ \E n \in Nodes, status \in Status : StatusChanged(n, status) \/ NodeReported(n, status)
           \/ \E g \in Groups : GroupReported(g) \/ GroupDeleted(g)
    PROVE  ClearedInv'
<1>0. /\ \A t, v : Publication(t, v).topic = t /\ Publication(t, v).value = v
      /\ \A nodes, present : HassMessage(nodes, present).topic = HassTopic
    BY DEF Publication, Message, HassMessage
<1>1. cache \in Caches /\ Absent \notin Status
    BY StatusAssumption DEF Typed, TypeOK, Caches
<1>2. ASSUME NEW n \in Nodes, NEW status \in Status, StatusChanged(n, status) \/ NodeReported(n, status)
      PROVE  ClearedInv'
    <2> DEFINE after == [cache EXCEPT ![n] = status]
    <2>1. PICK pubs \in Seq(Messages) :
              /\ QueueIfConnected(pubs)
              /\ \A m \in Range(pubs) : m.topic \in {NodesTopic, HassTopic, Topic("info", n), Topic("status", n)}
        <3>1. CASE StatusChanged(n, status)
            <4>1. PICK pubs \in Seq(Messages) :
                      QueueIfConnected(pubs) /\ Range(pubs) = {Publication(Topic("status", n), {status})}
                BY <3>1, StatusPublishes DEF Typed
            <4>2. \A m \in Range(pubs) : m.topic = Topic("status", n)
                BY <1>0, <4>1
            <4> QED
                BY <4>1, <4>2
        <3>2. CASE NodeReported(n, status)
            <4>1. PICK pubs \in Seq(Messages) :
                      /\ QueueIfConnected(pubs)
                      /\ Range(pubs) =
                             (IF cache[n] = Absent THEN {Publication(NodesTopic, Present(after))} ELSE {})
                                 \cup {Publication(Topic("info", n), {"info"}), HassMessage(after, groups),
                                       Publication(Topic("status", n), {status})}
                BY <3>2, NodePublishes DEF Typed
            <4> HIDE DEF after
            <4>2. \A m \in Range(pubs) : m.topic \in {NodesTopic, HassTopic, Topic("info", n), Topic("status", n)}
                BY <1>0, <4>1
            <4> QED
                BY <4>1, <4>2
        <3> QED
            BY <1>2, <3>1, <3>2
    <2>2. /\ Polling /\ UNCHANGED <<phase, brokerVars, groups, missed>> /\ cache' = after
        BY <1>2 DEF StatusChanged, NodeReported, Apply
    <2>3. Present(after) = Present(cache) \cup {n}
        BY <1>1 DEF Present, Caches
    <2>4. MissedRecord'
        BY <2>2 DEF ClearedInv, MissedRecord
    <2>5. PICK nodes, present, excused : nodes = after /\ present = groups /\ excused = missed.topics
        OBVIOUS
    <2>6. cache' = nodes /\ groups' = present /\ missed'.topics = excused
        BY <2>2, <2>5
    <2> HIDE DEF after
    <2>7. \A k \in Nodes \ (Present(nodes) \cup excused) :
              k \notin Present(cache) \cup missed.topics /\ ~Mentions(pubs, Topic("info", k))
        BY <2>1, <2>3, <2>5, TopicsApart DEF Mentions
    <2>8. \A g \in Groups \ (present \cup excused) :
              g \notin groups \cup missed.topics /\ ~Mentions(pubs, Topic("group", g))
        BY <2>1, <2>5, TopicsApart DEF Mentions
    <2> QED
        BY <2>1, <2>2, <2>4, <2>6, <2>7, <2>8, ClearedHandler
<1>3. ASSUME NEW g \in Groups, GroupReported(g)
      PROVE  ClearedInv'
    <2>1. PICK pubs \in Seq(Messages) :
              /\ QueueIfConnected(pubs)
              /\ \A m \in Range(pubs) : m.topic \in {GroupsTopic, HassTopic, Topic("group", g)}
        <3>1. PICK pubs \in Seq(Messages) :
                  /\ QueueIfConnected(pubs)
                  /\ Range(pubs) = {Publication(GroupsTopic, groups \cup {g}),
                                    Publication(Topic("group", g), {"info"}), HassMessage(cache, groups \cup {g})}
            BY <1>3, GroupPublishes DEF Typed
        <3>2. \A m \in Range(pubs) : m.topic \in {GroupsTopic, HassTopic, Topic("group", g)}
            BY <1>0, <3>1
        <3> QED
            BY <3>1, <3>2
    <2>2. /\ Polling /\ UNCHANGED <<phase, brokerVars, cache, missed>> /\ groups' = groups \cup {g}
        BY <1>3 DEF GroupReported, Apply
    <2>3. MissedRecord'
        BY <2>2 DEF ClearedInv, MissedRecord
    <2>4. PICK nodes, present, excused : nodes = cache /\ present = groups \cup {g} /\ excused = missed.topics
        OBVIOUS
    <2>5. cache' = nodes /\ groups' = present /\ missed'.topics = excused
        BY <2>2, <2>4
    <2>6. \A k \in Nodes \ (Present(nodes) \cup excused) :
              k \notin Present(cache) \cup missed.topics /\ ~Mentions(pubs, Topic("info", k))
        BY <2>1, <2>4, TopicsApart DEF Mentions
    <2>7. \A h \in Groups \ (present \cup excused) :
              h \notin groups \cup missed.topics /\ ~Mentions(pubs, Topic("group", h))
        BY <2>1, <2>4, TopicsApart DEF Mentions
    <2> QED
        BY <2>1, <2>2, <2>3, <2>5, <2>6, <2>7, ClearedHandler
<1>4. ASSUME NEW g \in Groups, GroupDeleted(g)
      PROVE  ClearedInv'
    <2>1. PICK pubs \in Seq(Messages) :
              /\ QueueIfConnected(pubs)
              /\ Range(pubs) = {Publication(GroupsTopic, groups \ {g}),
                                Publication(Topic("group", g), {}), HassMessage(cache, groups \ {g})}
        BY <1>4, GroupGonePublishes DEF Typed
    <2>2. /\ Polling /\ UNCHANGED <<phase, brokerVars, cache>> /\ groups' = groups \ {g}
          /\ missed' = IF mqttConnected THEN missed ELSE [missed EXCEPT !.topics = @ \cup {g}]
        BY <1>4 DEF GroupDeleted, Apply
    <2>3. /\ MissedRecord' /\ missed.topics \subseteq missed'.topics
          /\ ~mqttConnected => g \in missed'.topics
        BY <2>2 DEF ClearedInv, MissedRecord
    <2>4. PICK nodes, present, excused : nodes = cache /\ present = groups \ {g} /\ excused = missed'.topics
        OBVIOUS
    <2>5. cache' = nodes /\ groups' = present /\ missed'.topics = excused
        BY <2>2, <2>4
    <2>6. \A m \in Range(pubs) :
              m.topic \in {GroupsTopic, HassTopic} \/ (m.topic = Topic("group", g) /\ m.value = {})
        BY <1>0, <2>1
    <2>7. Clears(pubs, Topic("group", g))
        <3>1. Publication(Topic("group", g), {}) \in Range(pubs)
            BY <2>1
        <3> QED
            BY <1>0, <2>6, <3>1, TopicsApart DEF Clears, Mentions, Agrees
    <2>8. \A k \in Nodes \ (Present(nodes) \cup excused) :
              k \notin Present(cache) \cup missed.topics /\ ~Mentions(pubs, Topic("info", k))
        BY <2>3, <2>4, <2>6, TopicsApart DEF Mentions
    <2>9. ASSUME NEW h \in Groups \ (present \cup excused)
          PROVE  \/ h \notin groups \cup missed.topics /\ ~Mentions(pubs, Topic("group", h))
                 \/ h \notin groups \cup missed.topics /\ ~mqttConnected
                 \/ mqttConnected /\ Clears(pubs, Topic("group", h))
        <3>1. CASE h = g
            BY <2>3, <2>4, <2>7, <3>1
        <3>2. CASE h # g
            BY <2>3, <2>4, <2>6, <3>2, TopicsApart DEF Mentions
        <3> QED
            BY <3>1, <3>2
    <2> QED
        BY <2>1, <2>2, <2>3, <2>5, <2>8, <2>9, ClearedHandler, SMTT(60)
<1> QED
    BY <1>2, <1>3, <1>4

\* MQTT: connections, failures, deliveries.
LEMMA ClearedMqtt ==
    ASSUME Typed, ClearedInv,
           \/ MqttConnects \/ MqttUnreadable \/ \E kept \in BOOLEAN : MqttFails(kept)
           \/ Flush \/ \E count \in 0..Len(Waiting) : LinkLost(count)
    PROVE  ClearedInv'
<1>0. \A t, v : Publication(t, v).topic = t
    BY DEF Publication, Message
<1>1. ASSUME UNCHANGED <<phase, stuck, cache, groups, missed>>,
             \A n \in Nodes : Promised(Topic("info", n))' = Promised(Topic("info", n)),
             \A g \in Groups : Promised(Topic("group", g))' = Promised(Topic("group", g))
      PROVE  ClearedInv'
    BY <1>1 DEF ClearedInv, MissedRecord, Polling, Cleared, Present
<1>2. CASE MqttConnects
    <2>1. /\ Polling /\ UNCHANGED <<phase, cache, groups, backlog, broker, missed>>
        BY <1>2 DEF MqttConnects
    <2>2. MissedRecord'
        BY <2>1 DEF ClearedInv, MissedRecord
    <2> SUFFICES ASSUME ~stuck'
                 PROVE  Cleared(cache, groups, missed.topics)'
        BY <2>2 DEF ClearedInv, Polling
    <2>3. PICK pubs \in Seq(Messages) :
              /\ Queue(pubs)
              /\ \A m \in Range(pubs) :
                     \/ m.topic \in {StateTopic, NodesTopic, GroupsTopic, HassTopic, SubscribeTopic}
                     \/ \E n \in Present(cache) : m.topic \in {Topic("info", n), Topic("status", n)}
                     \/ \E g \in groups : m.topic = Topic("group", g)
        <3>1. CASE gateway = "some"
            BY <1>0, <1>2, <3>1, ConnectPublishes, SnapshotTopics DEF Typed
        <3>2. CASE gateway # "some"
            BY <1>0, <1>2, <3>2, ConnectPublishes DEF Typed
        <3> QED
            BY <3>1, <3>2
    <2>4. queue' = queue \o pubs
        BY <2>3, QueueType DEF Typed
    <2>5. \A t : ~Mentions(pubs, t) => Promised(t)' = Promised(t)
        BY <2>1, <2>4, PromisedAfter
    <2>6. /\ \A n \in Nodes \ Present(cache) : ~Mentions(pubs, Topic("info", n))
          /\ \A g \in Groups \ groups : ~Mentions(pubs, Topic("group", g))
        BY <2>3, TopicsApart DEF Mentions
    <2>7. Cleared(cache, groups, missed.topics)
        BY <2>1 DEF ClearedInv
    <2>8. Present(cache)' = Present(cache)
        BY <2>1 DEF Present
    <2> QED
        BY <2>1, <2>5, <2>6, <2>7, <2>8 DEF Cleared
<1>3. CASE MqttUnreadable
    BY <1>1, <1>3 DEF MqttUnreadable, cacheVars, mqttVars, Promised, Waiting
<1>4. ASSUME NEW kept \in BOOLEAN, MqttFails(kept)
      PROVE  ClearedInv'
    <2>1. /\ Polling /\ UNCHANGED <<phase, stuck, cache, groups, broker>> /\ queue' = <<>>
          /\ backlog' = IF kept THEN Waiting ELSE <<>>
          /\ missed' = IF kept THEN missed
                 ELSE [topics |-> missed.topics \cup {p.topic[2] : p \in
                                     {q \in Range(Waiting) : q.value = {}}},
                       entities |-> missed.entities \cup UNION {p.gone : p \in Range(Waiting)}]
        BY <1>4 DEF MqttFails, cacheVars, Waiting
    <2>2. Waiting \in Seq(Messages)
        BY DEF Typed, TypeOK, Waiting
    <2>3. CASE kept
        <3>1. Waiting \o <<>> = Waiting
            BY <2>2
        <3>2. Waiting' = Waiting
            <4>1. Waiting' = Waiting \o <<>>
                BY <2>1, <2>3 DEF Waiting
            <4> QED
                BY <3>1, <4>1
        <3> QED
            BY <1>1, <2>1, <2>3, <3>2 DEF Promised
    <2>4. CASE ~kept
        <3>1. /\ Waiting' = <<>>
              /\ missed'.topics = missed.topics \cup {p.topic[2] : p \in {q \in Range(Waiting) : q.value = {}}}
              /\ MissedRecord'
            BY <2>1, <2>4 DEF Waiting, MissedRecord
        <3>2. \A t : Promised(t)' = broker.retained[t]
            BY <2>1, <3>1, LastOfNone DEF Promised
        <3>3. Cleared(cache, groups, missed.topics)
            BY <2>1 DEF ClearedInv
        <3>4. ASSUME NEW kind, NEW id, Promised(Topic(kind, id)) = {}, id \notin missed'.topics
              PROVE  Promised(Topic(kind, id))' = {}
            <4>1. Topic(kind, id)[2] = id
                BY DEF Topic
            <4>2. ~ \E m \in Range(Waiting) : m.topic = Topic(kind, id) /\ m.value = {}
                BY <3>1, <3>4, <4>1
            <4>3. LastValue(broker.retained[Topic(kind, id)], Waiting, Topic(kind, id))
                      = broker.retained[Topic(kind, id)]
                BY <2>2, <3>4, <4>2, LastSource DEF Promised
            <4> QED
                BY <3>2, <3>4, <4>3 DEF Promised
        <3>5. missed.topics \subseteq missed'.topics /\ Present(cache)' = Present(cache)
            BY <2>1, <3>1 DEF Present
        <3>6. Cleared(cache, groups, missed.topics)'
            BY <2>1, <3>3, <3>4, <3>5 DEF Cleared
        <3> QED
            BY <3>1, <3>6 DEF ClearedInv
    <2> QED
        BY <2>3, <2>4
<1>5. CASE Flush
    <2>1. UNCHANGED <<phase, stuck, cache, groups, missed>>
        BY <1>5 DEF Flush, cacheVars
    <2>2. \A t \in Topics : Promised(t)' = Promised(t)
        BY <1>5, PromisedDelivered
    <2> QED
        BY <1>1, <2>1, <2>2, TopicsDiffer
<1>6. ASSUME NEW count \in 0..Len(Waiting), LinkLost(count)
      PROVE  ClearedInv'
    <2>1. UNCHANGED <<phase, stuck, cache, groups, missed>>
        BY <1>6 DEF LinkLost, cacheVars
    <2>2. \A t \in Topics \ {StateTopic, SubscribeTopic} : Promised(t)' = Promised(t)
        BY <1>6, PromisedDelivered
    <2> QED
        BY <1>1, <2>1, <2>2, TopicsDiffer, TopicsApart
<1> QED
    BY <1>2, <1>3, <1>4, <1>5, <1>6

\* The entities of Home Assistant after messages have been delivered.
After(old, messages) ==
    {e \in Nodes \cup Groups :
        LET at == {i \in DOMAIN messages : About(messages[i], e)}
        IN  IF at = {} THEN e \in old ELSE e \in messages[Max(at)].value}

Abouts(e) == {m \in Messages : About(m, e)}
Gone(messages) == UNION {m.gone : m \in Range(messages)}

\* The last message that is about an entity decides.
LEMMA AfterIn ==
    ASSUME NEW messages \in Seq(Messages), NEW old, NEW e \in Nodes \cup Groups
    PROVE  /\ Range(messages) \cap Abouts(e) # {} =>
                  (e \in After(old, messages) <=> e \in LastIn(messages, Abouts(e)).value)
           /\ Range(messages) \cap Abouts(e) = {} => (e \in After(old, messages) <=> e \in old)
<1> DEFINE at == {i \in DOMAIN messages : About(messages[i], e)}
<1>1. at = {i \in DOMAIN messages : messages[i] \in Abouts(e)}
    BY DEF Abouts
<1>2. Range(messages) \cap Abouts(e) # {} <=> at # {}
    BY <1>1 DEF Range
<1>3. LastIn(messages, Abouts(e)) = messages[Max(at)]
    BY <1>1 DEF LastIn
<1>4. e \in After(old, messages) <=> (IF at = {} THEN e \in old ELSE e \in messages[Max(at)].value)
    BY DEF After
<1> HIDE DEF at
<1> QED
    BY <1>2, <1>3, <1>4

\* An entity is there because of a message, or was there and no message is about it.
LEMMA AfterSource ==
    ASSUME NEW messages \in Seq(Messages), NEW old, NEW e \in After(old, messages)
    PROVE  \/ e \in old /\ \A m \in Range(messages) : ~About(m, e)
           \/ \E m \in Range(messages) : m.topic = HassTopic /\ e \in m.value
<1>1. e \in Nodes \cup Groups
    BY DEF After
<1>2. Range(messages) \subseteq Messages
    BY DEF Range
<1>3. CASE Range(messages) \cap Abouts(e) = {}
    BY <1>1, <1>2, <1>3, AfterIn DEF Abouts
<1>4. CASE Range(messages) \cap Abouts(e) # {}
    <2>1. e \in LastIn(messages, Abouts(e)).value
        BY <1>1, <1>4, AfterIn
    <2>2. LastIn(messages, Abouts(e)) \in Range(messages) \cap Abouts(e)
        BY <1>4, LastInElement
    <2> QED
        BY <2>1, <2>2 DEF Abouts, About
<1> QED
    BY <1>3, <1>4

\* Messages delivered in two parts.
LEMMA AfterInParts ==
    ASSUME NEW p \in Seq(Messages), NEW q \in Seq(Messages), NEW old
    PROVE  After(After(old, p), q) = After(old, p \o q)
<1>1. p \o q \in Seq(Messages) /\ Range(p \o q) = Range(p) \cup Range(q)
    BY ConcatRange
<1>2. ASSUME NEW e \in Nodes \cup Groups
      PROVE  e \in After(After(old, p), q) <=> e \in After(old, p \o q)
    <2>1. CASE Range(q) \cap Abouts(e) # {}
        <3>1. LastIn(p \o q, Abouts(e)) = LastIn(q, Abouts(e)) /\ Range(p \o q) \cap Abouts(e) # {}
            BY <1>1, <2>1, LastInConcat
        <3>2. e \in After(After(old, p), q) <=> e \in LastIn(q, Abouts(e)).value
            BY <2>1, AfterIn
        <3>3. e \in After(old, p \o q) <=> e \in LastIn(p \o q, Abouts(e)).value
            BY <1>1, <3>1, AfterIn
        <3> QED
            BY <3>1, <3>2, <3>3
    <2>2. CASE Range(q) \cap Abouts(e) = {} /\ Range(p) \cap Abouts(e) # {}
        <3>1. LastIn(p \o q, Abouts(e)) = LastIn(p, Abouts(e)) /\ Range(p \o q) \cap Abouts(e) # {}
            BY <1>1, <2>2, LastInConcat
        <3>2. e \in After(After(old, p), q) <=> e \in After(old, p)
            BY <2>2, AfterIn
        <3>3. e \in After(old, p) <=> e \in LastIn(p, Abouts(e)).value
            BY <2>2, AfterIn
        <3>4. e \in After(old, p \o q) <=> e \in LastIn(p \o q, Abouts(e)).value
            BY <1>1, <3>1, AfterIn
        <3> QED
            BY <3>1, <3>2, <3>3, <3>4
    <2>3. CASE Range(q) \cap Abouts(e) = {} /\ Range(p) \cap Abouts(e) = {}
        <3>1. Range(p \o q) \cap Abouts(e) = {}
            BY <1>1, <2>3
        <3>2. e \in After(After(old, p), q) <=> e \in After(old, p)
            BY <2>3, AfterIn
        <3>3. e \in After(old, p) <=> e \in old
            BY <2>3, AfterIn
        <3>4. e \in After(old, p \o q) <=> e \in old
            BY <1>1, <3>1, AfterIn
        <3> QED
            BY <3>2, <3>3, <3>4
    <2> QED
        BY <2>1, <2>2, <2>3
<1>3. After(After(old, p), q) \subseteq Nodes \cup Groups /\ After(old, p \o q) \subseteq Nodes \cup Groups
    BY DEF After
<1> QED
    BY <1>2, <1>3

\* At every point of what waits, an entity that is there is known, or excused, or
\* removed by what waits behind.
EntitiesInv ==
    Polling => \A p, q \in Seq(Messages) :
                   Waiting = p \o q =>
                       After(broker.entities, p) \subseteq known \cup missed.entities \cup Gone(q)

KnownInv == (Polling /\ mqttConnected /\ gateway = "some") => known = Present(cache) \cup groups

\* What the discovery of a handler adds is among the components, and what is known and
\* not among them is removed by one of its messages.
Announces(pubs, components) ==
    /\ \A m \in Range(pubs) : m.topic = HassTopic => m.value \subseteq components
    /\ \A e \in known \ components : \E m \in Range(pubs) : m.topic = HassTopic /\ e \in m.gone

\* Everything that waits has been delivered, or nothing.
LEMMA EntitiesEnds ==
    ASSUME Typed, EntitiesInv, Polling
    PROVE  /\ After(broker.entities, Waiting) \subseteq known \cup missed.entities
           /\ After(broker.entities, <<>>) \subseteq known \cup missed.entities \cup Gone(Waiting)
<1>1. \A a, b \in Seq(Messages) :
          Waiting = a \o b =>
              After(broker.entities, a) \subseteq known \cup missed.entities \cup Gone(b)
    BY DEF EntitiesInv
<1>2. Waiting \in Seq(Messages)
    BY DEF Typed, TypeOK, Waiting
<1>3. PICK none \in Seq(Messages) : none = <<>>
    <2>1. <<>> \in Seq(Messages)
        OBVIOUS
    <2> QED
        BY <2>1
<1>4. Waiting = Waiting \o none /\ Waiting = none \o Waiting
    BY <1>2, <1>3
<1>5. After(broker.entities, Waiting) \subseteq known \cup missed.entities \cup Gone(none)
    BY <1>1, <1>2, <1>4, Zenon
<1>6. After(broker.entities, none) \subseteq known \cup missed.entities \cup Gone(Waiting)
    BY <1>1, <1>2, <1>4, Zenon
<1>7. Gone(none) = {}
    BY <1>3, ShortRange DEF Gone
<1> QED
    BY <1>3, <1>5, <1>6, <1>7

\* A handler that has published.
LEMMA EntitiesPublished ==
    ASSUME Typed, EntitiesInv, Polling, NEW pubs \in Seq(Messages), queue' = queue \o pubs,
           UNCHANGED <<backlog, broker>>, missed'.entities = missed.entities,
           NEW components, known' = components, Announces(pubs, components)
    PROVE  EntitiesInv'
<1>0. /\ \A m \in Range(pubs) : m.topic = HassTopic => m.value \subseteq components
      /\ \A e \in known \ components : \E m \in Range(pubs) : m.topic = HassTopic /\ e \in m.gone
    BY DEF Announces
<1>1. Waiting \in Seq(Messages) /\ Waiting' = Waiting \o pubs
    BY WaitsLonger
<1> SUFFICES ASSUME NEW p \in Seq(Messages), NEW q \in Seq(Messages), Waiting' = p \o q,
                    NEW e \in After(broker.entities, p)
             PROVE  e \in components \cup missed.entities \cup Gone(q)
    BY DEF EntitiesInv
<1>2. CutsEarlier(Messages, Waiting, pubs, p, q) \/ CutsEarlier(Messages, p, q, Waiting, pubs)
    BY <1>1, TwoCuts
<1>3. CASE CutsEarlier(Messages, Waiting, pubs, p, q)
    <2>1. PICK r \in Seq(Messages) : Waiting = p \o r /\ q = r \o pubs
        BY <1>3 DEF CutsEarlier
    <2>2. e \in known \cup missed.entities \cup Gone(r)
        BY <2>1 DEF EntitiesInv
    <2>3. Range(q) = Range(r) \cup Range(pubs)
        BY <2>1, ConcatRange
    <2>4. Gone(r) \subseteq Gone(q) /\ Gone(pubs) \subseteq Gone(q)
        BY <2>3 DEF Gone
    <2>5. e \in known \ components => e \in Gone(pubs)
        BY <1>0 DEF Gone
    <2> QED
        BY <2>2, <2>4, <2>5
<1>4. CASE CutsEarlier(Messages, p, q, Waiting, pubs)
    <2>1. PICK r \in Seq(Messages) : p = Waiting \o r /\ pubs = r \o q
        BY <1>4 DEF CutsEarlier
    <2>2. Range(pubs) = Range(r) \cup Range(q)
        BY <2>1, ConcatRange
    <2>3. e \in After(After(broker.entities, Waiting), r)
        BY <1>1, <2>1, AfterInParts
    <2>4. CASE \E m \in Range(r) : m.topic = HassTopic /\ e \in m.value
        BY <1>0, <2>2, <2>4
    <2>5. CASE e \in After(broker.entities, Waiting) /\ \A m \in Range(r) : ~About(m, e)
        <3>1. e \in known \cup missed.entities
            BY <2>5, EntitiesEnds
        <3>2. ASSUME e \in known \ components
              PROVE  e \in Gone(q)
            <4>1. PICK m \in Range(pubs) : m.topic = HassTopic /\ e \in m.gone
                BY <1>0, <3>2
            <4>2. About(m, e)
                BY <4>1 DEF About
            <4>3. m \in Range(q)
                BY <2>2, <2>5, <4>2
            <4> QED
                BY <4>1, <4>3 DEF Gone
        <3> QED
            BY <3>1, <3>2
    <2> QED
        BY <2>3, <2>4, <2>5, AfterSource
<1> QED
    BY <1>2, <1>3, <1>4

\* A handler that publishes one discovery, or none.
LEMMA Announcements ==
    ASSUME NEW pubs \in Seq(Messages)
    PROVE  /\ \A nodes, present :
                  /\ HassMessage(nodes, present) \in Range(pubs)
                  /\ \A m \in Range(pubs) : m.topic = HassTopic => m = HassMessage(nodes, present)
                  => Announces(pubs, Present(nodes) \cup present)
           /\ (\A m \in Range(pubs) : m.topic # HassTopic) => Announces(pubs, known)
<1>1. \A nodes, present : /\ HassMessage(nodes, present).topic = HassTopic
                          /\ HassMessage(nodes, present).value = Present(nodes) \cup present
                          /\ HassMessage(nodes, present).gone = known \ (Present(nodes) \cup present)
    BY DEF HassMessage, Message
<1>2. ASSUME NEW nodes, NEW present, HassMessage(nodes, present) \in Range(pubs),
             \A m \in Range(pubs) : m.topic = HassTopic => m = HassMessage(nodes, present)
      PROVE  Announces(pubs, Present(nodes) \cup present)
    BY <1>1, <1>2 DEF Announces
<1>3. ASSUME \A m \in Range(pubs) : m.topic # HassTopic
      PROVE  Announces(pubs, known)
    BY <1>3 DEF Announces
<1> QED
    BY <1>2, <1>3

\* A snapshot holds one discovery.
LEMMA SnapshotDiscovery ==
    ASSUME NEW nodes, NEW present
    PROVE  /\ HassMessage(nodes, present) \in SnapshotMessages(nodes, present)
           /\ \A m \in SnapshotMessages(nodes, present) :
                  m.topic = HassTopic => m = HassMessage(nodes, present)
<1>0. \A t, v : Publication(t, v).topic = t
    BY DEF Publication, Message
<1>1. HassMessage(nodes, present) \in SnapshotMessages(nodes, present)
    BY DEF HassMessage, SnapshotMessages
<1>2. ASSUME NEW m \in SnapshotMessages(nodes, present), m.topic = HassTopic
      PROVE  m = HassMessage(nodes, present)
    <2>1. CASE m \in {Publication(StateTopic, {"offline"}), Publication(StateTopic, {"online"}),
                      Publication(NodesTopic, Present(nodes)), Publication(GroupsTopic, present),
                      HassMessage(nodes, present)}
        BY <1>0, <1>2, <2>1, TopicsApart
    <2>2. ~ \E n \in Present(nodes) : m = Publication(Topic("info", n), {"info"})
        BY <1>0, <1>2, TopicsApart
    <2>3. ~ \E n \in Present(nodes) : m = Publication(Topic("status", n), {nodes[n]})
        <3>1. \A n, v : Publication(Topic("status", n), v).topic # HassTopic
            BY <1>0, TopicsApart
        <3> QED
            BY <1>2, <3>1
    <2>4. ~ \E g \in present : m = Publication(Topic("group", g), {"info"})
        BY <1>0, <1>2, TopicsApart
    <2> QED
        BY <1>2, <2>1, <2>2, <2>3, <2>4 DEF SnapshotMessages, HassMessage
<1> QED
    BY <1>1, <1>2

\* A handler of the loop.
LEMMA EntitiesHandler ==
    ASSUME Typed, EntitiesInv, NEW pubs \in Seq(Messages), QueueIfConnected(pubs), Polling,
           UNCHANGED <<phase, brokerVars>>, missed'.entities = missed.entities,
           NEW components, Announces(pubs, components),
           known' = IF mqttConnected THEN components ELSE known
    PROVE  EntitiesInv'
<1> SUFFICES ASSUME ~stuck'
             PROVE  EntitiesInv'
    BY DEF EntitiesInv, Polling
<1>1. UNCHANGED <<backlog, broker>>
    BY DEF brokerVars
<1>2. CASE mqttConnected
    <2>1. queue' = queue \o pubs /\ known' = components
        BY <1>2, QueueIfConnectedType DEF Typed
    <2> QED
        BY <1>1, <2>1, EntitiesPublished
<1>3. CASE ~mqttConnected
    <2>1. queue' = queue \o <<>> /\ <<>> \in Seq(Messages)
        <3>1. queue' = queue \o (IF mqttConnected THEN pubs ELSE <<>>)
            BY QueueIfConnectedType DEF Typed
        <3> QED
            BY <1>3, <3>1
    <2>2. Announces(<<>>, known)
        BY ShortRange DEF Announces
    <2>3. PICK none \in Seq(Messages), same \in {known} : none = <<>>
        BY <2>1
    <2>4. queue' = queue \o none /\ known' = same /\ Announces(none, same)
        <3>1. same = known
            OBVIOUS
        <3> QED
            BY <1>3, <2>1, <2>2, <2>3, <3>1
    <2> QED
        BY <1>1, <2>4, EntitiesPublished
<1> QED
    BY <1>2, <1>3

\* The handlers of the gateway: setup results, failures and reboots.
LEMMA EntitiesGateway ==
    ASSUME Typed, MissedRecord, EntitiesInv,
           \/ HandleSetupReady \/ HandleSetupFailed
           \/ \E how \in {"lost", "dropped"} : GatewayFailed(how)
           \/ \E confirmed \in BOOLEAN : RebootCommand(confirmed)
    PROVE  EntitiesInv'
<1>0. \A t, v : Publication(t, v).topic = t
    BY DEF Publication, Message
<1>1. CASE HandleSetupReady
    <2> DEFINE removed == Present(cache) \ Present(prepared.cache)
               removedGroups == groups \ prepared.groups
    <2>1. PICK pubs \in Seq(Messages) :
              /\ QueueIfConnected(pubs)
              /\ Range(pubs) = (UNION {Range(ClearNode(n)) : n \in removed})
                               \cup (UNION {Range(ClearGroup(g)) : g \in removedGroups})
                               \cup SnapshotMessages(prepared.cache, prepared.groups)
        BY <1>1, ReadyPublishes DEF Typed
    <2>2. PICK nodes, present : nodes = prepared.cache /\ present = prepared.groups
        OBVIOUS
    <2>3. /\ Polling /\ UNCHANGED <<phase, brokerVars>>
          /\ known' = IF mqttConnected THEN Present(nodes) \cup present ELSE known
          /\ missed' = IF mqttConnected THEN missed
                       ELSE [missed EXCEPT !.topics = @ \cup removed \cup removedGroups]
        BY <1>1, <2>2 DEF HandleSetupReady, Present
    <2>4. missed'.entities = missed.entities
        BY <2>3 DEF MissedRecord
    <2>5. ASSUME NEW m \in Range(pubs), m.topic = HassTopic
          PROVE  m = HassMessage(nodes, present)
        <3>1. ~ \E n \in removed : m \in Range(ClearNode(n))
            <4>1. \A n : Range(ClearNode(n)) = {Publication(Topic("info", n), {}), Publication(Topic("status", n), {})}
                BY ShortRange DEF ClearNode
            <4>2. \A n, v : /\ Publication(Topic("info", n), v).topic # HassTopic
                            /\ Publication(Topic("status", n), v).topic # HassTopic
                BY <1>0, TopicsApart
            <4> QED
                BY <2>5, <4>1, <4>2
        <3>2. ~ \E g \in removedGroups : m \in Range(ClearGroup(g))
            <4>1. \A g : Range(ClearGroup(g)) = {Publication(Topic("group", g), {})}
                BY ShortRange DEF ClearGroup
            <4>2. \A g, v : Publication(Topic("group", g), v).topic # HassTopic
                BY <1>0, TopicsApart
            <4> QED
                BY <2>5, <4>1, <4>2
        <3> QED
            BY <2>1, <2>2, <2>5, <3>1, <3>2, SnapshotDiscovery
    <2>6. HassMessage(nodes, present) \in Range(pubs)
        BY <2>1, <2>2, SnapshotDiscovery
    <2>7. Announces(pubs, Present(nodes) \cup present)
        BY <2>5, <2>6, Announcements
    <2> HIDE DEF removed, removedGroups
    <2> QED
        BY <2>1, <2>3, <2>4, <2>7, EntitiesHandler
<1>2. CASE \/ HandleSetupFailed
           \/ \E how \in {"lost", "dropped"} : GatewayFailed(how)
           \/ \E confirmed \in BOOLEAN : RebootCommand(confirmed)
    <2>1. /\ Polling /\ UNCHANGED <<phase, brokerVars, known, missed>>
          /\ QueueIfConnected(Availability("offline"))
        BY <1>2 DEF HandleSetupFailed, GatewayFailed, RebootCommand, cacheVars
    <2>2. PICK pubs \in Seq(Messages) : pubs = Availability("offline")
        BY OfflinePublishes
    <2>3. \A m \in Range(pubs) : m.topic # HassTopic
        BY <1>0, <2>2, ShortRange, TopicsApart DEF Availability
    <2>4. Announces(pubs, known)
        BY <2>3, Announcements
    <2>5. PICK same : same = known
        OBVIOUS
    <2> QED
        BY <2>1, <2>2, <2>4, <2>5, EntitiesHandler
<1> QED
    BY <1>1, <1>2

\* The handlers of what the gateway reports.
LEMMA EntitiesReport ==
    ASSUME Typed, MissedRecord, EntitiesInv,
           \/ \E n \in Nodes, status \in Status : StatusChanged(n, status) \/ NodeReported(n, status)
           \/ \E g \in Groups : GroupReported(g) \/ GroupDeleted(g)
    PROVE  EntitiesInv'
<1>0. \A t, v : Publication(t, v).topic = t
    BY DEF Publication, Message
<1>1. ASSUME NEW n \in Nodes, NEW status \in Status, StatusChanged(n, status)
      PROVE  EntitiesInv'
    <2>1. PICK pubs \in Seq(Messages) :
              QueueIfConnected(pubs) /\ Range(pubs) = {Publication(Topic("status", n), {status})}
        BY <1>1, StatusPublishes DEF Typed
    <2>2. Polling /\ UNCHANGED <<phase, brokerVars, known, missed>>
        BY <1>1 DEF StatusChanged, Apply
    <2>3. \A m \in Range(pubs) : m.topic # HassTopic
        BY <1>0, <2>1, TopicsApart
    <2>4. Announces(pubs, known)
        BY <2>3, Announcements
    <2>5. PICK same : same = known
        OBVIOUS
    <2> QED
        BY <2>1, <2>2, <2>4, <2>5, EntitiesHandler
<1>2. ASSUME NEW n \in Nodes, NEW status \in Status, NodeReported(n, status)
      PROVE  EntitiesInv'
    <2>1. PICK nodes : nodes = [cache EXCEPT ![n] = status]
        OBVIOUS
    <2>2. PICK pubs \in Seq(Messages) :
              /\ QueueIfConnected(pubs)
              /\ Range(pubs) = (IF cache[n] = Absent THEN {Publication(NodesTopic, Present(nodes))} ELSE {})
                                   \cup {Publication(Topic("info", n), {"info"}), HassMessage(nodes, groups),
                                         Publication(Topic("status", n), {status})}
        BY <1>2, <2>1, NodePublishes DEF Typed
    <2>3. /\ Polling /\ UNCHANGED <<phase, brokerVars, missed>>
          /\ known' = IF mqttConnected THEN Present(nodes) \cup groups ELSE known
        BY <1>2, <2>1 DEF NodeReported, Apply
    <2>4. \A m \in Range(pubs) : m.topic = HassTopic => m = HassMessage(nodes, groups)
        BY <1>0, <2>2, TopicsApart
    <2>5. HassMessage(nodes, groups) \in Range(pubs)
        BY <2>2
    <2>6. Announces(pubs, Present(nodes) \cup groups)
        BY <2>4, <2>5, Announcements
    <2>7. PICK components : components = Present(nodes) \cup groups
        OBVIOUS
    <2> QED
        BY <2>2, <2>3, <2>6, <2>7, EntitiesHandler
<1>3. ASSUME NEW g \in Groups, NEW present, NEW value,
             \/ GroupReported(g) /\ present = groups \cup {g} /\ value = {"info"}
             \/ GroupDeleted(g) /\ present = groups \ {g} /\ value = {}
      PROVE  EntitiesInv'
    <2>1. PICK pubs \in Seq(Messages) :
              /\ QueueIfConnected(pubs)
              /\ Range(pubs) = {Publication(GroupsTopic, present),
                                Publication(Topic("group", g), value), HassMessage(cache, present)}
        BY <1>3, GroupPublishes, GroupGonePublishes DEF Typed
    <2>2. /\ Polling /\ UNCHANGED <<phase, brokerVars>>
          /\ known' = IF mqttConnected THEN Present(cache) \cup present ELSE known
        BY <1>3 DEF GroupReported, GroupDeleted, Apply
    <2>3. missed'.entities = missed.entities
        BY <1>3 DEF GroupReported, GroupDeleted, MissedRecord
    <2>4. \A m \in Range(pubs) : m.topic = HassTopic => m = HassMessage(cache, present)
        BY <1>0, <2>1, TopicsApart
    <2>5. HassMessage(cache, present) \in Range(pubs)
        BY <2>1
    <2>6. Announces(pubs, Present(cache) \cup present)
        BY <2>4, <2>5, Announcements
    <2>7. PICK components : components = Present(cache) \cup present
        OBVIOUS
    <2> QED
        BY <2>1, <2>2, <2>3, <2>6, <2>7, EntitiesHandler
<1>4. ASSUME NEW g \in Groups, GroupReported(g) \/ GroupDeleted(g)
      PROVE  EntitiesInv'
    <2>1. CASE GroupReported(g)
        BY <1>3, <2>1
    <2>2. CASE GroupDeleted(g)
        BY <1>3, <2>2
    <2> QED
        BY <1>4, <2>1, <2>2
<1> QED
    BY <1>1, <1>2, <1>4

\* MQTT: connections, failures, deliveries.
LEMMA EntitiesMqtt ==
    ASSUME Typed, MissedRecord, EntitiesInv,
           \/ MqttConnects \/ MqttUnreadable \/ \E kept \in BOOLEAN : MqttFails(kept)
           \/ Flush \/ \E count \in 0..Len(Waiting) : LinkLost(count)
    PROVE  EntitiesInv'
<1>0. \A t, v : Publication(t, v).topic = t
    BY DEF Publication, Message
<1>1. Waiting \in Seq(Messages)
    BY DEF Typed, TypeOK, Waiting
<1>2. ASSUME Waiting' = <<>>, After(broker'.entities, <<>>) \subseteq known' \cup missed'.entities
      PROVE  EntitiesInv'
    <2> SUFFICES ASSUME NEW p \in Seq(Messages), NEW q \in Seq(Messages), <<>> = p \o q
                 PROVE  After(broker'.entities, p) \subseteq known' \cup missed'.entities
        BY <1>2 DEF EntitiesInv
    <2>1. p = <<>>
        BY NothingInNothing
    <2> QED
        BY <1>2, <2>1
<1>3. CASE MqttConnects
    <2>1. Polling /\ UNCHANGED <<phase, backlog, broker, missed>>
        BY <1>3 DEF MqttConnects
    <2> SUFFICES ASSUME ~stuck'
                 PROVE  EntitiesInv'
        BY DEF EntitiesInv, Polling
    <2>2. CASE gateway = "some"
        <3>1. PICK pubs \in Seq(Messages) :
                  /\ Queue(pubs)
                  /\ Range(pubs) = {Publication(SubscribeTopic, {"on"})} \cup SnapshotMessages(cache, groups)
            BY <1>3, <2>2, ConnectPublishes DEF Typed
        <3>2. queue' = queue \o pubs
            BY <3>1, QueueType DEF Typed
        <3>3. \A m \in Range(pubs) : m.topic = HassTopic => m = HassMessage(cache, groups)
            BY <1>0, <3>1, SnapshotDiscovery, TopicsApart
        <3>4. HassMessage(cache, groups) \in Range(pubs)
            BY <3>1, SnapshotDiscovery
        <3>5. Announces(pubs, Present(cache) \cup groups)
            BY <3>3, <3>4, Announcements
        <3>6. PICK components : components = Present(cache) \cup groups
            OBVIOUS
        <3>7. known' = components
            BY <1>3, <2>2, <3>6 DEF MqttConnects
        <3> QED
            BY <2>1, <3>2, <3>5, <3>6, <3>7, EntitiesPublished
    <2>3. CASE gateway # "some"
        <3>1. PICK pubs \in Seq(Messages) :
                  /\ Queue(pubs)
                  /\ Range(pubs) = {Publication(SubscribeTopic, {"on"}), Publication(StateTopic, {"offline"})}
            BY <1>3, <2>3, ConnectPublishes DEF Typed
        <3>2. queue' = queue \o pubs
            BY <3>1, QueueType DEF Typed
        <3>3. \A m \in Range(pubs) : m.topic # HassTopic
            BY <1>0, <3>1, TopicsApart
        <3>4. Announces(pubs, known)
            BY <3>3, Announcements
        <3>5. PICK same : same = known
            OBVIOUS
        <3>6. known' = same
            BY <1>3, <2>3, <3>5 DEF MqttConnects
        <3> QED
            BY <2>1, <3>2, <3>4, <3>5, <3>6, EntitiesPublished
    <2> QED
        BY <2>2, <2>3
<1>4. CASE MqttUnreadable
    BY <1>4 DEF MqttUnreadable, cacheVars, mqttVars, EntitiesInv, Polling, Waiting
<1>5. ASSUME NEW kept \in BOOLEAN, MqttFails(kept)
      PROVE  EntitiesInv'
    <2>1. /\ Polling /\ UNCHANGED <<phase, stuck, known, broker>> /\ queue' = <<>>
          /\ backlog' = IF kept THEN Waiting ELSE <<>>
          /\ kept => missed' = missed
          /\ ~kept => missed'.entities = missed.entities \cup Gone(Waiting)
        BY <1>5 DEF MqttFails, cacheVars, Waiting, Gone
    <2>2. CASE kept
        <3>1. Waiting' = Waiting \o <<>>
            BY <2>1, <2>2 DEF Waiting
        <3>2. Waiting' = Waiting
            BY <1>1, <3>1
        <3> QED
            BY <2>1, <2>2, <3>2 DEF EntitiesInv, Polling
    <2>3. CASE ~kept
        <3>1. Waiting' = <<>>
            BY <2>1, <2>3 DEF Waiting
        <3>2. After(broker.entities, <<>>) \subseteq known \cup missed.entities \cup Gone(Waiting)
            BY <2>1, EntitiesEnds
        <3> QED
            BY <1>2, <2>1, <2>3, <3>1, <3>2
    <2> QED
        BY <2>2, <2>3
<1>6. CASE Flush
    <2>1. /\ Polling /\ UNCHANGED <<known, missed>> /\ broker' = Delivered(Len(Waiting)) /\ Waiting' = <<>>
        BY <1>6 DEF Flush, cacheVars, Waiting
    <2>2. SubSeq(Waiting, 1, Len(Waiting)) = Waiting
        BY <1>1
    <2>3. broker'.entities = After(broker.entities, Waiting)
        BY <2>1, <2>2 DEF Delivered, Entities, After
    <2>4. After(After(broker.entities, Waiting), <<>>) = After(broker.entities, Waiting)
        BY DEF After
    <2>5. After(broker.entities, Waiting) \subseteq known \cup missed.entities
        BY <2>1, EntitiesEnds
    <2> QED
        BY <1>2, <2>1, <2>3, <2>4, <2>5
<1>7. ASSUME NEW count \in 0..Len(Waiting), LinkLost(count)
      PROVE  EntitiesInv'
    <2> DEFINE front == SubSeq(Waiting, 1, count)
    <2>1. UNCHANGED <<phase, stuck, known, missed>> /\ broker' = Deserted(Delivered(count))
        BY <1>7 DEF LinkLost, cacheVars
    <2>2. front \in Seq(Messages) /\ Waiting' \in Seq(Messages) /\ Waiting = front \o Waiting'
        BY <1>7, DeliveredParts DEF LinkLost
    <2>3. broker'.entities = After(broker.entities, front)
        <3>1. Delivered(count).entities = After(broker.entities, front)
            BY DEF Delivered, Entities, After
        <3>2. Deserted(Delivered(count)).entities = Delivered(count).entities
            BY DeliveredType, DesertedType
        <3> QED
            BY <2>1, <3>1, <3>2
    <2> HIDE DEF front
    <2>4. ASSUME Polling, NEW p \in Seq(Messages), NEW q \in Seq(Messages), Waiting' = p \o q
          PROVE  After(broker'.entities, p) \subseteq known \cup missed.entities \cup Gone(q)
        <3>1. front \o (p \o q) = (front \o p) \o q
            <4>1. \A a, b, c \in Seq(Messages) : a \o (b \o c) = (a \o b) \o c
                BY ConcatAssociative, SMTT(60)
            <4> QED
                BY <2>2, <4>1, SMTT(40)
        <3>2. PICK w \in Seq(Messages) : w = front \o p
            <4>1. front \o p \in Seq(Messages)
                BY <2>2
            <4> QED
                BY <4>1
        <3>3. Waiting = w \o q
            BY <2>2, <2>4, <3>1, <3>2
        <3>4. After(broker.entities, w) \subseteq known \cup missed.entities \cup Gone(q)
            BY <2>4, <3>3 DEF EntitiesInv
        <3>5. After(broker'.entities, p) = After(broker.entities, w)
            BY <2>2, <2>3, <3>2, AfterInParts
        <3> QED
            BY <3>4, <3>5
    <2> QED
        BY <2>1, <2>4 DEF EntitiesInv, Polling
<1> QED
    BY <1>3, <1>4, <1>5, <1>6, <1>7

\* What the discovery knows is what the cache holds, as long as MQTT and the gateway
\* are connected.
LEMMA KnownNext == Typed /\ KnownInv /\ [Next]_vars => KnownInv'
<1> SUFFICES ASSUME Typed, KnownInv, [Next]_vars, Polling', mqttConnected', gateway' = "some"
             PROVE  known' = Present(cache') \cup groups'
    BY DEF KnownInv, Present
<1>1. CASE HandleSetupReady
    BY <1>1 DEF HandleSetupReady, brokerVars
<1>2. ASSUME NEW n \in Nodes, NEW status \in Status, StatusChanged(n, status)
      PROVE  known' = Present(cache') \cup groups'
    <2>1. /\ Polling /\ mqttConnected /\ gateway = "some" /\ UNCHANGED <<known, groups>>
          /\ cache' = [cache EXCEPT ![n] = status] /\ cache[n] # Absent
        BY <1>2 DEF StatusChanged, Apply, brokerVars
    <2>2. Present(cache') = Present(cache)
        BY <2>1, StatusAssumption DEF Present, Typed, TypeOK
    <2> QED
        BY <2>1, <2>2 DEF KnownInv
<1>3. ASSUME NEW n \in Nodes, NEW status \in Status, NodeReported(n, status)
      PROVE  known' = Present(cache') \cup groups'
    BY <1>3 DEF NodeReported, Apply, brokerVars
<1>4. ASSUME NEW g \in Groups, GroupReported(g) \/ GroupDeleted(g)
      PROVE  known' = Present(cache') \cup groups'
    BY <1>4 DEF GroupReported, GroupDeleted, Apply, brokerVars
<1>5. CASE MqttConnects
    BY <1>5 DEF MqttConnects
<1>6. CASE SetupStep \/ StartSetup \/ Signal \/ Flush \/ UNCHANGED vars
    <2>1. UNCHANGED <<phase, stuck, mqttConnected, gateway, cache, groups, known>>
        BY <1>6 DEF SetupStep, SetupConnect, SetupDiscover, SetupEnable, SetupFail, SetupCancelled,
                    SetupClose, StartSetup, Signal, Flush, Keep, vars, mqttVars, brokerVars, cacheVars
    <2> QED
        BY <2>1 DEF KnownInv, Polling, Present
<1>7. ASSUME NEW count \in 0..Len(Waiting), LinkLost(count)
      PROVE  known' = Present(cache') \cup groups'
    <2>1. UNCHANGED <<phase, stuck, mqttConnected, gateway, cache, groups, known>>
        BY <1>7 DEF LinkLost, cacheVars
    <2> QED
        BY <2>1 DEF KnownInv, Polling, Present
<1>8. CASE HandleSetupFailed
    <2>1. setup = "failed" /\ gateway' = gateway
        BY <1>8 DEF HandleSetupFailed
    <2> QED
        BY <2>1 DEF Typed, TypeOK
<1>9. ~ \E how \in {"lost", "dropped"} : GatewayFailed(how)
    BY DEF GatewayFailed
<1>10. ~ \E confirmed \in BOOLEAN : RebootCommand(confirmed)
    BY DEF RebootCommand
<1>11. ~MqttUnreadable /\ ~ \E kept \in BOOLEAN : MqttFails(kept)
    BY DEF MqttUnreadable, MqttFails
<1>12. ~Shutdown
    BY DEF Shutdown, HandleSignal, RequestDisconnect, Disconnected, SetupJoined, CloseGateway, Polling
<1> QED
    BY <1>1, <1>2, <1>3, <1>4, <1>5, <1>6, <1>7, <1>8, <1>9, <1>10, <1>11, <1>12 DEF Next, GatewayEvent

RemovedInv == ClearedInv /\ EntitiesInv

\* The initial state: nothing is retained and nothing waits.
LEMMA RemovedInit == Init => RemovedInv /\ KnownInv
<1> SUFFICES ASSUME Init
             PROVE  RemovedInv /\ KnownInv
    OBVIOUS
<1>1. Waiting = <<>> /\ broker.entities = {} /\ broker.retained = [t \in Topics |-> {}]
    BY DEF Init, Waiting
<1>2. \A t \in Topics : Promised(t) = {}
    BY <1>1, LastOfNone DEF Promised
<1>3. ClearedInv
    <2>1. MissedRecord
        BY DEF Init, MissedRecord
    <2> QED
        BY <1>2, <2>1, TopicsDiffer DEF ClearedInv, Cleared
<1>4. ASSUME NEW p \in Seq(Messages), NEW q \in Seq(Messages), <<>> = p \o q
      PROVE  After(broker.entities, p) = {}
    <2>1. p = <<>>
        BY <1>4, NothingInNothing
    <2> QED
        BY <1>1, <2>1 DEF After
<1>5. EntitiesInv
    BY <1>1, <1>4 DEF EntitiesInv
<1>6. KnownInv
    BY DEF Init, KnownInv
<1> QED
    BY <1>3, <1>5, <1>6 DEF RemovedInv

\* Every step keeps what has been removed cleared.
LEMMA RemovedNext == Typed /\ RemovedInv /\ [Next]_vars => RemovedInv'
<1> SUFFICES ASSUME Typed, RemovedInv, [Next]_vars
             PROVE  RemovedInv'
    OBVIOUS
<1> USE DEF RemovedInv
<1>0. MissedRecord
    BY DEF ClearedInv
<1>1. CASE SetupStep \/ StartSetup \/ Signal \/ UNCHANGED vars
    <2>1. UNCHANGED <<phase, stuck, cache, groups, known, broker, queue, backlog, missed>>
        BY <1>1 DEF SetupStep, SetupConnect, SetupDiscover, SetupEnable, SetupFail, SetupCancelled,
                    SetupClose, StartSetup, Signal, Keep, vars, mqttVars, brokerVars, cacheVars
    <2>2. ClearedInv'
        BY <2>1 DEF ClearedInv, MissedRecord, Cleared, Polling, Present, Promised, Waiting
    <2>3. EntitiesInv'
        BY <2>1 DEF EntitiesInv, Polling, Waiting
    <2> QED
        BY <2>2, <2>3
<1>2. CASE Shutdown
    <2>1. phase' # "running" /\ UNCHANGED missed
        BY <1>2 DEF Shutdown, HandleSignal, RequestDisconnect, Disconnected, SetupJoined, CloseGateway,
                    Polling
    <2> QED
        BY <1>0, <2>1 DEF ClearedInv, MissedRecord, EntitiesInv, Polling
<1> QED
    BY <1>0, <1>1, <1>2, ClearedGateway, ClearedReport, ClearedMqtt, EntitiesGateway, EntitiesReport,
       EntitiesMqtt DEF Next, GatewayEvent

\* Nothing of a removed node or group survives at the broker or in Home Assistant,
\* except what the bridge removed while MQTT was disconnected and what the client
\* dropped with a lost session (remove_node, remove_group and the discovery's
\* known_components).
THEOREM RemovedIsGone == Spec => []RemovedIsCleared
<1>1. Typed /\ RemovedInv /\ KnownInv => RemovedIsCleared
    <2> SUFFICES ASSUME Typed, RemovedInv, KnownInv, Settled, gateway = "some"
                 PROVE  RemovedIsCleared
        BY DEF RemovedIsCleared
    <2>1. Polling /\ mqttConnected /\ Waiting = <<>>
        BY DEF Settled, Waiting
    <2>2. \A t : Promised(t) = broker.retained[t]
        BY <2>1, LastOfNone DEF Promised
    <2>3. Cleared(cache, groups, missed.topics)
        BY <2>1 DEF RemovedInv, ClearedInv
    <2>4. After(broker.entities, Waiting) \subseteq known \cup missed.entities
        BY <2>1, EntitiesEnds DEF RemovedInv
    <2>5. After(broker.entities, <<>>) = broker.entities
        BY DEF After, Typed, TypeOK
    <2>6. known = Present(cache) \cup groups
        BY <2>1 DEF KnownInv
    <2>7. broker.entities \subseteq Present(cache) \cup groups \cup missed.entities
        BY <2>1, <2>4, <2>5, <2>6
    <2> QED
        BY <2>2, <2>3, <2>7 DEF RemovedIsCleared, Cleared
<1> QED
    BY <1>1, TypedInit, TypedNext, RemovedInit, RemovedNext, KnownNext, PTL DEF Spec
=============================================================================
