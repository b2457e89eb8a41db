-------------------------- MODULE CoverControlProofs --------------------------
(***************************************************************************)
(* Proofs about Positions, and about CoverControl for any covers, places,  *)
(* identifiers and capacity of the event channel.                          *)
(***************************************************************************)
EXTENDS CoverControl, SequenceLemmas

(***************************************************************************)
(* Positions, for every value of the 16-bit scale.                         *)
(***************************************************************************)
\* to_raw gives back every raw value that from_raw has read: positions, relative
\* changes, the special parameters and the values without a meaning.
THEOREM RawRoundTrip == \A raw \in Raw : ToRaw(FromRaw(raw)) = raw
<1> TAKE raw \in Raw
<1>1. raw \in Int BY DEF Raw
<1>2. CASE raw \in Percentage
    BY <1>2 DEF FromRaw, ToRaw, Parameter, SpecialKinds
<1>3. CASE raw \notin Percentage /\ raw \in PointRange
    <2>1. FromRaw(raw) = Parameter("percentage_point", raw - 51456 - 1000) BY <1>3 DEF FromRaw
    <2>2. Clamp(raw - 51456 - 1000) = raw - 51456 - 1000 BY <1>1, <1>3 DEF Clamp, PointRange
    <2>3. ToRaw(FromRaw(raw)) = Clamp(raw - 51456 - 1000) + 1000 + 51456
        BY <2>1 DEF ToRaw, Parameter, SpecialKinds
    <2> QED BY <1>1, <2>2, <2>3
<1>4. CASE raw \notin Percentage /\ raw \notin PointRange
    <2>1. CASE \E kind \in SpecialKinds : Special[kind] = raw
        <3> DEFINE kind == CHOOSE k \in SpecialKinds : Special[k] = raw
        <3>1. kind \in SpecialKinds /\ Special[kind] = raw BY <2>1
        <3>2. FromRaw(raw) = Parameter(kind, 0) BY <1>4, <2>1 DEF FromRaw
        <3> QED BY <3>1, <3>2 DEF ToRaw, Parameter
    <2>2. CASE ~ \E kind \in SpecialKinds : Special[kind] = raw
        BY <1>4, <2>2 DEF FromRaw, ToRaw, Parameter, SpecialKinds
    <2> QED BY <2>1, <2>2
<1> QED BY <1>2, <1>3, <1>4

\* The ends of the scale, and a position between them.
LEMMA Scale == FULLY_OPEN = 0 /\ FULLY_CLOSED = 51200
BY DEF FULLY_OPEN, FULLY_CLOSED

\* A position lies between the ends of the scale.
LEMMA PositionBounds ==
    ASSUME NEW raw \in Percentage
    PROVE  raw \in Int /\ 0 <= raw /\ raw <= FULLY_CLOSED
<1>1. FULLY_OPEN \in Int /\ FULLY_CLOSED \in Int /\ FULLY_OPEN = 0 BY Scale
<1> QED BY <1>1 DEF Percentage

\* What a division by the raw units of one percent returns.
LEMMA DivBounds ==
    ASSUME NEW n \in Int
    PROVE  n \div 512 \in Int /\ 512 * (n \div 512) <= n /\ n < 512 * (n \div 512) + 512
BY SMTT(60)

\* A whole percentage survives its conversion to the raw scale and back.
THEOREM PercentRoundTrip == \A percent \in 0..100 : RoundedPercent(FromPercent(percent)) = percent
<1> TAKE percent \in 0..100
<1>1. PICK q : q = (percent * 512 + 256) \div 512 OBVIOUS
<1>2. q \in Int /\ 512 * q <= percent * 512 + 256 /\ percent * 512 + 256 < 512 * q + 512
    <2>1. percent * 512 + 256 \in Int OBVIOUS
    <2> QED BY <1>1, <2>1, DivBounds, SMTT(30)
<1>3. q = percent BY <1>2
<1> QED BY <1>1, <1>3 DEF RoundedPercent, FromPercent

\* The rounded percentage of a position needs no bound.
LEMMA PercentRange == \A raw \in Percentage : (raw + 256) \div 512 \in 0..100
<1> TAKE raw \in Percentage
<1>1. raw \in Int /\ 0 <= raw /\ raw <= 51200 BY PositionBounds, Scale
<1>2. PICK q : q = (raw + 256) \div 512 OBVIOUS
<1>3. q \in Int /\ 512 * q <= raw + 256 /\ raw + 256 < 512 * q + 512
    <2>1. raw + 256 \in Int BY <1>1
    <2> QED BY <1>2, <2>1, DivBounds, SMTT(30)
<1>4. q \in 0..100 BY <1>1, <1>3
<1> QED BY <1>2, <1>4

\* The percentage that MQTT sees is one, falls as the cover closes, and is 100 for an
\* open and 0 for a closed cover.
THEOREM OpenPercentFalls ==
    /\ OpenPercent(FULLY_OPEN) = 100 /\ OpenPercent(FULLY_CLOSED) = 0
    /\ \A raw \in Percentage : OpenPercent(raw) \in 0..100
    /\ \A a, b \in Percentage : a <= b => OpenPercent(b) <= OpenPercent(a)
<1>1. OpenPercent(FULLY_OPEN) = 100 /\ OpenPercent(FULLY_CLOSED) = 0
    <2>1. RoundedPercent(FromPercent(0)) = 0 /\ RoundedPercent(FromPercent(100)) = 100
        BY PercentRoundTrip
    <2>2. FromPercent(0) = FULLY_OPEN /\ FromPercent(100) = FULLY_CLOSED
        BY DEF FromPercent, FULLY_OPEN, FULLY_CLOSED
    <2> QED BY <2>1, <2>2 DEF OpenPercent
<1>2. ASSUME NEW raw \in Percentage PROVE OpenPercent(raw) \in 0..100
    <2>1. (raw + 256) \div 512 \in 0..100 BY PercentRange
    <2> QED BY <2>1 DEF OpenPercent, RoundedPercent
<1>3. ASSUME NEW a \in Percentage, NEW b \in Percentage, a <= b
      PROVE  OpenPercent(b) <= OpenPercent(a)
    <2>1. a \in Int /\ b \in Int BY PositionBounds
    <2>2. PICK p, q : p = (a + 256) \div 512 /\ q = (b + 256) \div 512 OBVIOUS
    <2>3. p \in Int /\ q \in Int /\ 512 * p <= a + 256 /\ b + 256 < 512 * q + 512
        <3>1. a + 256 \in Int /\ b + 256 \in Int BY <2>1
        <3> QED BY <2>2, <3>1, DivBounds, SMTT(30)
    <2>4. p <= q BY <1>3, <2>1, <2>3
    <2> QED BY <2>2, <2>3, <2>4 DEF OpenPercent, RoundedPercent
<1> QED BY <1>1, <1>2, <1>3

\* Only a closed cover is published as position 0, up to the half percent that
\* rounded_percent gives away.
THEOREM ZeroMeansClosed ==
    \A raw \in Percentage : OpenPercent(raw) = 0 <=> raw >= FULLY_CLOSED - 256
<1> TAKE raw \in Percentage
<1>1. raw \in Int BY PositionBounds
<1>2. PICK q : q = (raw + 256) \div 512 OBVIOUS
<1>3. q \in 0..100 BY <1>2, PercentRange
<1>4. 512 * q <= raw + 256 /\ raw + 256 < 512 * q + 512
    <2>1. raw + 256 \in Int BY <1>1
    <2> QED BY <1>2, <2>1, DivBounds, SMTT(30)
<1>5. OpenPercent(raw) = 100 - q BY <1>2, <1>3 DEF OpenPercent, RoundedPercent
<1> QED BY <1>1, <1>3, <1>4, <1>5 DEF FULLY_CLOSED

-----------------------------------------------------------------------------
(***************************************************************************)
(* Events.                                                                 *)
(***************************************************************************)
Ops == {"completed", "failed", "active", "done", "executing", "unknown"}
Values == [op : Ops, current : Int, target : Int]
Events ==
    {e \in [type : {"finished", "timed_out", "run_status", "status", "state_position"},
            id : Ids \cup {0}, nodes : SUBSET Nodes, value : Values] :
        /\ Ends(e) => e.nodes = {}
        /\ e.type = "run_status" => e.value.op \in {"completed", "failed"}
        /\ e.type = "status" => e.value.op \in {"completed", "active"}
        /\ e.type = "state_position" => e.value.op \in {"done", "executing"}}
NodeStates == [op : {"executing", "done", "execution_error", "unknown"},
               current : MaybePosition, target : MaybePosition]

\* Zero is no session identifier, and every place is a position.
LEMMA ConstantTypes ==
    /\ Places \subseteq Percentage /\ Percentage \subseteq Int /\ Unknown \in Int
    /\ Unknown \notin Percentage /\ NoFeedback \in Int /\ NoFeedback \notin Percentage
    /\ FULLY_OPEN \in Places /\ FULLY_CLOSED \in Places
    /\ Ids \subseteq Nat /\ 0 \notin Ids
<1>1. /\ Percentage \subseteq Int /\ Unknown \in Int
      /\ Unknown \notin Percentage /\ NoFeedback \in Int /\ NoFeedback \notin Percentage
    BY DEF Percentage, Unknown, NoFeedback, FULLY_OPEN, FULLY_CLOSED
<1>2. Places \subseteq Percentage /\ FULLY_OPEN \in Places /\ FULLY_CLOSED \in Places
    BY PlacesAssumption
<1>3. Ids \subseteq Nat /\ 0 \notin Ids
    BY IdsAssumption
<1> QED
    BY <1>1, <1>2, <1>3

\* A raw value is a position or it is not known (relative_position).
LEMMA PositionOrUnknown ==
    ASSUME NEW raw \in Int
    PROVE  /\ raw \in Percentage => RelativePosition(raw) = raw
           /\ raw \notin Percentage => RelativePosition(raw) = Unknown
           /\ RelativePosition(raw) \in MaybePosition
<1>1. CASE raw \in Percentage
    BY <1>1 DEF RelativePosition, FromRaw, Parameter, MaybePosition
<1>2. CASE raw \notin Percentage
    <2>1. FromRaw(raw).kind # "relative"
        <3>1. CASE raw \in PointRange
            BY <1>2, <3>1 DEF FromRaw, Parameter
        <3>2. CASE raw \notin PointRange /\ \E kind \in SpecialKinds : Special[kind] = raw
            <4> DEFINE kind == CHOOSE k \in SpecialKinds : Special[k] = raw
            <4>1. kind \in SpecialKinds
                BY <3>2
            <4>2. FromRaw(raw) = Parameter(kind, 0)
                BY <1>2, <3>2 DEF FromRaw
            <4> HIDE DEF kind
            <4>3. kind # "relative"
                BY <4>1 DEF SpecialKinds
            <4> QED
                BY <4>2, <4>3 DEF Parameter
        <3>3. CASE raw \notin PointRange /\ ~ \E kind \in SpecialKinds : Special[kind] = raw
            BY <1>2, <3>3 DEF FromRaw, Parameter
        <3> QED
            BY <3>1, <3>2, <3>3
    <2> QED
        BY <1>2, <2>1 DEF RelativePosition, MaybePosition
<1> QED
    BY <1>1, <1>2

\* The covers and the sessions of the KLF; a session that does not move anything is
\* that of a status request, for one node.
Sessions == {s \in [nodes : SUBSET Nodes, moves : BOOLEAN] :
                ~s.moves => \E n \in Nodes : s.nodes = {n}}
RunningOK == running \in [DOMAIN running -> Sessions]

\* The request that the bridge waits for.
TaskOK ==
    /\ task.kind \in {"command", "group"} => task.goal \in Places
    /\ task.kind \in {"status", "query", "await"} => \E n \in Nodes : task.nodes = {n}
    /\ task.kind # "none" => task.id \in Ids
    /\ task.kind = "none" => task = NoTask
EventsOK == events \in Seq(Events)
Typed == TypeOK /\ RunningOK /\ TaskOK /\ EventsOK

\* The events that the KLF and the connection actor send.
LEMMA EventTypes ==
    ASSUME Typed
    PROVE  /\ \A id \in Ids : Finished(id) \in Events /\ TimedOut(id) \in Events
           /\ \A id \in Ids, n \in Nodes, run \in {"completed", "failed"} :
                  RunStatus(id, n, run) \in Events
           /\ \A id \in Ids, n \in Nodes, run \in {"completed", "active"}, p \in Int :
                  StatusReport(id, n, run, p) \in Events
           /\ \A n \in Nodes, at \in Places, to \in Places : StatePosition(n, at, to) \in Events
<1>1. \A n \in Nodes : cover[n].at \in Int /\ cover[n].to \in Int
    BY ConstantTypes DEF Typed, TypeOK
<1>2. \A op \in Ops, a \in Int, b \in Int : NodeState(op, a, b) \in Values
    BY DEF NodeState, Values
<1>3. StatusUnknown \in Values
    BY <1>2, ConstantTypes DEF StatusUnknown, Ops
<1>4. \A id \in Ids : Finished(id) \in Events /\ TimedOut(id) \in Events
    BY <1>3 DEF Finished, TimedOut, Event, Events, Ends
<1>5. \A id \in Ids, n \in Nodes, run \in {"completed", "failed"} :
          RunStatus(id, n, run) \in Events
    <2> TAKE id \in Ids, n \in Nodes, run \in {"completed", "failed"}
    <2>1. NodeState(run, cover[n].at, Unknown) \in Values
        BY <1>1, <1>2, ConstantTypes DEF Ops
    <2> QED
        BY <2>1 DEF RunStatus, Event, Events, Ends, NodeState
<1>6. \A id \in Ids, n \in Nodes, run \in {"completed", "active"}, p \in Int :
          StatusReport(id, n, run, p) \in Events
    <2> TAKE id \in Ids, n \in Nodes, run \in {"completed", "active"}, p \in Int
    <2>1. NodeState(run, p, cover[n].to) \in Values
        BY <1>1, <1>2, ConstantTypes DEF Ops
    <2> QED
        BY <2>1 DEF StatusReport, Event, Events, Ends, NodeState
<1>7. \A n \in Nodes, at \in Places, to \in Places : StatePosition(n, at, to) \in Events
    <2> TAKE n \in Nodes, at \in Places, to \in Places
    <2> DEFINE op == IF at = to THEN "done" ELSE "executing"
    <2>1. NodeState(op, at, to) \in Values /\ op \in {"done", "executing"}
        BY <1>2, ConstantTypes DEF Ops
    <2> HIDE DEF op
    <2>2. Event("state_position", 0, {n}, NodeState(op, at, to)) \in Events
        BY <2>1 DEF Event, Events, Ends, NodeState
    <2> QED
        BY <2>2 DEF StatePosition, op
<1> QED
    BY <1>4, <1>5, <1>6, <1>7

\* What an event makes of a node is a node.
LEMMA AppliedType ==
    ASSUME NEW v \in NodeStates, NEW e \in Events, ~Ends(e)
    PROVE  Applied(v, e) \in NodeStates
<1>1. /\ RelativePosition(e.value.current) \in MaybePosition
      /\ RelativePosition(e.value.target) \in MaybePosition
    BY PositionOrUnknown DEF Events, Values
<1>2. CASE e.type = "state_position"
    BY <1>1, <1>2 DEF Applied, NodeState, NodeStates, Events
<1>3. CASE e.type = "status"
    BY <1>1, <1>3 DEF Applied, NodeState, NodeStates, Events, FromRunStatus
<1>4. CASE e.type = "run_status"
    BY <1>1, <1>4 DEF Applied, NodeStates, Events, FromRunStatus
<1> QED
    BY <1>2, <1>3, <1>4 DEF Events, Ends

Ended(q) == {e.id : e \in {f \in Range(q) : Ends(f)}}

\* What the channel does with new events: it keeps to its capacity, and what it gives
\* up shows, in a session that leaks during the setup or in the lag of the receiver.
LEMMA EmitKeeps ==
    ASSUME Typed, NEW list \in Seq(Events), Emit(list)
    PROVE  /\ EventsOK' /\ Len(events') <= EventCapacity /\ lagged' \in BOOLEAN
           /\ Range(events') \subseteq Range(events) \cup Range(list)
           /\ lagged => lagged'
           /\ ~lagged' => events' = events \o list
           /\ (phase = "setup" \/ ~lagged') =>
                  Ended(events) \cup Ended(list) \cup leaked \subseteq Ended(events') \cup leaked'
<1> DEFINE all == events \o list
           lost == IF Len(all) > EventCapacity THEN Len(all) - EventCapacity ELSE 0
           old == SubSeq(all, 1, lost)
           new == SubSeq(all, lost + 1, Len(all))
<1>1. EventCapacity \in Nat /\ events \in Seq(Events) /\ lagged \in BOOLEAN
    BY BoundsAssumption DEF Typed, TypeOK, EventsOK
<1>2. all \in Seq(Events) /\ Range(all) = Range(events) \cup Range(list)
    BY <1>1, ConcatRange
<1>3. /\ events' = new /\ lagged' = (lagged \/ lost > 0)
      /\ leaked' = IF phase # "setup" THEN leaked ELSE leaked \cup Ended(old)
    BY DEF Emit, Ended
<1>4. lost \in 0..Len(all) /\ Len(all) - lost <= EventCapacity /\ Len(all) \in Nat
    <2>1. Len(all) \in Nat
        BY <1>2
    <2> HIDE DEF all
    <2> QED
        BY <1>1, <2>1
<1>5. /\ old \in Seq(Events) /\ new \in Seq(Events) /\ Len(new) = Len(all) - lost
      /\ all = old \o new
    <2> HIDE DEF all, lost
    <2> QED
        BY <1>2, <1>4, Suffix
<1>6. Range(all) = Range(old) \cup Range(new)
    <2> HIDE DEF all, old, new
    <2> QED
        BY <1>5, ConcatRange
<1>7. ASSUME ~lagged'
      PROVE  events' = events \o list
    <2>0. ~ (lost > 0)
        <3> HIDE DEF lost
        <3> QED
            BY <1>3, <1>7, Zenon
    <2>1. lost = 0
        BY <1>4, <2>0
    <2>2. SubSeq(all, 1, Len(all)) = all
        <3> HIDE DEF all
        <3>1. \A s \in Seq(Events) : SubSeq(s, 1, Len(s)) = s
            BY SMT
        <3> QED
            BY <1>2, <3>1, Zenon
    <2>3. events' = SubSeq(all, lost + 1, Len(all)) /\ lost + 1 = 1
        <3> HIDE DEF all, lost
        <3> QED
            BY <1>3, <2>1
    <2> HIDE DEF lost
    <2> QED
        BY <2>2, <2>3
<1>8. ASSUME phase = "setup" \/ ~lagged'
      PROVE  Ended(events) \cup Ended(list) \cup leaked \subseteq Ended(events') \cup leaked'
    <2>1. Ended(events) \cup Ended(list) = Ended(all)
        BY <1>2 DEF Ended
    <2>2. CASE phase = "setup"
        <3>1. Ended(all) = Ended(old) \cup Ended(new)
            BY <1>6 DEF Ended
        <3> QED
            BY <1>3, <2>1, <2>2, <3>1
    <2>3. CASE phase # "setup"
        <3>1. events' = all
            BY <1>7, <1>8, <2>3
        <3>2. Ended(events') = Ended(all)
            BY <3>1
        <3> QED
            BY <1>3, <2>1, <2>3, <3>2
    <2> QED
        BY <2>2, <2>3
<1>9. EventsOK' /\ Len(events') <= EventCapacity
    BY <1>3, <1>4, <1>5 DEF EventsOK
<1>10. Range(events') \subseteq Range(events) \cup Range(list)
    BY <1>2, <1>3, <1>6
<1>11. lagged' \in BOOLEAN /\ (lagged => lagged')
    BY <1>1, <1>3
<1> QED
    BY <1>7, <1>8, <1>9, <1>10, <1>11

\* The elements of short sequences.
LEMMA ShortRange ==
    /\ \A x : Range(<<x>>) = {x}
    /\ Range(<<>>) = {}
BY DEF Range

\* The events about the nodes of one session, and its end.
LEMMA SessionEvents ==
    ASSUME Typed, NEW id \in Ids, NEW nodes \in SUBSET Nodes, NEW run \in {"completed", "failed"},
           NEW list, list = [j \in 1..Cardinality(nodes) |-> RunStatus(id, SetToSeq(nodes)[j], run)]
    PROVE  /\ list \o <<Finished(id)>> \in Seq(Events)
           /\ Range(list \o <<Finished(id)>>) =
                  {RunStatus(id, n, run) : n \in nodes} \cup {Finished(id)}
<1> DEFINE k == Cardinality(nodes)
           order == SetToSeq(nodes)
<1>1. IsFiniteSet(nodes)
    BY NodesAssumption, FS_Subset
<1>2. k \in Nat /\ order \in [1..k -> nodes] /\ \A n \in nodes : \E i \in 1..k : order[i] = n
    BY <1>1, SetToSeqElements
<1> HIDE DEF k, order
<1>3. list = [j \in 1..k |-> RunStatus(id, order[j], run)]
    BY DEF k, order
<1>4. \A n \in nodes : RunStatus(id, n, run) \in Events
    BY EventTypes
<1>5. list \in [1..k -> Events]
    BY <1>2, <1>3, <1>4, ZenonT(60)
<1>6. list \in Seq(Events) /\ DOMAIN list = 1..k
    <2>1. \A f \in [1..k -> Events] : f \in Seq(Events) /\ DOMAIN f = 1..k
        BY <1>2, SeqDef
    <2> QED
        BY <1>5, <2>1
<1>7. Range(list) = {RunStatus(id, n, run) : n \in nodes}
    <2>1. \A j \in 1..k : list[j] = RunStatus(id, order[j], run) /\ order[j] \in nodes
        BY <1>2, <1>3
    <2>2. \A n \in nodes : \E j \in 1..k : list[j] = RunStatus(id, n, run)
        BY <1>2, <2>1
    <2>3. Range(list) = {list[j] : j \in 1..k}
        BY <1>6 DEF Range
    <2>4. \A x \in Range(list) : \E n \in nodes : x = RunStatus(id, n, run)
        BY <2>1, <2>3
    <2>5. \A n \in nodes : RunStatus(id, n, run) \in Range(list)
        BY <2>2, <2>3
    <2> QED
        BY <2>4, <2>5, Zenon
<1>8. <<Finished(id)>> \in Seq(Events) /\ Range(<<Finished(id)>>) = {Finished(id)}
    <2>1. Finished(id) \in Events
        BY EventTypes
    <2> QED
        BY <2>1, ShortRange
<1> DEFINE end == <<Finished(id)>>
<1> HIDE DEF end
<1>9. list \o end \in Seq(Events) /\ Range(list \o end) = Range(list) \cup Range(end)
    <2>1. end \in Seq(Events)
        BY <1>8 DEF end
    <2> QED
        BY <1>6, <2>1, ConcatRange, ZenonT(60)
<1> QED
    BY <1>7, <1>8, <1>9 DEF end

\* The events about the sessions that lose their nodes to a new movement: every node
\* is reported, and every session ends.
LEMMA FailuresContent ==
    ASSUME Typed, NEW gone \in SUBSET DOMAIN running
    PROVE  /\ Failures(gone) \in Seq(Events)
           /\ Range(Failures(gone)) =
                  UNION {{RunStatus(id, n, "failed") : n \in running[id].nodes} \cup {Finished(id)} :
                            id \in gone}
<1> DEFINE One(id) == [j \in 1..Cardinality(running[id].nodes) |->
                          RunStatus(id, SetToSeq(running[id].nodes)[j], "failed")] \o <<Finished(id)>>
           P == [id \in gone |-> One(id)]
<1>1. gone \subseteq Ids /\ IsFiniteSet(gone) /\ \A id \in gone : running[id].nodes \in SUBSET Nodes
    BY IdsAssumption, FS_Subset DEF Typed, TypeOK, RunningOK, Sessions
<1>2. ASSUME NEW id \in gone
      PROVE  /\ One(id) \in Seq(Events)
             /\ Range(One(id)) = {RunStatus(id, n, "failed") : n \in running[id].nodes} \cup {Finished(id)}
    <2>1. id \in Ids /\ running[id].nodes \in SUBSET Nodes
        BY <1>1
    <2>2. PICK nodes : nodes = running[id].nodes
        OBVIOUS
    <2>3. PICK list : list = [j \in 1..Cardinality(nodes) |-> RunStatus(id, SetToSeq(nodes)[j], "failed")]
        OBVIOUS
    <2>4. nodes \in SUBSET Nodes
        BY <2>1, <2>2
    <2>5. /\ list \o <<Finished(id)>> \in Seq(Events)
          /\ Range(list \o <<Finished(id)>>) =
                 {RunStatus(id, n, "failed") : n \in nodes} \cup {Finished(id)}
        BY <2>1, <2>3, <2>4, SessionEvents
    <2> QED
        BY <2>2, <2>3, <2>5
<1> HIDE DEF One
<1>3. P \in [gone -> Seq(Events)] /\ \A id \in gone : P[id] = One(id)
    BY <1>2
<1>4. Failures(gone) = Flattened(gone, P)
    <2>1. \A i \in 1..Cardinality(gone) : SetToSeq(gone)[i] \in gone
        BY <1>1, SetToSeqElements
    <2>2. \A i \in 1..Cardinality(gone) : P[SetToSeq(gone)[i]] = One(SetToSeq(gone)[i])
        BY <1>3, <2>1
    <2> HIDE DEF P
    <2> QED
        BY <2>2 DEF Failures, Flattened, One
<1> HIDE DEF P
<1>5. /\ Flattened(gone, P) \in Seq(Events)
      /\ Range(Flattened(gone, P)) = UNION {Range(P[id]) : id \in gone}
    BY <1>1, <1>3, FlattenOverSet
<1>6. UNION {Range(P[id]) : id \in gone} =
          UNION {{RunStatus(id, n, "failed") : n \in running[id].nodes} \cup {Finished(id)} : id \in gone}
    BY <1>2, <1>3
<1> QED
    BY <1>4, <1>5, <1>6

-----------------------------------------------------------------------------
(***************************************************************************)
(* Types.                                                                  *)
(***************************************************************************)
\* A request gets an identifier that nothing refers to.
LEMMA SendFresh ==
    ASSUME Typed, NEW kind, NEW nodes, NEW goal, Send(kind, nodes, goal)
    PROVE  \E id \in Fresh :
               /\ id \in Ids /\ ids' = ids \cup {id}
               /\ task' = [kind |-> kind, id |-> id, nodes |-> nodes, goal |-> goal, reply |-> "none"]
<1>1. Fresh \in SUBSET Nat /\ Fresh # {} /\ Fresh \subseteq Ids
    BY ConstantTypes DEF Send, Fresh
<1>2. Min(Fresh) \in Fresh
    BY <1>1, MinSmallest
<1> QED
    BY <1>1, <1>2 DEF Send

\* The request is one.
LEMMA SendTypes ==
    ASSUME Typed, NEW kind \in {"command", "group", "status", "query"}, NEW nodes \in SUBSET Nodes,
           NEW goal \in MaybePosition, Send(kind, nodes, goal),
           kind \in {"command", "group"} => goal \in Places,
           kind \in {"status", "query"} => \E n \in Nodes : nodes = {n}
    PROVE  /\ task' \in [kind : {"none", "command", "group", "status", "query", "await"},
                         id : Ids \cup {0}, nodes : SUBSET Nodes, goal : MaybePosition,
                         reply : {"none", "accepted", "rejected", "failed"}]
           /\ TaskOK' /\ ids' \subseteq Ids
<1>1. PICK id \in Fresh :
          /\ id \in Ids /\ ids' = ids \cup {id}
          /\ task' = [kind |-> kind, id |-> id, nodes |-> nodes, goal |-> goal, reply |-> "none"]
    BY SendFresh
<1>2. ids' \subseteq Ids
    BY <1>1 DEF Typed, TypeOK
<1> QED
    BY <1>1, <1>2 DEF TaskOK

\* Nothing waits for a confirmation.
LEMMA NoTaskTypes ==
    ASSUME task' = NoTask
    PROVE  /\ task' \in [kind : {"none", "command", "group", "status", "query", "await"},
                         id : Ids \cup {0}, nodes : SUBSET Nodes, goal : MaybePosition,
                         reply : {"none", "accepted", "rejected", "failed"}]
           /\ TaskOK'
BY DEF NoTask, TaskOK, MaybePosition

\* The reply to a request.
LEMMA ReplyTypes ==
    ASSUME Typed, NEW reply \in {"accepted", "rejected", "failed"}, InFlight,
           task' = [task EXCEPT !.reply = reply]
    PROVE  /\ task' \in [kind : {"none", "command", "group", "status", "query", "await"},
                         id : Ids \cup {0}, nodes : SUBSET Nodes, goal : MaybePosition,
                         reply : {"none", "accepted", "rejected", "failed"}]
           /\ TaskOK'
BY DEF Typed, TypeOK, TaskOK, InFlight

\* An event that the bridge reads.
LEMMA HandleTypes ==
    ASSUME Typed, NEW e \in Events, Handle(e)
    PROVE  node' \in [Nodes -> NodeStates] /\ ids' \subseteq Ids
<1>1. node \in [Nodes -> NodeStates] /\ ids \subseteq Ids
    BY DEF Typed, TypeOK, NodeStates
<1>2. ASSUME NEW n \in Nodes, n \in e.nodes
      PROVE  Applied(node[n], e) \in NodeStates
    <2>1. ~Ends(e)
        BY <1>2 DEF Events
    <2> QED
        BY <1>1, <2>1, AppliedType
<1> QED
    BY <1>1, <1>2 DEF Handle

\* The first event of the channel, and the rest.
LEMMA ReadTypes ==
    ASSUME Typed, events # <<>>, events' = Tail(events)
    PROVE  /\ Head(events) \in Events /\ EventsOK' /\ Len(events') <= EventCapacity
           /\ events = <<Head(events)>> \o Tail(events) /\ Tail(events) \in Seq(Events)
<1>1. events \in Seq(Events) /\ EventCapacity \in Nat /\ Len(events) <= EventCapacity
    BY BoundsAssumption DEF Typed, TypeOK, EventsOK
<1>2. /\ Head(events) \in Events /\ Tail(events) \in Seq(Events)
      /\ Len(Tail(events)) = Len(events) - 1 /\ Len(events) \in Nat
    BY <1>1
<1>3. events = <<Head(events)>> \o Tail(events)
    BY <1>1
<1> QED
    BY <1>1, <1>2, <1>3 DEF EventsOK

\* The work that the KLF begins.
LEMMA BeginTypes ==
    ASSUME Typed, InFlight, NEW confirmed \in SUBSET {task.id}, Begin(confirmed)
    PROVE  /\ DOMAIN running' \subseteq Ids /\ RunningOK' /\ sessions' \subseteq Ids
           /\ cover' \in [Nodes -> [at : Places, to : Places]]
           /\ Len(events') <= EventCapacity /\ EventsOK' /\ lagged' \in BOOLEAN
<1> DEFINE moves == task.kind \in {"command", "group"}
           gone == IF moves THEN Overruled(task.nodes) ELSE {}
           session == [nodes |-> task.nodes, moves |-> moves]
<1>1. task.id \in Ids
    BY DEF Typed, TaskOK, InFlight
<1>2. session \in Sessions
    <2>1. moves \in BOOLEAN
        OBVIOUS
    <2>2. task.nodes \in SUBSET Nodes /\ (~moves => \E n \in Nodes : task.nodes = {n})
        BY DEF Typed, TypeOK, TaskOK, InFlight
    <2> HIDE DEF moves
    <2> QED
        BY <2>1, <2>2 DEF Sessions
<1>3. running' = [id \in (DOMAIN running \ gone) \cup {task.id} |->
                     IF id = task.id THEN session ELSE running[id]]
    BY DEF Begin
<1>4. DOMAIN running' = (DOMAIN running \ gone) \cup {task.id}
      /\ \A id \in DOMAIN running' : running'[id] = IF id = task.id THEN session ELSE running[id]
    BY <1>3
<1>5. running \in [DOMAIN running -> Sessions] /\ DOMAIN running \subseteq Ids
    BY DEF Typed, TypeOK, RunningOK
<1>6. DOMAIN running' \subseteq Ids /\ RunningOK'
    <2> HIDE DEF gone, session
    <2>1. \A id \in DOMAIN running' : running'[id] \in Sessions
        BY <1>2, <1>4, <1>5
    <2>2. DOMAIN running' \subseteq Ids
        BY <1>1, <1>4, <1>5
    <2> QED
        BY <1>3, <1>4, <2>1, <2>2 DEF RunningOK
<1>7. sessions' \subseteq Ids
    BY <1>1 DEF Begin, Typed, TypeOK
<1>8. cover' \in [Nodes -> [at : Places, to : Places]]
    <2>1. cover' = [n \in Nodes |-> IF moves /\ n \in task.nodes
                                    THEN [cover[n] EXCEPT !.to = task.goal] ELSE cover[n]]
        BY DEF Begin
    <2>2. cover \in [Nodes -> [at : Places, to : Places]] /\ (moves => task.goal \in Places)
        BY DEF Typed, TypeOK, TaskOK
    <2> HIDE DEF moves
    <2> QED
        BY <2>1, <2>2
<1>9. gone \in SUBSET DOMAIN running /\ Emit(Failures(gone))
    BY DEF Begin, Overruled, Movers
<1> HIDE DEF gone
<1>10. Failures(gone) \in Seq(Events)
    BY <1>9, FailuresContent
<1>11. Len(events') <= EventCapacity /\ EventsOK' /\ lagged' \in BOOLEAN
    <2>1. PICK list : list = Failures(gone)
        OBVIOUS
    <2> QED
        BY <1>9, <1>10, <2>1, EmitKeeps
<1> QED
    BY <1>6, <1>7, <1>8, <1>11

\* The sessions that are left.
LEMMA WithoutTypes ==
    ASSUME Typed, NEW gone, running' = Without(gone)
    PROVE  /\ DOMAIN running' \subseteq Ids /\ RunningOK'
           /\ DOMAIN running' = DOMAIN running \ gone
           /\ \A id \in DOMAIN running' : running'[id] = running[id]
<1>1. /\ running \in [DOMAIN running -> Sessions] /\ DOMAIN running \subseteq Ids
      /\ running' = [id \in DOMAIN running \ gone |-> running[id]]
    BY DEF Typed, TypeOK, RunningOK, Without
<1>2. DOMAIN running' = DOMAIN running \ gone
      /\ \A id \in DOMAIN running' : running'[id] = running[id] /\ running'[id] \in Sessions
    BY <1>1
<1> QED
    BY <1>1, <1>2 DEF RunningOK

\* The first state has the types.
LEMMA InitTyped ==
    ASSUME Init
    PROVE  Typed
<1>1. TaskOK /\ task \in [kind : {"none", "command", "group", "status", "query", "await"},
                          id : Ids \cup {0}, nodes : SUBSET Nodes, goal : MaybePosition,
                          reply : {"none", "accepted", "rejected", "failed"}]
    BY DEF Init, NoTask, TaskOK, MaybePosition
<1>2. DOMAIN running = {} /\ RunningOK
    BY DEF Init, RunningOK
<1>3. node \in [Nodes -> NodeStates]
    BY DEF Init, StatusUnknown, NodeState, NodeStates, MaybePosition
<1>4. EventsOK /\ Len(events) = 0 /\ Len(events) <= EventCapacity
    BY BoundsAssumption DEF Init, EventsOK
<1>5. cover \in [Nodes -> [at : Places, to : Places]]
    BY DEF Init
<1>6. /\ phase \in {"offline", "setup", "running"} /\ todo \subseteq Nodes
      /\ ids \subseteq Ids /\ sessions \subseteq Ids /\ lagged \in BOOLEAN /\ monitor \in BOOLEAN
    BY DEF Init
<1>7. TypeOK
    BY <1>1, <1>2, <1>3, <1>4, <1>5, <1>6 DEF TypeOK, NodeStates
<1> QED
    BY <1>1, <1>2, <1>4, <1>7 DEF Typed

\* The steps of the bridge keep the types.
LEMMA BridgeTyped ==
    ASSUME Typed, Bridge \/ Refresh \/ Lost \/ \E message \in Messages : HandleMqttMessage(message)
    PROVE  Typed'
<1> DEFINE TaskType == [kind : {"none", "command", "group", "status", "query", "await"},
                        id : Ids \cup {0}, nodes : SUBSET Nodes, goal : MaybePosition,
                        reply : {"none", "accepted", "rejected", "failed"}]
<1>1. /\ phase \in {"offline", "setup", "running"} /\ todo \subseteq Nodes
      /\ task \in TaskType /\ TaskOK
      /\ ids \subseteq Ids /\ sessions \subseteq Ids /\ DOMAIN running \subseteq Ids /\ RunningOK
      /\ node \in [Nodes -> NodeStates]
      /\ Len(events) <= EventCapacity /\ EventsOK
      /\ cover \in [Nodes -> [at : Places, to : Places]]
      /\ lagged \in BOOLEAN /\ monitor \in BOOLEAN
    BY DEF Typed, TypeOK, NodeStates
<1> HIDE DEF TaskType
<1> SUFFICES /\ phase' \in {"offline", "setup", "running"} /\ todo' \subseteq Nodes
             /\ task' \in TaskType /\ TaskOK'
             /\ ids' \subseteq Ids /\ sessions' \subseteq Ids /\ DOMAIN running' \subseteq Ids
             /\ RunningOK'
             /\ node' \in [Nodes -> NodeStates]
             /\ Len(events') <= EventCapacity /\ EventsOK'
             /\ cover' \in [Nodes -> [at : Places, to : Places]]
             /\ lagged' \in BOOLEAN /\ monitor' \in BOOLEAN
    BY DEF Typed, TypeOK, NodeStates, TaskType
<1>2. ASSUME UNCHANGED klfVars
      PROVE  /\ DOMAIN running' \subseteq Ids /\ RunningOK' /\ monitor' \in BOOLEAN
             /\ cover' \in [Nodes -> [at : Places, to : Places]]
    BY <1>1, <1>2 DEF klfVars, RunningOK
<1>3. ASSUME UNCHANGED eventVars
      PROVE  Len(events') <= EventCapacity /\ EventsOK' /\ lagged' \in BOOLEAN
    BY <1>1, <1>3 DEF eventVars, EventsOK
<1>4. ASSUME GoOffline
      PROVE  Typed'
    <2>1. task' \in TaskType /\ TaskOK'
        BY <1>4, NoTaskTypes DEF GoOffline, TaskType
    <2>2. DOMAIN running' = {} /\ RunningOK'
        BY <1>4 DEF GoOffline, RunningOK
    <2>3. Len(events') <= EventCapacity /\ EventsOK'
        BY <1>4, BoundsAssumption DEF GoOffline, EventsOK
    <2> QED
        BY <1>1, <1>4, <2>1, <2>2, <2>3 DEF GoOffline, Typed, TypeOK, NodeStates, TaskType
<1>5. CASE Reconnect
    <2>1. node' \in [Nodes -> NodeStates]
        <3>1. \A n \in Nodes : cover[n].at \in MaybePosition /\ cover[n].to \in MaybePosition
            BY <1>1, ConstantTypes DEF MaybePosition
        <3>2. \A n \in Nodes : Discovered(n) \in NodeStates
            BY <3>1 DEF Discovered, StatePosition, Event, NodeState, NodeStates
        <3> QED
            BY <1>5, <3>2 DEF Reconnect, Reconcile
    <2>2. /\ DOMAIN running' \subseteq Ids /\ RunningOK' /\ monitor' \in BOOLEAN
          /\ cover' \in [Nodes -> [at : Places, to : Places]]
        BY <1>1, <1>5 DEF Reconnect, RunningOK
    <2> QED
        BY <1>1, <1>3, <1>5, <2>1, <2>2 DEF Reconnect, TaskOK
<1>6. ASSUME NEW n \in Nodes, QueryStatus(n)
      PROVE  Typed'
    <2>1. task' \in TaskType /\ TaskOK' /\ ids' \subseteq Ids
        <3>1. Unknown \in MaybePosition
            BY DEF MaybePosition
        <3> QED
            BY <1>6, <3>1, SendTypes DEF QueryStatus, TaskType
    <2>2. node' \in [Nodes -> NodeStates]
        BY <1>1, <1>6 DEF QueryStatus, StatusUnknown, NodeState, NodeStates, MaybePosition
    <2>3. UNCHANGED klfVars /\ UNCHANGED eventVars
        BY <1>6 DEF QueryStatus
    <2> QED
        BY <1>1, <1>2, <1>3, <1>6, <2>1, <2>2, <2>3
        DEF QueryStatus, Typed, TypeOK, NodeStates, TaskType
<1>7. CASE AwaitEvent
    <2>1. /\ Head(events) \in Events /\ EventsOK' /\ Len(events') <= EventCapacity
        BY <1>7, ReadTypes DEF AwaitEvent
    <2>2. node' \in [Nodes -> NodeStates] /\ ids' \subseteq Ids
        BY <1>7, <2>1, HandleTypes DEF AwaitEvent
    <2>3. task' \in TaskType /\ TaskOK'
        <3>1. CASE task' = NoTask
            BY <3>1, NoTaskTypes DEF TaskType
        <3>2. CASE task' = task
            BY <1>1, <3>2 DEF TaskOK
        <3> QED
            BY <1>7, <3>1, <3>2 DEF AwaitEvent
    <2> QED
        BY <1>1, <1>2, <1>7, <2>1, <2>2, <2>3 DEF AwaitEvent
<1>8. CASE AwaitFails
    <2>1. task' \in TaskType /\ TaskOK'
        BY <1>8, NoTaskTypes DEF AwaitFails, TaskType
    <2> QED
        BY <1>1, <1>2, <1>8, <2>1 DEF AwaitFails, EventsOK
<1>9. CASE EnableMonitor
    BY <1>1, <1>3, <1>9 DEF EnableMonitor, TaskOK, RunningOK
<1>10. CASE Confirmed
    <2>1. node' \in [Nodes -> NodeStates]
        BY <1>1, <1>10 DEF Confirmed, MarkCommandAccepted, NodeStates, TaskType
    <2>2. task' \in TaskType /\ TaskOK'
        <3>1. CASE task.kind = "query"
            BY <1>1, <1>10, <3>1 DEF Confirmed, TaskOK, TaskType
        <3>2. CASE task.kind # "query"
            BY <1>10, <3>2, NoTaskTypes DEF Confirmed, TaskType
        <3> QED
            BY <3>1, <3>2
    <2> QED
        BY <1>1, <1>2, <1>3, <1>10, <2>1, <2>2 DEF Confirmed
<1>11. CASE Refused
    <2>1. task' \in TaskType /\ TaskOK'
        BY <1>11, NoTaskTypes DEF Refused, TaskType
    <2> QED
        BY <1>1, <1>2, <1>3, <1>11, <2>1 DEF Refused
<1>12. CASE ReceiveEvent
    <2>1. Head(events) \in Events /\ EventsOK' /\ Len(events') <= EventCapacity
        BY <1>12, ReadTypes DEF ReceiveEvent
    <2>2. node' \in [Nodes -> NodeStates] /\ ids' \subseteq Ids
        BY <1>12, <2>1, HandleTypes DEF ReceiveEvent
    <2> QED
        BY <1>1, <1>2, <1>12, <2>1, <2>2 DEF ReceiveEvent, TaskOK
<1>13. CASE ReceiveLagged \/ Lost
    BY <1>1, <1>4, <1>13 DEF ReceiveLagged, Lost, Typed, TypeOK, NodeStates, TaskType
<1>14. ASSUME NEW n \in Nodes, RequestStatus(n)
       PROVE  Typed'
    <2>1. task' \in TaskType /\ TaskOK' /\ ids' \subseteq Ids
        <3>1. Unknown \in MaybePosition
            BY DEF MaybePosition
        <3> QED
            BY <1>14, <3>1, SendTypes DEF RequestStatus, TaskType
    <2>2. UNCHANGED klfVars /\ UNCHANGED eventVars
        BY <1>14 DEF RequestStatus
    <2> QED
        BY <1>1, <1>2, <1>3, <1>14, <2>1, <2>2
        DEF RequestStatus, Typed, TypeOK, NodeStates, TaskType
<1>15. CASE Refresh
    BY <1>1, <1>2, <1>3, <1>15 DEF Refresh, Refreshable, TaskOK
<1>16. ASSUME NEW message \in Messages, HandleMqttMessage(message)
       PROVE  Typed'
    <2>1. /\ UNCHANGED klfVars /\ UNCHANGED eventVars
          /\ UNCHANGED <<phase, todo, node, sessions>>
        BY <1>16 DEF HandleMqttMessage, GroupCommand, CoverCommand
    <2>2. task' \in TaskType /\ TaskOK' /\ ids' \subseteq Ids
        <3>1. CASE message.target = TheGroup
            <4>1. message.action \in {"open", "closed"}
                BY <1>16, <3>1 DEF HandleMqttMessage, ParseCommand, Messages
            <4>2. Endpoint[message.action] \in Places
                BY <4>1, ConstantTypes DEF Endpoint
            <4>3. PICK goal : goal = Endpoint[message.action]
                OBVIOUS
            <4>4. goal \in Places /\ goal \in MaybePosition /\ Send("group", Nodes, goal)
                BY <1>16, <3>1, <4>2, <4>3, ConstantTypes
                DEF HandleMqttMessage, GroupCommand, MaybePosition
            <4> QED
                BY <4>4, SendTypes DEF TaskType
        <3>2. CASE message.target # TheGroup
            <4>1. PICK n : n = message.target
                OBVIOUS
            <4>2. n \in Nodes /\ message.action \in {"open", "closed", "toggle"}
                BY <3>2, <4>1 DEF Messages
            <4>3. PICK goal : goal = ResolveAction(node[n], message.action)
                OBVIOUS
            <4>4. goal \in Places \cup {Unknown}
                <5>1. ToggleEndpoint(node[n]) \in Places \cup {Unknown}
                    BY ConstantTypes DEF ToggleEndpoint
                <5>2. message.action # "toggle" => Endpoint[message.action] \in Places
                    BY <4>2, ConstantTypes DEF Endpoint
                <5> QED
                    BY <4>2, <4>3, <5>1, <5>2 DEF ResolveAction
            <4>5. Send(IF goal = Unknown THEN "status" ELSE "command", {n}, goal)
                BY <1>16, <3>2, <4>1, <4>3 DEF HandleMqttMessage, CoverCommand
            <4>6. PICK kind : kind = IF goal = Unknown THEN "status" ELSE "command"
                OBVIOUS
            <4>7. PICK nodes : nodes = {n}
                OBVIOUS
            <4>8. /\ Send(kind, nodes, goal) /\ goal \in MaybePosition /\ nodes \in SUBSET Nodes
                  /\ kind \in {"command", "group", "status", "query"}
                  /\ (kind \in {"command", "group"} => goal \in Places)
                  /\ \E m \in Nodes : nodes = {m}
                BY <4>2, <4>4, <4>5, <4>6, <4>7, ConstantTypes DEF MaybePosition
            <4> QED
                BY <4>8, SendTypes DEF TaskType
        <3> QED
            BY <3>1, <3>2
    <2> QED
        BY <1>1, <1>2, <1>3, <2>1, <2>2 DEF Typed, TypeOK, NodeStates, TaskType
<1> QED
    BY <1>5, <1>6, <1>7, <1>8, <1>9, <1>10, <1>11, <1>12, <1>13, <1>14, <1>15, <1>16
    DEF Bridge, Typed, TypeOK, NodeStates, TaskType

\* The end of a session.
LEMMA EndTypes ==
    ASSUME Typed, NEW id \in DOMAIN running, NEW list, list \o <<Finished(id)>> \in Seq(Events),
           EndSession(id, list)
    PROVE  /\ DOMAIN running' \subseteq Ids /\ RunningOK' /\ sessions' \subseteq Ids
           /\ Len(events') <= EventCapacity /\ EventsOK' /\ lagged' \in BOOLEAN
<1>1. PICK all : all = list \o <<Finished(id)>>
    OBVIOUS
<1>2. all \in Seq(Events) /\ Emit(all)
    BY <1>1 DEF EndSession
<1>3. Len(events') <= EventCapacity /\ EventsOK' /\ lagged' \in BOOLEAN
    BY <1>2, EmitKeeps
<1>4. DOMAIN running' \subseteq Ids /\ RunningOK'
    BY WithoutTypes DEF EndSession
<1>5. sessions' \subseteq Ids
    BY DEF EndSession, Typed, TypeOK
<1> QED
    BY <1>3, <1>4, <1>5

\* The nodes of a movement, in the order in which their ends are reported.
LEMMA ArriveEvents ==
    ASSUME Typed, NEW id \in DOMAIN running, Arrive(id)
    PROVE  \E list : /\ EndSession(id, list)
                     /\ list \o <<Finished(id)>> \in Seq(Events)
                     /\ Range(list \o <<Finished(id)>>) =
                            {RunStatus(id, n, "completed") : n \in running[id].nodes} \cup {Finished(id)}
<1>1. id \in Ids /\ running[id].nodes \in SUBSET Nodes
    BY DEF Typed, TypeOK, RunningOK, Sessions
<1>2. PICK nodes : nodes = running[id].nodes
    OBVIOUS
<1>3. IsFiniteSet(nodes) /\ nodes \in SUBSET Nodes
    BY <1>1, <1>2, NodesAssumption, FS_Subset
<1>4. DOMAIN SetToSeq(nodes) = 1..Cardinality(nodes)
    BY <1>3, SetToSeqElements
<1>5. PICK list : list = [j \in 1..Cardinality(nodes) |-> RunStatus(id, SetToSeq(nodes)[j], "completed")]
    OBVIOUS
<1>6. EndSession(id, list)
    BY <1>2, <1>4, <1>5 DEF Arrive
<1>7. /\ list \o <<Finished(id)>> \in Seq(Events)
      /\ Range(list \o <<Finished(id)>>) =
             {RunStatus(id, n, "completed") : n \in nodes} \cup {Finished(id)}
    BY <1>1, <1>3, <1>5, SessionEvents
<1> QED
    BY <1>2, <1>6, <1>7

\* The answer to a status request is about its node.
LEMMA ReportEvents ==
    ASSUME Typed, NEW id \in DOMAIN running, NEW known \in BOOLEAN, Report(id, known)
    PROVE  \E n \in Nodes, e \in Events :
               /\ running[id].nodes = {n} /\ id \in Ids /\ unseen' = unseen \ {n}
               /\ e = StatusReport(id, n, IF cover[n].at = cover[n].to THEN "completed" ELSE "active",
                                   IF known THEN cover[n].at ELSE NoFeedback)
               /\ EndSession(id, <<e>>)
               /\ <<e>> \o <<Finished(id)>> \in Seq(Events)
               /\ Range(<<e>> \o <<Finished(id)>>) = {e, Finished(id)}
<1>1. running[id] \in Sessions /\ ~running[id].moves /\ id \in Ids
    BY DEF Report, Movers, Typed, TypeOK, RunningOK
<1>2. PICK n \in Nodes : running[id].nodes = {n}
    BY <1>1 DEF Sessions
<1>3. (CHOOSE m \in running[id].nodes : TRUE) = n
    BY <1>2
<1>4. PICK run : run = IF cover[n].at = cover[n].to THEN "completed" ELSE "active"
    OBVIOUS
<1>5. PICK p : p = IF known THEN cover[n].at ELSE NoFeedback
    OBVIOUS
<1>6. PICK e : e = StatusReport(id, n, run, p)
    OBVIOUS
<1>7. EndSession(id, <<e>>) /\ unseen' = unseen \ {n}
    <2> DEFINE m == CHOOSE m \in running[id].nodes : TRUE
    <2>1. /\ EndSession(id, <<StatusReport(id, m, IF cover[m].at = cover[m].to THEN "completed" ELSE "active",
                                         IF known THEN cover[m].at ELSE NoFeedback)>>)
          /\ unseen' = unseen \ {m}
        BY DEF Report
    <2>2. m = n
        BY <1>3
    <2> HIDE DEF m
    <2>3. /\ EndSession(id, <<StatusReport(id, n, IF cover[n].at = cover[n].to THEN "completed" ELSE "active",
                                         IF known THEN cover[n].at ELSE NoFeedback)>>)
          /\ unseen' = unseen \ {n}
        BY <2>1, <2>2, Zenon
    <2> QED
        BY <1>4, <1>5, <1>6, <2>3
<1>8. run \in {"completed", "active"} /\ p \in Int
    BY <1>4, <1>5, ConstantTypes DEF Typed, TypeOK
<1>9. e \in Events /\ Finished(id) \in Events
    BY <1>1, <1>6, <1>8, EventTypes
<1>10. /\ <<e>> \in Seq(Events) /\ <<Finished(id)>> \in Seq(Events)
       /\ Range(<<e>>) = {e} /\ Range(<<Finished(id)>>) = {Finished(id)}
    BY <1>9, ShortRange
<1>11. /\ <<e>> \o <<Finished(id)>> \in Seq(Events)
       /\ Range(<<e>> \o <<Finished(id)>>) = {e, Finished(id)}
    <2>1. PICK a, b : a = <<e>> /\ b = <<Finished(id)>>
        OBVIOUS
    <2>2. a \o b \in Seq(Events) /\ Range(a \o b) = Range(a) \cup Range(b)
        <3>1. a \in Seq(Events) /\ b \in Seq(Events)
            BY <1>10, <2>1
        <3> QED
            BY <3>1, ConcatRange, ZenonT(60)
    <2> QED
        BY <1>10, <2>1, <2>2
<1> QED
    BY <1>1, <1>2, <1>4, <1>5, <1>6, <1>7, <1>9, <1>11

\* What the KLF reports of a movement by the remote control.
RemoteEvents(n, to) ==
    Failures(Overruled({n})) \o
        (IF monitor /\ phase # "offline" THEN <<StatePosition(n, cover[n].at, to)>> ELSE <<>>)

\* It is about the sessions that lose the node, and about the node if the KLF monitors.
LEMMA RemoteContent ==
    ASSUME Typed, NEW n \in Nodes, NEW to \in Places, RemoteMove(n, to)
    PROVE  /\ RemoteEvents(n, to) \in Seq(Events) /\ Emit(RemoteEvents(n, to))
           /\ Overruled({n}) \in SUBSET DOMAIN running
           /\ Range(RemoteEvents(n, to)) =
                  Range(Failures(Overruled({n}))) \cup
                      (IF monitor /\ phase # "offline" THEN {StatePosition(n, cover[n].at, to)} ELSE {})
<1>1. PICK gone : gone = Overruled({n})
    OBVIOUS
<1>2. gone \in SUBSET DOMAIN running
    BY <1>1 DEF Overruled, Movers
<1>3. PICK list : list = Failures(gone)
    OBVIOUS
<1>4. list \in Seq(Events)
    BY <1>2, <1>3, FailuresContent
<1>5. CASE monitor /\ phase # "offline"
    <2>1. PICK more : more = <<StatePosition(n, cover[n].at, to)>>
        OBVIOUS
    <2>2. cover[n].at \in Places
        BY DEF Typed, TypeOK
    <2>3. StatePosition(n, cover[n].at, to) \in Events
        BY <2>2, EventTypes
    <2>4. more \in Seq(Events) /\ Range(more) = {StatePosition(n, cover[n].at, to)}
        BY <2>1, <2>3, ShortRange
    <2>5. list \o more \in Seq(Events) /\ Range(list \o more) = Range(list) \cup Range(more)
        BY <1>4, <2>4, ConcatRange
    <2>6. RemoteEvents(n, to) = list \o more /\ Emit(list \o more)
        BY <1>1, <1>3, <1>5, <2>1 DEF RemoteMove, RemoteEvents
    <2> QED
        BY <1>1, <1>2, <1>3, <1>5, <2>4, <2>5, <2>6
<1>6. CASE ~ (monitor /\ phase # "offline")
    <2>1. list \o <<>> = list
        BY <1>4, ConcatEmptySeq
    <2>2. RemoteEvents(n, to) = list /\ Emit(list)
        BY <1>1, <1>3, <1>6, <2>1 DEF RemoteMove, RemoteEvents
    <2> QED
        BY <1>1, <1>2, <1>3, <1>4, <1>6, <2>2
<1> QED
    BY <1>5, <1>6

\* The steps of the KLF and of the actor keep the types.
LEMMA KlfTyped ==
    ASSUME Typed,
           \/ Klf
           \/ \E id \in sessions : SessionExpires(id)
           \/ \E n \in Nodes, to \in Places : RemoteMove(n, to)
    PROVE  Typed'
<1> DEFINE TaskType == [kind : {"none", "command", "group", "status", "query", "await"},
                        id : Ids \cup {0}, nodes : SUBSET Nodes, goal : MaybePosition,
                        reply : {"none", "accepted", "rejected", "failed"}]
<1>1. /\ phase \in {"offline", "setup", "running"} /\ todo \subseteq Nodes
      /\ task \in TaskType /\ TaskOK
      /\ ids \subseteq Ids /\ sessions \subseteq Ids /\ DOMAIN running \subseteq Ids /\ RunningOK
      /\ node \in [Nodes -> NodeStates]
      /\ Len(events) <= EventCapacity /\ EventsOK
      /\ cover \in [Nodes -> [at : Places, to : Places]]
      /\ lagged \in BOOLEAN /\ monitor \in BOOLEAN
    BY DEF Typed, TypeOK, NodeStates
<1> HIDE DEF TaskType
<1>2. (/\ phase' \in {"offline", "setup", "running"} /\ todo' \subseteq Nodes
       /\ task' \in TaskType /\ TaskOK'
       /\ ids' \subseteq Ids /\ sessions' \subseteq Ids /\ DOMAIN running' \subseteq Ids
       /\ RunningOK'
       /\ node' \in [Nodes -> NodeStates]
       /\ Len(events') <= EventCapacity /\ EventsOK'
       /\ cover' \in [Nodes -> [at : Places, to : Places]]
       /\ lagged' \in BOOLEAN /\ monitor' \in BOOLEAN) => Typed'
    BY DEF Typed, TypeOK, NodeStates, TaskType
<1>3. ASSUME UNCHANGED bridgeVars
      PROVE  /\ phase' \in {"offline", "setup", "running"} /\ todo' \subseteq Nodes
             /\ task' \in TaskType /\ TaskOK' /\ ids' \subseteq Ids /\ node' \in [Nodes -> NodeStates]
    BY <1>1, <1>3 DEF bridgeVars, TaskOK
<1>4. ASSUME UNCHANGED klfVars
      PROVE  /\ DOMAIN running' \subseteq Ids /\ RunningOK' /\ monitor' \in BOOLEAN
             /\ cover' \in [Nodes -> [at : Places, to : Places]]
    BY <1>1, <1>4 DEF klfVars, RunningOK
<1>5. ASSUME UNCHANGED eventVars
      PROVE  Len(events') <= EventCapacity /\ EventsOK' /\ lagged' \in BOOLEAN
    BY <1>1, <1>5 DEF eventVars, EventsOK
<1>6. CASE Accept
    <2>1. task' \in TaskType /\ TaskOK'
        BY <1>6, ReplyTypes DEF Accept, TaskType
    <2>2. /\ DOMAIN running' \subseteq Ids /\ RunningOK' /\ sessions' \subseteq Ids
          /\ cover' \in [Nodes -> [at : Places, to : Places]]
          /\ Len(events') <= EventCapacity /\ EventsOK' /\ lagged' \in BOOLEAN
        BY <1>6, BeginTypes DEF Accept
    <2> QED
        BY <1>1, <1>2, <1>6, <2>1, <2>2 DEF Accept
<1>7. CASE Reject
    <2>1. task' \in TaskType /\ TaskOK'
        BY <1>7, ReplyTypes DEF Reject, TaskType
    <2> QED
        BY <1>1, <1>2, <1>4, <1>5, <1>7, <2>1 DEF Reject
<1>8. CASE RequestExpires
    <2>1. task' \in TaskType /\ TaskOK'
        BY <1>8, ReplyTypes DEF RequestExpires, TaskType
    <2>2. CASE Begin({}) /\ UNCHANGED <<monitor, unseen>>
        <3>1. /\ DOMAIN running' \subseteq Ids /\ RunningOK' /\ sessions' \subseteq Ids
              /\ cover' \in [Nodes -> [at : Places, to : Places]]
              /\ Len(events') <= EventCapacity /\ EventsOK' /\ lagged' \in BOOLEAN
            BY <1>8, <2>2, BeginTypes DEF RequestExpires
        <3> QED
            BY <1>1, <1>2, <1>8, <2>1, <2>2, <3>1 DEF RequestExpires
    <2>3. CASE UNCHANGED <<eventVars, klfVars, sessions>>
        BY <1>1, <1>2, <1>4, <1>5, <1>8, <2>1, <2>3 DEF RequestExpires
    <2> QED
        BY <1>8, <2>2, <2>3 DEF RequestExpires
<1>9. ASSUME NEW n \in Nodes, NEW at \in Places, Travel(n, at)
      PROVE  Typed'
    <2>1. cover' \in [Nodes -> [at : Places, to : Places]]
        BY <1>1, <1>9 DEF Travel
    <2>2. Len(events') <= EventCapacity /\ EventsOK' /\ lagged' \in BOOLEAN
        <3>1. CASE monitor /\ phase # "offline"
            <4>1. StatePosition(n, at, cover[n].to) \in Events
                BY <1>1, EventTypes
            <4>2. PICK list : list = <<StatePosition(n, at, cover[n].to)>>
                OBVIOUS
            <4>3. list \in Seq(Events) /\ Emit(list)
                BY <1>9, <3>1, <4>1, <4>2 DEF Travel
            <4> QED
                BY <4>3, EmitKeeps
        <3>2. CASE ~ (monitor /\ phase # "offline")
            BY <1>5, <1>9, <3>2 DEF Travel
        <3> QED
            BY <3>1, <3>2
    <2> QED
        BY <1>1, <1>2, <1>3, <1>9, <2>1, <2>2 DEF Travel, RunningOK
<1>10. ASSUME NEW id \in DOMAIN running, Arrive(id)
       PROVE  Typed'
    <2>1. PICK list : EndSession(id, list) /\ list \o <<Finished(id)>> \in Seq(Events)
        BY <1>10, ArriveEvents
    <2>2. /\ DOMAIN running' \subseteq Ids /\ RunningOK' /\ sessions' \subseteq Ids
          /\ Len(events') <= EventCapacity /\ EventsOK' /\ lagged' \in BOOLEAN
        BY <2>1, EndTypes
    <2> QED
        BY <1>1, <1>2, <1>3, <1>10, <2>2 DEF Arrive
<1>11. ASSUME NEW id \in DOMAIN running, NEW known \in BOOLEAN, Report(id, known)
       PROVE  Typed'
    <2>1. PICK list : EndSession(id, list) /\ list \o <<Finished(id)>> \in Seq(Events)
        BY <1>11, ReportEvents
    <2>2. /\ DOMAIN running' \subseteq Ids /\ RunningOK' /\ sessions' \subseteq Ids
          /\ Len(events') <= EventCapacity /\ EventsOK' /\ lagged' \in BOOLEAN
        BY <2>1, EndTypes
    <2> QED
        BY <1>1, <1>2, <1>3, <1>11, <2>2 DEF Report
<1>12. ASSUME NEW id \in sessions, SessionExpires(id)
       PROVE  Typed'
    <2>1. TimedOut(id) \in Events
        BY <1>1, EventTypes
    <2>2. PICK list : list = <<TimedOut(id)>>
        OBVIOUS
    <2>3. list \in Seq(Events) /\ Emit(list)
        BY <1>12, <2>1, <2>2 DEF SessionExpires
    <2>4. Len(events') <= EventCapacity /\ EventsOK' /\ lagged' \in BOOLEAN
        BY <2>3, EmitKeeps
    <2> QED
        BY <1>1, <1>2, <1>3, <1>4, <1>12, <2>4 DEF SessionExpires
<1>13. ASSUME NEW n \in Nodes, NEW to \in Places, RemoteMove(n, to)
       PROVE  Typed'
    <2>1. cover' \in [Nodes -> [at : Places, to : Places]]
        BY <1>1, <1>13 DEF RemoteMove
    <2>2. PICK list : list = RemoteEvents(n, to)
        OBVIOUS
    <2>3. list \in Seq(Events) /\ Emit(list)
        BY <1>13, <2>2, RemoteContent
    <2>4. Len(events') <= EventCapacity /\ EventsOK' /\ lagged' \in BOOLEAN
        BY <2>3, EmitKeeps
    <2>5. PICK gone : gone = Overruled({n})
        OBVIOUS
    <2>6. DOMAIN running' \subseteq Ids /\ RunningOK'
        BY <1>13, <2>5, WithoutTypes DEF RemoteMove
    <2> QED
        BY <1>1, <1>2, <1>3, <1>13, <2>1, <2>4, <2>6 DEF RemoteMove
<1> QED
    BY <1>6, <1>7, <1>8, <1>9, <1>10, <1>11, <1>12, <1>13 DEF Klf

\* Every step keeps the types.
LEMMA TypedKept ==
    ASSUME Typed, [Next]_vars
    PROVE  Typed'
<1>1. CASE UNCHANGED vars
    BY <1>1 DEF vars, bridgeVars, eventVars, klfVars, Typed, TypeOK, RunningOK, TaskOK, EventsOK
<1> QED
    BY <1>1, BridgeTyped, KlfTyped DEF Next

\* Every variable has its type, the channel keeps to its capacity, and a position of
\* the cache is one: a parameter of the KLF that is none becomes unknown.
THEOREM TypeCorrect == Spec => []TypeOK
<1>1. Init => Typed
    BY InitTyped
<1>2. Typed /\ [Next]_vars => Typed'
    BY TypedKept
<1>3. Typed => TypeOK
    BY DEF Typed
<1> QED
    BY <1>1, <1>2, <1>3, PTL DEF Spec

-----------------------------------------------------------------------------
(***************************************************************************)
(* The phases of the bridge.                                               *)
(***************************************************************************)
\* A setup sends queries only; without a gateway nothing is left of the last one; and
\* the KLF does not know the identifier of a request it has not begun.
PhaseInv ==
    /\ task.kind \in {"query", "await"} => phase = "setup"
    /\ phase = "setup" => task.kind \in {"none", "query", "await"} /\ ~monitor
    /\ phase = "running" => monitor
    /\ phase = "offline" => task = NoTask /\ events = <<>> /\ DOMAIN running = {} /\ sessions = {}
    /\ InFlight => task.id \notin DOMAIN running

\* A sequence without elements.
LEMMA NoElements ==
    ASSUME NEW T, NEW s \in Seq(T), Range(s) = {}
    PROVE  s = <<>>
<1>1. Len(s) = 0
    <2>1. Len(s) # 0 => 1 \in DOMAIN s
        OBVIOUS
    <2> QED
        BY <2>1 DEF Range
<1> QED
    BY <1>1, EmptySeq

\* The KLF begins a request once.
LEMMA BegunOnce ==
    ASSUME Typed, PhaseInv, InFlight, task'.reply # "none", task'.kind = task.kind,
           UNCHANGED <<phase, monitor>>
    PROVE  PhaseInv'
BY DEF PhaseInv, InFlight, NoTask

\* Sessions end: nothing is known that was not.
LEMMA FewerSessions ==
    ASSUME Typed, PhaseInv, DOMAIN running' \subseteq DOMAIN running, UNCHANGED <<phase, task, monitor>>,
           phase = "offline" => events' = <<>> /\ sessions' \subseteq sessions
    PROVE  PhaseInv'
BY DEF PhaseInv, InFlight

\* Every step keeps the phases.
LEMMA PhaseKept ==
    ASSUME Typed, PhaseInv, [Next]_vars
    PROVE  PhaseInv'
<1>0. NoTask.kind = "none" /\ \A id, nodes, goal, reply :
          [kind |-> "await", id |-> id, nodes |-> nodes, goal |-> goal, reply |-> reply].kind = "await"
    BY DEF NoTask
<1>1. ASSUME NEW kind \in {"command", "group", "status", "query"}, NEW nodes, NEW goal,
             Send(kind, nodes, goal), UNCHANGED <<phase, monitor, running>>,
             IF kind = "query" THEN phase = "setup" ELSE phase = "running"
      PROVE  PhaseInv'
    <2>1. PICK id \in Fresh :
              task' = [kind |-> kind, id |-> id, nodes |-> nodes, goal |-> goal, reply |-> "none"]
        BY <1>1, SendFresh
    <2>2. id \notin DOMAIN running
        BY DEF Fresh
    <2>3. task'.kind = kind /\ task'.id = id
        BY <2>1
    <2> QED
        BY <1>1, <2>2, <2>3 DEF PhaseInv, InFlight
<1>2. ASSUME task' = NoTask, UNCHANGED <<phase, monitor, running, sessions>>,
             phase = "offline" => UNCHANGED events
      PROVE  PhaseInv'
    BY <1>0, <1>2 DEF PhaseInv, InFlight
<1>3. ASSUME GoOffline
      PROVE  PhaseInv'
    <2>1. DOMAIN running' = {}
        BY <1>3 DEF GoOffline
    <2> QED
        BY <1>0, <1>3, <2>1 DEF GoOffline, PhaseInv, InFlight
<1>4. CASE UNCHANGED vars
    BY <1>4 DEF vars, bridgeVars, eventVars, klfVars, PhaseInv, InFlight
<1>5. CASE Reconnect
    BY <1>0, <1>5 DEF Reconnect, PhaseInv, InFlight
<1>6. ASSUME NEW n \in Nodes, QueryStatus(n)
      PROVE  PhaseInv'
    BY <1>1, <1>6 DEF QueryStatus, klfVars
<1>7. CASE AwaitEvent
    <2>1. CASE task' = NoTask
        BY <1>2, <1>7, <2>1 DEF AwaitEvent, klfVars, PhaseInv
    <2>2. CASE task' = task
        BY <1>7, <2>2 DEF AwaitEvent, klfVars, PhaseInv, InFlight
    <2> QED
        BY <1>7, <2>1, <2>2 DEF AwaitEvent
<1>8. CASE AwaitFails
    BY <1>2, <1>8 DEF AwaitFails, klfVars
<1>9. CASE EnableMonitor
    BY <1>0, <1>9 DEF EnableMonitor, PhaseInv, InFlight
<1>10. CASE Confirmed
    <2>1. CASE task.kind = "query"
        <3>1. task'.kind = "await"
            BY <1>10, <2>1 DEF Confirmed, Typed, TypeOK
        <3> QED
            BY <1>0, <1>10, <2>1, <3>1 DEF Confirmed, klfVars, eventVars, PhaseInv, InFlight
    <2>2. CASE task.kind # "query"
        BY <1>2, <1>10, <2>2 DEF Confirmed, klfVars, eventVars
    <2> QED
        BY <2>1, <2>2
<1>11. CASE Refused
    BY <1>2, <1>11 DEF Refused, klfVars, eventVars
<1>12. CASE ReceiveEvent
    BY <1>12 DEF ReceiveEvent, Idle, klfVars, PhaseInv, InFlight
<1>13. CASE ReceiveLagged \/ Lost
    BY <1>3, <1>13 DEF ReceiveLagged, Lost
<1>14. ASSUME NEW n \in Nodes, RequestStatus(n)
       PROVE  PhaseInv'
    BY <1>1, <1>14 DEF RequestStatus, klfVars
<1>15. CASE Refresh
    BY <1>15 DEF Refresh, klfVars, eventVars, PhaseInv, InFlight
<1>16. ASSUME NEW message \in Messages, HandleMqttMessage(message)
       PROVE  PhaseInv'
    <2>1. CASE message.target = TheGroup
        BY <1>1, <1>16, <2>1 DEF HandleMqttMessage, GroupCommand, Idle, klfVars
    <2>2. CASE message.target # TheGroup
        <3>1. PICK n, goal, kind : /\ goal = ResolveAction(node[n], message.action)
                                   /\ kind = (IF goal = Unknown THEN "status" ELSE "command")
                                   /\ CoverCommand(n, message.action)
            BY <1>16, <2>2 DEF HandleMqttMessage
        <3>2. /\ Send(kind, {n}, goal) /\ kind \in {"command", "status"} /\ phase = "running"
              /\ UNCHANGED <<phase, monitor, running>>
            BY <3>1 DEF CoverCommand, Idle, klfVars
        <3> QED
            BY <1>1, <3>2
    <2> QED
        BY <2>1, <2>2
<1>17. ASSUME InFlight, NEW reply \in {"accepted", "rejected", "failed"},
              task' = [task EXCEPT !.reply = reply], UNCHANGED <<phase, monitor>>
       PROVE  PhaseInv'
    <2>1. task'.reply = reply /\ task'.kind = task.kind
        BY <1>17 DEF Typed, TypeOK
    <2> QED
        BY <1>17, <2>1, BegunOnce
<1>18. CASE Accept
    BY <1>17, <1>18 DEF Accept
<1>19. CASE Reject
    BY <1>17, <1>19 DEF Reject, klfVars
<1>20. CASE RequestExpires
    <2>1. UNCHANGED <<phase, monitor>>
        BY <1>20 DEF RequestExpires, klfVars
    <2> QED
        BY <1>17, <1>20, <2>1 DEF RequestExpires
<1>21. ASSUME NEW n \in Nodes, NEW at \in Places, Travel(n, at)
       PROVE  PhaseInv'
    <2>1. /\ UNCHANGED <<phase, task, monitor, running, sessions>>
          /\ (phase = "offline" => UNCHANGED eventVars)
        BY <1>21 DEF Travel, bridgeVars
    <2> QED
        BY <2>1, FewerSessions DEF eventVars, PhaseInv
<1>22. ASSUME NEW id \in DOMAIN running,
              Arrive(id) \/ \E known \in BOOLEAN : Report(id, known)
       PROVE  PhaseInv'
    <2>1. PICK list : EndSession(id, list)
        BY <1>22 DEF Arrive, Report
    <2>2. DOMAIN running' \subseteq DOMAIN running
        BY <2>1, WithoutTypes DEF EndSession
    <2>3. UNCHANGED <<phase, task, monitor>>
        BY <1>22 DEF Arrive, Report, bridgeVars
    <2>4. phase # "offline"
        BY DEF PhaseInv
    <2> QED
        BY <2>2, <2>3, <2>4, FewerSessions
<1>23. ASSUME NEW id \in sessions, SessionExpires(id)
       PROVE  PhaseInv'
    <2>1. phase # "offline" /\ UNCHANGED <<phase, task, monitor, running>>
        BY <1>23 DEF PhaseInv, SessionExpires, bridgeVars, klfVars
    <2> QED
        BY <2>1, FewerSessions
<1>24. ASSUME NEW n \in Nodes, NEW to \in Places, RemoteMove(n, to)
       PROVE  PhaseInv'
    <2>1. PICK list : list = RemoteEvents(n, to)
        OBVIOUS
    <2>2. list \in Seq(Events) /\ Emit(list)
        BY <1>24, <2>1, RemoteContent
    <2>3. EventsOK' /\ Range(events') \subseteq Range(events) \cup Range(list)
        BY <2>2, EmitKeeps
    <2>4. ASSUME phase = "offline"
          PROVE  events' = <<>> /\ sessions' \subseteq sessions
        <3>1. Overruled({n}) = {} /\ events = <<>>
            BY <2>4 DEF PhaseInv, Overruled, Movers
        <3>2. PICK gone : gone = Overruled({n})
            OBVIOUS
        <3>3. Range(Failures(gone)) = {}
            <4>1. gone \in SUBSET DOMAIN running /\ gone = {}
                BY <3>1, <3>2
            <4> QED
                BY <4>1, FailuresContent
        <3>4. Range(list) = {}
            BY <1>24, <2>1, <2>4, <3>2, <3>3, RemoteContent
        <3>5. Range(events') = {} /\ events' \in Seq(Events)
            BY <2>3, <3>1, <3>4, ShortRange DEF EventsOK
        <3> QED
            BY <1>24, <3>5, NoElements DEF RemoteMove
    <2>5. PICK gone : gone = Overruled({n})
        OBVIOUS
    <2>6. DOMAIN running' \subseteq DOMAIN running
        BY <1>24, <2>5, WithoutTypes DEF RemoteMove
    <2> QED
        BY <1>24, <2>4, <2>6, FewerSessions DEF RemoteMove, bridgeVars
<1> QED
    BY <1>4, <1>5, <1>6, <1>7, <1>8, <1>9, <1>10, <1>11, <1>12, <1>13, <1>14, <1>15, <1>16,
       <1>18, <1>19, <1>20, <1>21, <1>22, <1>23, <1>24 DEF Next, Bridge, Klf

-----------------------------------------------------------------------------
(***************************************************************************)
(* Session identifiers.                                                    *)
(***************************************************************************)
Open == IF task.kind # "await" /\ task.reply # "accepted" THEN {task.id} ELSE {}

\* Unlike IdsAccounted this speaks of a setup with a lagging channel too: AwaitFails
\* forgives the lag.  An identifier that was confirmed is no longer the task's.
Accounted ==
    (phase = "setup" \/ (phase = "running" /\ ~lagged)) =>
        ids \subseteq sessions \cup leaked \cup Ended(events) \cup Open

\* The end of a session names it.
LEMMA FinishedEnds ==
    ASSUME NEW list, NEW gone, \A id \in gone : Finished(id) \in Range(list)
    PROVE  gone \subseteq Ended(list)
<1> SUFFICES ASSUME NEW id \in gone
             PROVE  id \in Ended(list)
    OBVIOUS
<1>1. Ends(Finished(id)) /\ Finished(id).id = id /\ Finished(id) \in Range(list)
    BY DEF Finished, Event, Ends
<1>2. PICK e : e = Finished(id)
    OBVIOUS
<1>3. Ends(e) /\ e.id = id /\ e \in Range(list)
    BY <1>1, <1>2
<1> QED
    BY <1>3 DEF Ended

\* The ends of the sessions that are given up are among the new events.
LEMMA EmitAccounts ==
    ASSUME Typed, Accounted, NEW list \in Seq(Events), Emit(list),
           sessions \subseteq sessions' \cup Ended(list), Open \subseteq Open' \cup sessions',
           UNCHANGED <<phase, ids>>
    PROVE  Accounted'
<1> SUFFICES ASSUME phase = "setup" \/ (phase = "running" /\ ~lagged')
             PROVE  ids \subseteq sessions' \cup leaked' \cup Ended(events') \cup Open'
    BY DEF Accounted, Ended, Open
<1>1. Ended(events) \cup Ended(list) \cup leaked \subseteq Ended(events') \cup leaked'
    BY EmitKeeps
<1>2. phase = "setup" \/ (phase = "running" /\ ~lagged)
    BY EmitKeeps
<1>3. ids \subseteq sessions \cup leaked \cup Ended(events) \cup Open
    BY <1>2 DEF Accounted
<1> QED
    BY <1>1, <1>3

\* Nothing happens to the events.
LEMMA SameAccounts ==
    ASSUME Typed, Accounted, UNCHANGED <<phase, lagged, leaked, events, sessions>>,
           ids' \ ids \subseteq Open', (Open \cap ids') \subseteq Open' \cup sessions
    PROVE  Accounted'
<1>1. Ended(events') = Ended(events)
    OBVIOUS
<1> QED
    BY <1>1 DEF Accounted, Ended, Open

\* A new request is open.
LEMMA SendAccounts ==
    ASSUME Typed, Accounted, NEW kind, NEW nodes, NEW goal, Send(kind, nodes, goal), kind # "await",
           task = NoTask, UNCHANGED <<phase, eventVars, sessions>>
    PROVE  Accounted'
<1>1. PICK id \in Fresh :
          /\ ids' = ids \cup {id} /\ id # 0
          /\ task' = [kind |-> kind, id |-> id, nodes |-> nodes, goal |-> goal, reply |-> "none"]
    BY SendFresh, ConstantTypes
<1>2. Open' = {id} /\ Open = {0}
    BY <1>1 DEF Open, NoTask
<1>3. 0 \notin ids'
    BY <1>1, ConstantTypes DEF Typed, TypeOK
<1>4. ids' \ ids \subseteq Open' /\ Open \cap ids' \subseteq Open' \cup sessions
    BY <1>1, <1>2, <1>3
<1> QED
    BY <1>4, SameAccounts DEF eventVars

\* The event that is read releases the identifier whose end it is.
LEMMA ReadAccounts ==
    ASSUME Typed, Accounted, events # <<>>, Handle(Head(events)), events' = Tail(events),
           UNCHANGED <<phase, lagged, leaked, sessions>>, Open \cap ids' \subseteq Open'
    PROVE  Accounted'
<1>1. PICK e, rest : e = Head(events) /\ rest = Tail(events)
    OBVIOUS
<1>2. e \in Events /\ rest \in Seq(Events) /\ events = <<e>> \o rest
    BY <1>1, ReadTypes
<1>3. Range(events) = {e} \cup Range(rest)
    <2>1. PICK one : one = <<e>>
        OBVIOUS
    <2>2. one \in Seq(Events) /\ Range(one) = {e}
        BY <1>2, <2>1, ShortRange
    <2>3. Range(one \o rest) = Range(one) \cup Range(rest)
        BY <1>2, <2>2, ConcatRange
    <2> QED
        BY <1>2, <2>1, <2>2, <2>3
<1>4. Ended(events) \subseteq Ended(events') \cup (IF Ends(e) THEN {e.id} ELSE {})
    <2>1. Range(events') = Range(rest)
        BY <1>1
    <2> QED
        BY <1>3, <2>1 DEF Ended
<1>5. ids' = IF Ends(e) THEN ids \ {e.id} ELSE ids
    BY <1>1 DEF Handle
<1> SUFFICES ASSUME phase = "setup" \/ (phase = "running" /\ ~lagged)
             PROVE  ids' \subseteq sessions \cup leaked \cup Ended(events') \cup Open'
    BY DEF Accounted, Ended, Open
<1>6. ids \subseteq sessions \cup leaked \cup Ended(events) \cup Open
    BY DEF Accounted
<1> QED
    BY <1>4, <1>5, <1>6

\* The work that the KLF begins: what it overrules has ended.
LEMMA BeginAccounts ==
    ASSUME Typed, Accounted, InFlight, NEW reply \in {"accepted", "failed"},
           NEW confirmed \in SUBSET {task.id}, Begin(confirmed), UNCHANGED <<phase, ids>>,
           task' = [task EXCEPT !.reply = reply], reply = "accepted" => confirmed = {task.id}
    PROVE  Accounted'
<1> DEFINE gone == IF task.kind \in {"command", "group"} THEN Overruled(task.nodes) ELSE {}
<1>1. /\ gone \in SUBSET DOMAIN running /\ Emit(Failures(gone))
      /\ sessions' = (sessions \ gone) \cup confirmed
    BY DEF Begin, Overruled, Movers
<1> HIDE DEF gone
<1>2. PICK list : list = Failures(gone)
    OBVIOUS
<1>3. list \in Seq(Events) /\ Emit(list)
    BY <1>1, <1>2, FailuresContent
<1>4. \A id \in gone : Finished(id) \in Range(list)
    BY <1>1, <1>2, FailuresContent
<1>5. gone \subseteq Ended(list)
    BY <1>4, FinishedEnds
<1>6. /\ Open = {task.id} /\ task'.id = task.id /\ task'.kind = task.kind /\ task'.reply = reply
    BY DEF Open, InFlight, Typed, TypeOK
<1>7. Open \subseteq Open' \cup sessions'
    BY <1>1, <1>6 DEF Open, InFlight
<1>8. sessions \subseteq sessions' \cup Ended(list)
    BY <1>1, <1>5
<1> QED
    BY <1>3, <1>7, <1>8, EmitAccounts

\* Every step keeps the account.
LEMMA AccountsKept ==
    ASSUME Typed, PhaseInv, Accounted, [Next]_vars
    PROVE  Accounted'
<1>0. /\ NoTask.kind = "none" /\ NoTask.id = 0 /\ NoTask.reply = "none" /\ 0 \notin ids
      /\ ids \subseteq Ids
    BY ConstantTypes DEF NoTask, Typed, TypeOK
<1>1. CASE UNCHANGED vars
    BY <1>1 DEF vars, bridgeVars, eventVars, Accounted, Ended, Open
<1>2. CASE Reconnect
    BY <1>2 DEF Reconnect, Accounted
<1>3. ASSUME NEW n \in Nodes, QueryStatus(n)
      PROVE  Accounted'
    BY <1>3, SendAccounts DEF QueryStatus
<1>4. CASE AwaitEvent
    <2>1. Open = {}
        BY <1>4 DEF AwaitEvent, Open
    <2> QED
        BY <1>4, <2>1, ReadAccounts DEF AwaitEvent
<1>5. CASE AwaitFails
    <2>1. Open = {} /\ phase = "setup"
        BY <1>5 DEF AwaitFails, Open, PhaseInv
    <2>2. Ended(events') = Ended(events)
        BY <1>5 DEF AwaitFails
    <2> QED
        BY <1>5, <2>1, <2>2 DEF AwaitFails, Accounted, Ended
<1>6. CASE EnableMonitor
    BY <1>6 DEF EnableMonitor, eventVars, Accounted, Ended, Open
<1>7. CASE Confirmed
    <2>1. Open = {}
        BY <1>7 DEF Confirmed, Open
    <2> QED
        BY <1>7, <2>1, SameAccounts DEF Confirmed, eventVars
<1>8. CASE Refused
    <2>1. Open \subseteq {task.id} /\ ids' = ids \ {task.id}
        BY <1>8 DEF Refused, Open
    <2>2. ids' \ ids = {} /\ Open \cap ids' = {}
        BY <2>1
    <2> QED
        BY <1>8, <2>2, SameAccounts DEF Refused, eventVars
<1>9. CASE ReceiveEvent
    <2>1. Open' = Open
        BY <1>9 DEF ReceiveEvent, Open
    <2> QED
        BY <1>9, <2>1, ReadAccounts DEF ReceiveEvent
<1>10. CASE ReceiveLagged \/ Lost
    BY <1>10 DEF ReceiveLagged, Lost, GoOffline, Accounted
<1>11. ASSUME NEW n \in Nodes, RequestStatus(n)
       PROVE  Accounted'
    BY <1>11, SendAccounts DEF RequestStatus
<1>12. CASE Refresh
    BY <1>12 DEF Refresh, eventVars, Accounted, Ended, Open
<1>13. ASSUME NEW message \in Messages, HandleMqttMessage(message)
       PROVE  Accounted'
    <2>1. CASE message.target = TheGroup
        BY <1>13, <2>1, SendAccounts DEF HandleMqttMessage, GroupCommand, Idle
    <2>2. CASE message.target # TheGroup
        <3>1. PICK n, goal, kind : /\ goal = ResolveAction(node[n], message.action)
                                   /\ kind = (IF goal = Unknown THEN "status" ELSE "command")
                                   /\ CoverCommand(n, message.action)
            BY <1>13, <2>2 DEF HandleMqttMessage
        <3>2. PICK nodes : nodes = {n}
            OBVIOUS
        <3>3. /\ Send(kind, nodes, goal) /\ kind # "await" /\ task = NoTask
              /\ UNCHANGED <<phase, eventVars, sessions>>
            BY <3>1, <3>2 DEF CoverCommand, Idle
        <3> QED
            BY <3>3, SendAccounts
    <2> QED
        BY <2>1, <2>2
<1>14. CASE Accept
    BY <1>14, BeginAccounts DEF Accept
<1>15. ASSUME NEW reply \in {"rejected", "failed"}, InFlight, task' = [task EXCEPT !.reply = reply],
              UNCHANGED <<phase, ids, eventVars, sessions>>
       PROVE  Accounted'
    <2>1. /\ task'.id = task.id /\ task'.kind = task.kind /\ task'.reply = reply
        BY <1>15 DEF Typed, TypeOK
    <2>2. Open' = Open
        BY <1>15, <2>1 DEF Open, InFlight
    <2> QED
        BY <1>15, <2>2, SameAccounts DEF eventVars
<1>16. CASE Reject
    BY <1>15, <1>16 DEF Reject
<1>17. CASE RequestExpires
    <2>1. CASE Begin({}) /\ UNCHANGED <<monitor, unseen>>
        <3>1. PICK none : none = {}
            OBVIOUS
        <3>2. none \in SUBSET {task.id} /\ Begin(none)
            BY <2>1, <3>1
        <3> QED
            BY <1>17, <3>2, BeginAccounts DEF RequestExpires
    <2>2. CASE UNCHANGED <<eventVars, klfVars, sessions>>
        BY <1>15, <1>17, <2>2 DEF RequestExpires
    <2> QED
        BY <1>17, <2>1, <2>2 DEF RequestExpires
<1>18. ASSUME NEW n \in Nodes, NEW at \in Places, Travel(n, at)
       PROVE  Accounted'
    <2>1. UNCHANGED <<phase, ids, task, sessions>> /\ Open' = Open
        BY <1>18 DEF Travel, bridgeVars, Open
    <2>2. CASE monitor /\ phase # "offline"
        <3>1. cover[n].to \in Places
            BY DEF Typed, TypeOK
        <3>2. PICK list : list = <<StatePosition(n, at, cover[n].to)>>
            OBVIOUS
        <3>3. list \in Seq(Events) /\ Emit(list)
            BY <1>18, <2>2, <3>1, <3>2, EventTypes DEF Travel
        <3> QED
            BY <2>1, <3>3, EmitAccounts
    <2>3. CASE ~ (monitor /\ phase # "offline")
        BY <1>18, <2>1, <2>3, SameAccounts DEF Travel, eventVars
    <2> QED
        BY <2>2, <2>3
<1>19. ASSUME NEW id \in DOMAIN running, NEW list, EndSession(id, list), UNCHANGED bridgeVars,
              list \o <<Finished(id)>> \in Seq(Events),
              Finished(id) \in Range(list \o <<Finished(id)>>)
       PROVE  Accounted'
    <2>1. PICK all : all = list \o <<Finished(id)>>
        OBVIOUS
    <2>2. all \in Seq(Events) /\ Emit(all) /\ sessions' = sessions \ {id}
        BY <1>19, <2>1 DEF EndSession
    <2>3. id \in Ended(all)
        BY <1>19, <2>1 DEF Ended, Finished, Event, Ends
    <2>4. sessions \subseteq sessions' \cup Ended(all)
        BY <2>2, <2>3
    <2>5. UNCHANGED <<phase, ids>> /\ Open' = Open
        BY <1>19 DEF bridgeVars, Open
    <2> QED
        BY <2>2, <2>4, <2>5, EmitAccounts
<1>20. ASSUME NEW id \in DOMAIN running, Arrive(id)
       PROVE  Accounted'
    <2>1. PICK list : /\ EndSession(id, list)
                      /\ list \o <<Finished(id)>> \in Seq(Events)
                      /\ Finished(id) \in Range(list \o <<Finished(id)>>)
        BY <1>20, ArriveEvents
    <2> QED
        BY <1>19, <1>20, <2>1 DEF Arrive
<1>21. ASSUME NEW id \in DOMAIN running, NEW known \in BOOLEAN, Report(id, known)
       PROVE  Accounted'
    <2>1. PICK list : /\ EndSession(id, list)
                      /\ list \o <<Finished(id)>> \in Seq(Events)
                      /\ Finished(id) \in Range(list \o <<Finished(id)>>)
        BY <1>21, ReportEvents
    <2> QED
        BY <1>19, <1>21, <2>1 DEF Report
<1>22. ASSUME NEW id \in sessions, SessionExpires(id)
       PROVE  Accounted'
    <2>1. TimedOut(id) \in Events
        BY EventTypes DEF Typed, TypeOK
    <2>2. PICK list : list = <<TimedOut(id)>>
        OBVIOUS
    <2>3. list \in Seq(Events) /\ Emit(list) /\ sessions' = sessions \ {id}
        BY <1>22, <2>1, <2>2 DEF SessionExpires
    <2>4. id \in Ended(list)
        <3>1. TimedOut(id) \in Range(list)
            BY <2>2, ShortRange
        <3> QED
            BY <3>1 DEF Ended, TimedOut, Event, Ends
    <2>5. sessions \subseteq sessions' \cup Ended(list)
        BY <2>3, <2>4
    <2>6. UNCHANGED <<phase, ids>> /\ Open' = Open
        BY <1>22 DEF SessionExpires, bridgeVars, Open
    <2> QED
        BY <2>3, <2>5, <2>6, EmitAccounts
<1>23. ASSUME NEW n \in Nodes, NEW to \in Places, RemoteMove(n, to)
       PROVE  Accounted'
    <2>1. PICK list, gone : list = RemoteEvents(n, to) /\ gone = Overruled({n})
        OBVIOUS
    <2>2. /\ list \in Seq(Events) /\ Emit(list) /\ gone \in SUBSET DOMAIN running
          /\ Range(Failures(gone)) \subseteq Range(list)
        BY <1>23, <2>1, RemoteContent
    <2>3. \A id \in gone : Finished(id) \in Range(list)
        BY <2>2, FailuresContent
    <2>4. gone \subseteq Ended(list)
        BY <2>3, FinishedEnds
    <2>5. sessions' = sessions \ gone /\ UNCHANGED <<phase, ids>> /\ Open' = Open
        BY <1>23, <2>1 DEF RemoteMove, bridgeVars, Open
    <2>6. sessions \subseteq sessions' \cup Ended(list)
        BY <2>4, <2>5
    <2> QED
        BY <2>2, <2>5, <2>6, EmitAccounts
<1> QED
    BY <1>1, <1>2, <1>3, <1>4, <1>5, <1>6, <1>7, <1>8, <1>9, <1>10, <1>11, <1>12, <1>13, <1>14,
       <1>16, <1>17, <1>18, <1>20, <1>21, <1>22, <1>23 DEF Next, Bridge, Klf

\* The first state.
LEMMA InitPhase ==
    ASSUME Init
    PROVE  PhaseInv /\ Accounted
<1>1. DOMAIN running = {}
    BY DEF Init
<1> QED
    BY <1>1 DEF Init, PhaseInv, Accounted, InFlight, NoTask

\* No session identifier is lost, whatever becomes of its session: overruled, refused,
\* not confirmed, timed out, or its end overwritten.
THEOREM NoIdIsLost == Spec => []IdsAccounted
<1>1. Init => Typed /\ PhaseInv /\ Accounted
    BY InitTyped, InitPhase
<1>2. Typed /\ PhaseInv /\ Accounted /\ [Next]_vars => (Typed /\ PhaseInv /\ Accounted)'
    BY TypedKept, PhaseKept, AccountsKept
<1>3. Typed /\ PhaseInv /\ Accounted => IdsAccounted
    <2> SUFFICES ASSUME Typed, Accounted, phase # "offline", ~lagged
                 PROVE  ids \subseteq sessions \cup {task.id} \cup leaked \cup Ended(events)
        BY DEF IdsAccounted, Ended
    <2>1. phase = "setup" \/ phase = "running"
        BY DEF Typed, TypeOK
    <2>2. Open \subseteq {task.id}
        BY DEF Open
    <2> QED
        BY <2>1, <2>2 DEF Accounted
<1> QED
    BY <1>1, <1>2, <1>3, PTL DEF Spec

-----------------------------------------------------------------------------
(***************************************************************************)
(* Covers that no session works on.  What the bridge will believe of one   *)
(* is decided by the last event about it that waits in the channel.        *)
(***************************************************************************)
About(n) == {e \in Events : n \in e.nodes}
On(q, n) == Range(q) \cap About(n)

\* A node, and an event, that say nothing wrong of a cover: where it is, and if they say
\* that it moves, then it does and to this place.
FineNode(v, c) ==
    /\ v.current \in {Unknown, c.at}
    /\ v.op = "executing" => c.at # c.to /\ v.target = c.to
FineEvent(e, c) ==
    /\ RelativePosition(e.value.current) \in {Unknown, c.at}
    /\ (e.type \in {"status", "state_position"} /\ e.value.op \in {"active", "executing"}) =>
           c.at # c.to /\ RelativePosition(e.value.target) = c.to

\* The bridge will know, once it has read what waits.
Heard(q, v, n, c) == IF On(q, n) = {} THEN FineNode(v, c) ELSE FineEvent(LastIn(q, About(n)), c)

\* An event that is right makes a node right.
LEMMA FineApplied ==
    ASSUME NEW v \in NodeStates, NEW e \in Events, ~Ends(e), NEW c, FineEvent(e, c)
    PROVE  FineNode(Applied(v, e), c)
<1>1. RelativePosition(e.value.current) \in {Unknown, c.at}
    BY DEF FineEvent
<1>2. PICK w : w = Applied(v, e)
    OBVIOUS
<1>3. CASE e.type = "state_position"
    <2>1. /\ w.op = e.value.op /\ w.current = RelativePosition(e.value.current)
          /\ w.target = RelativePosition(e.value.target)
        BY <1>2, <1>3 DEF Applied, NodeState
    <2> QED
        BY <1>1, <1>2, <1>3, <2>1 DEF FineNode, FineEvent
<1>4. CASE e.type = "status"
    <2>1. /\ w.op = FromRunStatus(e.value.op) /\ w.current = RelativePosition(e.value.current)
          /\ w.target = RelativePosition(e.value.target)
        BY <1>2, <1>4 DEF Applied, NodeState
    <2>2. e.value.op \in {"completed", "active"}
        BY <1>4 DEF Events
    <2>3. w.op = "executing" => e.value.op = "active"
        BY <2>1, <2>2 DEF FromRunStatus
    <2> QED
        BY <1>1, <1>2, <1>4, <2>1, <2>3 DEF FineNode, FineEvent
<1>5. CASE e.type = "run_status"
    <2>1. w.op = FromRunStatus(e.value.op) /\ w.current = RelativePosition(e.value.current)
        BY <1>2, <1>5 DEF Applied, NodeStates
    <2>2. e.value.op \in {"completed", "failed"}
        BY <1>5 DEF Events
    <2>3. w.op \in {"done", "execution_error"}
        BY <2>1, <2>2 DEF FromRunStatus
    <2> QED
        BY <1>1, <1>2, <2>1, <2>3 DEF FineNode
<1> QED
    BY <1>3, <1>4, <1>5 DEF Events, Ends

\* A node of which nothing is known.
LEMMA FineUnknown == \A c : FineNode(StatusUnknown, c)
<1>1. PICK v : v = StatusUnknown
    OBVIOUS
<1>2. v.op = "unknown" /\ v.current = Unknown
    BY <1>1 DEF StatusUnknown, NodeState
<1> QED
    BY <1>1, <1>2 DEF FineNode

\* More events arrive: if one of them is about the node, the last of them counts.
LEMMA HeardMore ==
    ASSUME NEW q \in Seq(Events), NEW list \in Seq(Events), NEW v, NEW n, NEW c,
           \A e \in On(list, n) : FineEvent(e, c),
           On(list, n) = {} => Heard(q, v, n, c)
    PROVE  Heard(q \o list, v, n, c)
<1>1. On(q \o list, n) = On(q, n) \cup On(list, n)
    BY ConcatRange DEF On
<1>2. PICK S : S = About(n)
    OBVIOUS
<1>3. /\ Range(list) \cap S # {} => LastIn(q \o list, S) = LastIn(list, S)
      /\ Range(list) \cap S = {} /\ Range(q) \cap S # {} => LastIn(q \o list, S) = LastIn(q, S)
    BY LastInConcat
<1>4. CASE On(list, n) # {}
    <2>1. LastIn(list, S) \in Range(list) \cap S
        BY <1>2, <1>4, LastInElement DEF On
    <2> QED
        BY <1>1, <1>2, <1>3, <1>4, <2>1 DEF On, Heard
<1>5. CASE On(list, n) = {}
    BY <1>1, <1>2, <1>3, <1>5 DEF On, Heard
<1> QED
    BY <1>4, <1>5

\* The bridge reads the first event.
LEMMA HeardRead ==
    ASSUME NEW e \in Events, NEW rest \in Seq(Events), NEW v \in NodeStates, NEW n, NEW c,
           Heard(<<e>> \o rest, v, n, c)
    PROVE  Heard(rest, IF n \in e.nodes THEN Applied(v, e) ELSE v, n, c)
<1>1. PICK one : one = <<e>>
    OBVIOUS
<1>2. one \in Seq(Events) /\ Range(one) = {e}
    BY <1>1, ShortRange
<1>3. On(one \o rest, n) = On(one, n) \cup On(rest, n)
    BY <1>2, ConcatRange DEF On
<1>4. PICK S : S = About(n)
    OBVIOUS
<1>5. /\ Range(rest) \cap S # {} => LastIn(one \o rest, S) = LastIn(rest, S)
      /\ Range(rest) \cap S = {} /\ Range(one) \cap S # {} => LastIn(one \o rest, S) = LastIn(one, S)
    BY <1>2, LastInConcat
<1>6. Heard(one \o rest, v, n, c)
    BY <1>1
<1>7. CASE On(rest, n) # {}
    BY <1>3, <1>4, <1>5, <1>6, <1>7 DEF On, Heard
<1>8. CASE On(rest, n) = {} /\ n \in e.nodes
    <2>1. On(one, n) # {} /\ ~Ends(e)
        BY <1>2, <1>8 DEF On, About, Events
    <2>2. LastIn(one, S) \in Range(one) \cap S
        BY <1>2, <1>4, <2>1, LastInElement DEF On
    <2>3. LastIn(one, S) = e
        BY <1>2, <2>2
    <2>4. FineEvent(e, c)
        BY <1>3, <1>4, <1>5, <1>6, <1>8, <2>1, <2>3 DEF On, Heard
    <2>5. FineNode(Applied(v, e), c)
        BY <2>1, <2>4, FineApplied
    <2> QED
        BY <1>8, <2>5 DEF Heard
<1>9. CASE On(rest, n) = {} /\ n \notin e.nodes
    <2>1. On(one, n) = {}
        BY <1>2, <1>9 DEF On, About
    <2> QED
        BY <1>3, <1>6, <1>9, <2>1 DEF Heard
<1> QED
    BY <1>7, <1>8, <1>9

Busy(n) == \E id \in DOMAIN running : n \in running[id].nodes
Asked(n) == InFlight /\ n \in task.nodes

\* While the bridge runs and its channel has lost nothing, it will know the covers that
\* no session works on, but for those that moved unreported before the monitor was enabled.
RunInv ==
    (phase = "running" /\ ~lagged) =>
        \A n \in Nodes \ unseen : Free(n) => Heard(events, node[n], n, cover[n])

\* mark_command_accepted comes late, but what ends the command it marks is then still
\* to be read.
AcceptedInv ==
    (phase = "running" /\ ~lagged /\ task.kind = "command" /\ task.reply = "accepted") =>
        \A n \in task.nodes : Busy(n) \/ On(events, n) # {}

\* The setup queries every node once, and knows nothing of it until the answer is read.
SetupNode(n) ==
    /\ n \in todo => ~Asked(n) /\ ~Busy(n) /\ On(events, n) = {}
    /\ Asked(n) => ~Busy(n)
    /\ (Asked(n) \/ Busy(n)) => On(events, n) = {} /\ node[n] = StatusUnknown
    /\ \A i, j \in DOMAIN running : n \in running[i].nodes /\ n \in running[j].nodes => i = j
    /\ (n \notin unseen /\ Free(n)) =>
           FineNode(node[n], cover[n]) /\ \A e \in On(events, n) : FineEvent(e, cover[n])
SetupInv == phase = "setup" => Movers = {} /\ \A n \in Nodes : SetupNode(n)

KnownInv == RunInv /\ AcceptedInv /\ SetupInv

\* Events arrive while the bridge runs: every session that ends reports its nodes, and
\* so does every movement.
LEMMA RunEmit ==
    ASSUME Typed, RunInv, NEW list \in Seq(Events), Emit(list), UNCHANGED <<phase, node>>,
           \A n \in Nodes : n \notin unseen' /\ Free(n)' =>
               \A e \in On(list, n) : FineEvent(e, cover'[n]),
           \A n \in Nodes : Busy(n) => Busy(n)' \/ On(list, n) # {},
           \A n \in Nodes : (On(list, n) = {} /\ n \notin unseen' /\ ~Busy(n)') =>
               n \notin unseen /\ cover'[n] = cover[n]
    PROVE  RunInv'
<1> SUFFICES ASSUME phase = "running", ~lagged', NEW n \in Nodes, n \notin unseen', Free(n)'
             PROVE  Heard(events, node[n], n, cover[n])'
    BY DEF RunInv
<1>1. events' = events \o list /\ ~lagged
    BY EmitKeeps
<1>2. events \in Seq(Events)
    BY DEF Typed, EventsOK
<1>3. PICK c, v : c = cover'[n] /\ v = node[n]
    OBVIOUS
<1>4. \A e \in On(list, n) : FineEvent(e, c)
    BY <1>3
<1>5. ASSUME On(list, n) = {}
      PROVE  Heard(events, v, n, c)
    <2>1. ~Busy(n)'
        BY DEF Free, Busy
    <2>2. n \notin unseen /\ cover'[n] = cover[n] /\ ~Busy(n)
        BY <1>5, <2>1
    <2>3. Free(n)
        BY <2>1, <2>2 DEF Free, Busy
    <2> QED
        BY <1>1, <1>3, <2>2, <2>3 DEF RunInv
<1>6. Heard(events \o list, v, n, c)
    BY <1>2, <1>4, <1>5, HeardMore
<1>7. PICK q : q = events \o list
    OBVIOUS
<1>8. Heard(q, v, n, c) /\ q = events' /\ v = node'[n] /\ c = cover'[n]
    BY <1>1, <1>3, <1>6, <1>7
<1> QED
    BY <1>8

\* A command that ends before it is marked has been reported.
LEMMA AcceptedEmit ==
    ASSUME Typed, AcceptedInv, NEW list \in Seq(Events), Emit(list), UNCHANGED <<phase, task>>,
           \A n \in Nodes : Busy(n) => Busy(n)' \/ On(list, n) # {}
    PROVE  AcceptedInv'
<1> SUFFICES ASSUME phase = "running", ~lagged', task.kind = "command", task.reply = "accepted",
                    NEW n \in task.nodes
             PROVE  Busy(n)' \/ On(events', n) # {}
    BY DEF AcceptedInv, On, About
<1>1. events' = events \o list /\ ~lagged
    BY EmitKeeps
<1>2. events \in Seq(Events) /\ n \in Nodes
    BY DEF Typed, TypeOK, EventsOK
<1>3. PICK q : q = events \o list
    OBVIOUS
<1>4. On(q, n) = On(events, n) \cup On(list, n)
    BY <1>2, <1>3, ConcatRange DEF On
<1>5. On(events', n) = On(q, n)
    BY <1>1, <1>3
<1>6. Busy(n) \/ On(events, n) # {}
    BY <1>1 DEF AcceptedInv
<1> QED
    BY <1>2, <1>4, <1>5, <1>6

\* During the setup: nothing new is heard of the nodes, and a cover that moves is unseen.
LEMMA SetupSame ==
    ASSUME Typed, Typed', SetupInv, UNCHANGED <<phase, todo, node>>,
           \A n \in Nodes : On(events', n) \subseteq On(events, n),
           DOMAIN running' = DOMAIN running, \A id \in DOMAIN running : running'[id] = running[id],
           \A n \in Nodes : Asked(n)' => Asked(n),
           \A n \in Nodes : n \notin unseen' => n \notin unseen /\ cover'[n] = cover[n]
    PROVE  SetupInv'
<1> SUFFICES ASSUME phase = "setup"
             PROVE  Movers' = {} /\ \A n \in Nodes : SetupNode(n)'
    BY DEF SetupInv
<1>1. Movers' = {}
    BY DEF Movers, SetupInv
<1>2. ASSUME NEW n \in Nodes
      PROVE  SetupNode(n)'
    <2>1. SetupNode(n)
        BY DEF SetupInv
    <2>2. Busy(n)' <=> Busy(n)
        BY DEF Busy
    <2>3. Free(n)' /\ n \notin unseen' => Free(n)
        BY <1>2 DEF Free
    <2>4. PICK old, new : old = On(events, n) /\ new = On(events', n)
        OBVIOUS
    <2>5. new \subseteq old
        BY <2>4
    <2>6. \A i, j \in DOMAIN running' : n \in running'[i].nodes /\ n \in running'[j].nodes => i = j
        BY <2>1 DEF SetupNode
    <2>7. n \in todo' => ~Asked(n)' /\ ~Busy(n)' /\ new = {}
        BY <2>1, <2>2, <2>4, <2>5 DEF SetupNode
    <2>8. Asked(n)' => ~Busy(n)'
        BY <2>1, <2>2 DEF SetupNode
    <2>9. (Asked(n)' \/ Busy(n)') => new = {} /\ node'[n] = StatusUnknown
        BY <2>1, <2>2, <2>4, <2>5 DEF SetupNode
    <2>10. (n \notin unseen' /\ Free(n)') =>
               FineNode(node'[n], cover'[n]) /\ \A e \in new : FineEvent(e, cover'[n])
        BY <2>1, <2>3, <2>4, <2>5 DEF SetupNode
    <2> QED
        BY <2>4, <2>6, <2>7, <2>8, <2>9, <2>10 DEF SetupNode, On, About
<1> QED
    BY <1>1, <1>2

\* What the single events say: the end of a session nothing of a node, the end of a
\* movement where the cover is.
LEMMA EventsAbout ==
    ASSUME Typed, NEW id \in Ids, NEW m \in Nodes, NEW n
    PROVE  /\ n \notin Finished(id).nodes /\ n \notin TimedOut(id).nodes
           /\ \A run \in {"completed", "failed"} :
                  /\ n \in RunStatus(id, m, run).nodes <=> n = m
                  /\ \A c : c.at = cover[m].at => FineEvent(RunStatus(id, m, run), c)
<1>1. n \notin Finished(id).nodes /\ n \notin TimedOut(id).nodes
    BY DEF Finished, TimedOut, Event
<1>2. ASSUME NEW run \in {"completed", "failed"}
      PROVE  /\ n \in RunStatus(id, m, run).nodes <=> n = m
             /\ \A c : c.at = cover[m].at => FineEvent(RunStatus(id, m, run), c)
    <2>1. cover[m].at \in Percentage /\ cover[m].at \in Int
        BY ConstantTypes DEF Typed, TypeOK
    <2>2. RelativePosition(cover[m].at) = cover[m].at
        BY <2>1, PositionOrUnknown
    <2>3. PICK e : e = RunStatus(id, m, run)
        OBVIOUS
    <2>4. e.nodes = {m} /\ e.type = "run_status" /\ e.value.current = cover[m].at
        BY <2>3 DEF RunStatus, Event, NodeState
    <2>5. \A c : c.at = cover[m].at => FineEvent(e, c)
        BY <2>2, <2>4 DEF FineEvent
    <2> QED
        BY <2>3, <2>4, <2>5
<1> QED
    BY <1>1, <1>2

\* The sessions that lose their nodes report them all, where they are.
LEMMA FailuresAbout ==
    ASSUME Typed, NEW gone \in SUBSET DOMAIN running, NEW n \in Nodes
    PROVE  /\ \A e \in On(Failures(gone), n) : \A c : c.at = cover[n].at => FineEvent(e, c)
           /\ \A id \in gone : n \in running[id].nodes => On(Failures(gone), n) # {}
           /\ gone = {} => On(Failures(gone), n) = {}
<1>1. gone \subseteq Ids /\ \A id \in gone : running[id].nodes \in SUBSET Nodes
    BY DEF Typed, TypeOK, RunningOK, Sessions
<1>2. PICK list : list = Failures(gone)
    OBVIOUS
<1>3. /\ list \in Seq(Events)
      /\ Range(list) = UNION {{RunStatus(id, m, "failed") : m \in running[id].nodes} \cup {Finished(id)} :
                                 id \in gone}
    BY <1>2, FailuresContent
<1>4. ASSUME NEW e \in On(list, n)
      PROVE  (\A c : c.at = cover[n].at => FineEvent(e, c)) /\ gone # {}
    <2>1. PICK id \in gone : e \in {RunStatus(id, m, "failed") : m \in running[id].nodes} \cup {Finished(id)}
        BY <1>3 DEF On
    <2>2. n \in e.nodes
        BY DEF On, About
    <2>3. e # Finished(id)
        BY <1>1, <2>2, EventsAbout
    <2>4. PICK m \in running[id].nodes : e = RunStatus(id, m, "failed")
        BY <2>1, <2>3
    <2>5. m \in Nodes /\ id \in Ids
        BY <1>1
    <2>6. m = n
        BY <2>2, <2>4, <2>5, EventsAbout
    <2>7. \A c : c.at = cover[m].at => FineEvent(RunStatus(id, m, "failed"), c)
        BY <2>5, EventsAbout
    <2> QED
        BY <2>4, <2>6, <2>7
<1>5. ASSUME NEW id \in gone, n \in running[id].nodes
      PROVE  On(list, n) # {}
    <2>1. RunStatus(id, n, "failed") \in Range(list)
        BY <1>3, <1>5
    <2>2. RunStatus(id, n, "failed") \in Events /\ n \in RunStatus(id, n, "failed").nodes
        BY <1>1, EventTypes, EventsAbout
    <2> QED
        BY <2>1, <2>2 DEF On, About
<1>6. PICK found : found = On(list, n)
    OBVIOUS
<1> QED
    BY <1>2, <1>4, <1>5, <1>6

\* The KLF begins to work on a command: what it overrules has been reported, and its
\* own nodes are busy.
LEMMA BeginRuns ==
    ASSUME Typed, PhaseInv, RunInv, InFlight, NEW confirmed, Begin(confirmed), UNCHANGED <<phase, node, unseen>>
    PROVE  RunInv' /\ \A n \in task.nodes : Busy(n)'
<1> DEFINE moves == task.kind \in {"command", "group"}
           gone == IF moves THEN Overruled(task.nodes) ELSE {}
           session == [nodes |-> task.nodes, moves |-> moves]
<1>1. /\ gone \in SUBSET DOMAIN running /\ Emit(Failures(gone))
      /\ running' = [id \in (DOMAIN running \ gone) \cup {task.id} |->
                         IF id = task.id THEN session ELSE running[id]]
      /\ cover' = [n \in Nodes |-> IF moves /\ n \in task.nodes
                                   THEN [cover[n] EXCEPT !.to = task.goal] ELSE cover[n]]
    BY DEF Begin, Overruled, Movers
<1>2. task.id \notin DOMAIN running /\ session.nodes = task.nodes
    BY DEF PhaseInv
<1> HIDE DEF gone, session, moves
<1>3. /\ DOMAIN running' = (DOMAIN running \ gone) \cup {task.id}
      /\ running'[task.id] = session
      /\ \A id \in DOMAIN running \ gone : running'[id] = running[id]
    BY <1>1, <1>2
<1>4. \A n \in task.nodes : Busy(n)'
    BY <1>2, <1>3 DEF Busy
<1>5. PICK list : list = Failures(gone)
    OBVIOUS
<1>6. list \in Seq(Events) /\ Emit(list)
    BY <1>1, <1>5, FailuresContent
<1>7. ASSUME NEW n \in Nodes
      PROVE  /\ cover'[n].at = cover[n].at
             /\ n \notin task.nodes => cover'[n] = cover[n]
    BY <1>1 DEF Typed, TypeOK
<1>8. \A n \in Nodes : \A e \in On(list, n) : FineEvent(e, cover'[n])
    <2> TAKE n \in Nodes
    <2>1. \A e \in On(list, n) : \A c : c.at = cover[n].at => FineEvent(e, c)
        BY <1>1, <1>5, FailuresAbout
    <2> QED
        BY <1>7, <2>1
<1>9. ASSUME NEW n \in Nodes, Busy(n)
      PROVE  Busy(n)' \/ On(list, n) # {}
    <2>1. PICK id \in DOMAIN running : n \in running[id].nodes
        BY <1>9 DEF Busy
    <2>2. CASE id \in gone
        BY <1>1, <1>5, <2>1, <2>2, FailuresAbout
    <2>3. CASE id \notin gone
        BY <1>3, <2>1, <2>3 DEF Busy
    <2> QED
        BY <2>2, <2>3
<1>10. \A n \in Nodes : ~Busy(n)' => cover'[n] = cover[n]
    BY <1>4, <1>7
<1>11. RunInv'
    BY <1>6, <1>8, <1>9, <1>10, RunEmit
<1> QED
    BY <1>4, <1>11

\* The KLF begins to work on a query of the setup: its node is busy.
LEMMA BeginSetsUp ==
    ASSUME Typed, Typed', PhaseInv, SetupInv, InFlight, NEW confirmed, Begin(confirmed),
           UNCHANGED <<phase, todo, node, unseen>>, ~InFlight'
    PROVE  SetupInv'
<1> SUFFICES ASSUME phase = "setup"
             PROVE  Movers' = {} /\ \A n \in Nodes : SetupNode(n)'
    BY DEF SetupInv
<1>1. task.kind = "query" /\ task.id \notin DOMAIN running
    BY DEF PhaseInv, InFlight
<1> DEFINE moves == task.kind \in {"command", "group"}
           gone == IF moves THEN Overruled(task.nodes) ELSE {}
           session == [nodes |-> task.nodes, moves |-> moves]
<1>2. /\ Emit(Failures(gone))
      /\ running' = [id \in (DOMAIN running \ gone) \cup {task.id} |->
                         IF id = task.id THEN session ELSE running[id]]
      /\ cover' = [n \in Nodes |-> IF moves /\ n \in task.nodes
                                   THEN [cover[n] EXCEPT !.to = task.goal] ELSE cover[n]]
    BY DEF Begin
<1>3. session.nodes = task.nodes /\ ~session.moves /\ ~moves /\ gone = {}
    BY <1>1
<1> HIDE DEF session, gone, moves
<1>4. /\ DOMAIN running' = DOMAIN running \cup {task.id}
      /\ running'[task.id] = session
      /\ \A id \in DOMAIN running : running'[id] = running[id]
    BY <1>1, <1>2, <1>3
<1>5. Movers' = {}
    <2>1. \A id \in DOMAIN running : ~running[id].moves
        BY DEF SetupInv, Movers
    <2>2. \A id \in DOMAIN running' : ~running'[id].moves
        BY <1>3, <1>4, <2>1
    <2> QED
        BY <2>2 DEF Movers
<1>6. \A n \in Nodes : On(events', n) \subseteq On(events, n)
    <2>2. PICK list : list = Failures(gone)
        OBVIOUS
    <2>3. gone \in SUBSET DOMAIN running /\ gone = {}
        BY <1>3
    <2>4. list \in Seq(Events) /\ Emit(list) /\ Range(list) = {}
        BY <1>2, <2>2, <2>3, FailuresContent
    <2>5. Range(events') \subseteq Range(events) \cup Range(list)
        BY <2>4, EmitKeeps
    <2> QED
        BY <2>4, <2>5 DEF On
<1>7. \A n \in Nodes : cover'[n] = cover[n]
    BY <1>2, <1>3
<1>8. ASSUME NEW n \in Nodes
      PROVE  SetupNode(n)'
    <2>1. SetupNode(n)
        BY DEF SetupInv
    <2>2. Busy(n)' <=> (Busy(n) \/ n \in task.nodes)
        BY <1>3, <1>4 DEF Busy
    <2>3. Asked(n) <=> n \in task.nodes
        BY DEF Asked
    <2>4. ~Asked(n)'
        BY DEF Asked
    <2>5. Free(n)' => Free(n)
        BY <1>4, <1>7 DEF Free
    <2>6. PICK old, new : old = On(events, n) /\ new = On(events', n)
        OBVIOUS
    <2>7. new \subseteq old
        BY <1>6, <2>6
    <2>8. \A i, j \in DOMAIN running' : n \in running'[i].nodes /\ n \in running'[j].nodes => i = j
        <3>1. n \in task.nodes => \A i \in DOMAIN running : n \notin running[i].nodes
            BY <2>1, <2>3 DEF SetupNode, Busy
        <3>2. \A i, j \in DOMAIN running : n \in running[i].nodes /\ n \in running[j].nodes => i = j
            BY <2>1 DEF SetupNode
        <3> QED
            BY <1>3, <1>4, <3>1, <3>2
    <2>9. n \in todo' => ~Busy(n)' /\ new = {}
        BY <2>1, <2>2, <2>3, <2>6, <2>7 DEF SetupNode
    <2>10. Busy(n)' => new = {} /\ node'[n] = StatusUnknown
        BY <2>1, <2>2, <2>3, <2>6, <2>7 DEF SetupNode
    <2>11. (n \notin unseen' /\ Free(n)') =>
               FineNode(node'[n], cover'[n]) /\ \A e \in new : FineEvent(e, cover'[n])
        BY <1>7, <2>1, <2>5, <2>6, <2>7 DEF SetupNode
    <2> QED
        BY <2>4, <2>6, <2>8, <2>9, <2>10, <2>11 DEF SetupNode, On, About
<1> QED
    BY <1>5, <1>8

\* Nothing is asked without a request in flight.
LEMMA NothingAsked ==
    ASSUME task' = NoTask \/ task'.reply # "none" \/ task'.kind \in {"none", "await"}
    PROVE  ~InFlight' /\ \A n : ~Asked(n)'
<1>1. ~InFlight'
    BY DEF InFlight, NoTask
<1> QED
    BY <1>1 DEF Asked

\* Every step of the bridge while a setup goes on.
LEMMA SetupSteps ==
    ASSUME Typed, Typed', PhaseInv, SetupInv, Bridge
    PROVE  SetupInv'
<1>1. CASE Reconnect
    <2>1. /\ task' = NoTask /\ events' = <<>> /\ DOMAIN running' = {} /\ UNCHANGED cover
          /\ \A n \in Nodes : node'[n] = Discovered(n)
        BY <1>1 DEF Reconnect, PhaseInv, eventVars, Reconcile
    <2>2. Movers' = {}
        BY <2>1 DEF Movers
    <2>3. ASSUME NEW n \in Nodes
          PROVE  SetupNode(n)'
        <3>1. ~Asked(n)' /\ ~Busy(n)'
            BY <2>1, NothingAsked DEF Busy
        <3>2. On(events', n) = {}
            BY <2>1, ShortRange DEF On
        <3>3. ASSUME Free(n)'
              PROVE  FineNode(node'[n], cover'[n])
            <4>1. PICK v : v = Discovered(n)
                OBVIOUS
            <4>2. /\ v.op = IF cover[n].at = cover[n].to THEN "done" ELSE "executing"
                  /\ v.current = cover[n].at /\ v.target = cover[n].to
                BY <4>1 DEF Discovered, StatePosition, Event, NodeState
            <4>3. FineNode(v, cover[n])
                BY <4>2 DEF FineNode
            <4> QED
                BY <2>1, <4>1, <4>3
        <3>4. PICK new : new = On(events', n)
            OBVIOUS
        <3> QED
            BY <2>1, <3>1, <3>2, <3>3 DEF SetupNode, On, About
    <2> QED
        BY <2>2, <2>3 DEF SetupInv
<1>2. ASSUME NEW m \in Nodes, QueryStatus(m)
      PROVE  SetupInv'
    <2>1. /\ phase = "setup" /\ task = NoTask /\ m \in todo /\ todo' = todo \ {m}
          /\ node' = [node EXCEPT ![m] = StatusUnknown]
          /\ Send("query", {m}, Unknown)
          /\ UNCHANGED <<phase, events, running, cover, unseen>>
        BY <1>2 DEF QueryStatus, eventVars, klfVars
    <2>2. task'.nodes = {m}
        BY <2>1 DEF Send
    <2>3. Movers' = {}
        BY <2>1 DEF SetupInv, Movers
    <2>4. ASSUME NEW n \in Nodes
          PROVE  SetupNode(n)'
        <3>1. SetupNode(n)
            BY <2>1 DEF SetupInv
        <3>2. (Busy(n)' <=> Busy(n)) /\ (Free(n)' <=> Free(n))
            BY <2>1 DEF Busy, Free
        <3>3. On(events', n) = On(events, n)
            BY <2>1
        <3>4. CASE n = m
            <4>1. ~Busy(n) /\ On(events, n) = {} /\ n \notin todo'
                BY <2>1, <3>1, <3>4 DEF SetupNode
            <4>2. node'[n] = StatusUnknown
                BY <2>1, <3>4 DEF Typed, TypeOK
            <4>3. FineNode(StatusUnknown, cover[n])
                BY FineUnknown
            <4>4. \A i, j \in DOMAIN running' : n \in running'[i].nodes /\ n \in running'[j].nodes => i = j
                BY <2>1, <3>1 DEF SetupNode
            <4> QED
                BY <2>1, <3>2, <3>3, <4>1, <4>2, <4>3, <4>4 DEF SetupNode, On, About
        <3>5. CASE n # m
            <4>1. ~Asked(n)' /\ (n \in todo' <=> n \in todo)
                BY <2>1, <2>2, <3>5 DEF Asked
            <4>2. node'[n] = node[n]
                BY <2>1, <3>5 DEF Typed, TypeOK
            <4>3. \A i, j \in DOMAIN running' : n \in running'[i].nodes /\ n \in running'[j].nodes => i = j
                BY <2>1, <3>1 DEF SetupNode
            <4>4. PICK old : old = On(events, n)
                OBVIOUS
            <4> QED
                BY <2>1, <3>1, <3>2, <3>3, <4>1, <4>2, <4>3 DEF SetupNode, On, About
        <3> QED
            BY <3>4, <3>5
    <2> QED
        BY <2>3, <2>4 DEF SetupInv
<1>3. CASE AwaitEvent
    <2>1. /\ task.kind = "await" /\ events # <<>> /\ Handle(Head(events)) /\ events' = Tail(events)
          /\ phase = "setup" /\ UNCHANGED <<phase, todo, running, cover, unseen>>
        BY <1>3 DEF AwaitEvent, klfVars, PhaseInv
    <2>2. task' = NoTask \/ task' = task
        BY <1>3 DEF AwaitEvent
    <2>3. \A n : ~Asked(n)'
        BY <2>1, <2>2, NothingAsked
    <2>4. PICK e, rest : e = Head(events) /\ rest = Tail(events)
        OBVIOUS
    <2>5. e \in Events /\ rest \in Seq(Events) /\ events = <<e>> \o rest
        BY <2>1, <2>4, ReadTypes
    <2>6. Range(events) = {e} \cup Range(rest)
        <3>1. PICK one : one = <<e>>
            OBVIOUS
        <3>2. one \in Seq(Events) /\ Range(one) = {e}
            BY <2>5, <3>1, ShortRange
        <3>3. Range(one \o rest) = Range(one) \cup Range(rest)
            BY <2>5, <3>2, ConcatRange
        <3> QED
            BY <2>5, <3>1, <3>2, <3>3
    <2>7. Movers' = {}
        BY <2>1 DEF SetupInv, Movers
    <2>8. ASSUME NEW n \in Nodes
          PROVE  SetupNode(n)'
        <3>1. SetupNode(n)
            BY <2>1 DEF SetupInv
        <3>2. (Busy(n)' <=> Busy(n)) /\ (Free(n)' <=> Free(n))
            BY <2>1 DEF Busy, Free
        <3>3. PICK old, new : old = On(events, n) /\ new = On(events', n)
            OBVIOUS
        <3>4. new \subseteq old
            BY <2>1, <2>4, <2>6, <3>3 DEF On
        <3>5. \A i, j \in DOMAIN running' : n \in running'[i].nodes /\ n \in running'[j].nodes => i = j
            BY <2>1, <3>1 DEF SetupNode
        <3>6. node'[n] = IF n \in e.nodes THEN Applied(node[n], e) ELSE node[n]
            BY <2>1, <2>4 DEF Handle
        <3>7. CASE n \in e.nodes
            <4>1. e \in old /\ ~Ends(e)
                BY <2>5, <2>6, <3>3, <3>7 DEF On, About, Events
            <4>2. ~Busy(n) /\ n \notin todo
                BY <3>1, <3>3, <4>1 DEF SetupNode
            <4>3. ASSUME n \notin unseen', Free(n)'
                  PROVE  FineNode(node'[n], cover'[n]) /\ \A f \in new : FineEvent(f, cover'[n])
                <5>1. \A f \in old : FineEvent(f, cover[n])
                    BY <2>1, <3>1, <3>2, <3>3, <4>3 DEF SetupNode
                <5>2. node[n] \in NodeStates
                    BY DEF Typed, TypeOK, NodeStates
                <5>3. FineNode(Applied(node[n], e), cover[n])
                    BY <2>5, <4>1, <5>1, <5>2, FineApplied
                <5> QED
                    BY <2>1, <3>4, <3>6, <3>7, <5>1, <5>3
            <4> QED
                BY <2>1, <2>3, <3>2, <3>3, <3>5, <4>2, <4>3 DEF SetupNode, On, About
        <3>8. CASE n \notin e.nodes
            <4>1. node'[n] = node[n]
                BY <3>6, <3>8
            <4>2. n \in todo' => ~Busy(n)' /\ new = {}
                BY <2>1, <3>1, <3>2, <3>3, <3>4 DEF SetupNode
            <4>3. Busy(n)' => new = {} /\ node'[n] = StatusUnknown
                BY <3>1, <3>2, <3>3, <3>4, <4>1 DEF SetupNode
            <4>4. (n \notin unseen' /\ Free(n)') =>
                      FineNode(node'[n], cover'[n]) /\ \A f \in new : FineEvent(f, cover'[n])
                BY <2>1, <3>1, <3>2, <3>3, <3>4, <4>1 DEF SetupNode
            <4> QED
                BY <2>3, <3>3, <3>5, <4>2, <4>3, <4>4 DEF SetupNode, On, About
        <3> QED
            BY <3>7, <3>8
    <2> QED
        BY <2>7, <2>8 DEF SetupInv
<1>4. ASSUME UNCHANGED <<phase, todo, events, running, cover, unseen>>,
             task' = NoTask \/ task'.kind = "await",
             phase = "setup" => UNCHANGED node
      PROVE  SetupInv'
    <2>1. \A n : ~Asked(n)'
        BY <1>4, NothingAsked
    <2> QED
        BY <1>4, <2>1, SetupSame DEF SetupInv
<1>5. CASE AwaitFails
    BY <1>4, <1>5 DEF AwaitFails, klfVars
<1>6. CASE EnableMonitor
    BY <1>6 DEF EnableMonitor, SetupInv
<1>7. CASE Confirmed
    <2>1. phase = "setup" => UNCHANGED node
        <3>1. phase = "setup" => task.kind # "command"
            BY DEF PhaseInv
        <3> QED
            BY <1>7, <3>1 DEF Confirmed, Typed, TypeOK
    <2>2. task' = NoTask \/ task'.kind = "await"
        BY <1>7 DEF Confirmed, Typed, TypeOK
    <2> QED
        BY <1>4, <1>7, <2>1, <2>2 DEF Confirmed, eventVars, klfVars
<1>8. CASE Refused
    BY <1>4, <1>8 DEF Refused, eventVars, klfVars
<1>9. CASE ReceiveEvent \/ ReceiveLagged \/ \E n \in Nodes : RequestStatus(n)
    BY <1>9 DEF ReceiveEvent, ReceiveLagged, GoOffline, RequestStatus, Idle, SetupInv
<1> QED
    BY <1>1, <1>2, <1>3, <1>5, <1>6, <1>7, <1>8, <1>9 DEF Bridge

\* The bridge sends or settles a request, or nothing at all: nothing that it will know
\* changes.
LEMMA RunSame ==
    ASSUME RunInv, UNCHANGED <<phase, lagged, events, node, unseen, cover, running>>
    PROVE  RunInv'
BY DEF RunInv, Free, Heard, On, About

\* Every step of the bridge while it runs, or begins to.
LEMMA RunSteps ==
    ASSUME Typed, Typed', PhaseInv, KnownInv, Bridge
    PROVE  RunInv' /\ AcceptedInv'
<1>0. RunInv /\ AcceptedInv /\ SetupInv
    BY DEF KnownInv
<1>1. CASE phase' # "running"
    BY <1>1 DEF RunInv, AcceptedInv
<1>2. ASSUME task'.reply = "none"
      PROVE  AcceptedInv'
    BY <1>2 DEF AcceptedInv
<1>3. ASSUME task' = NoTask
      PROVE  AcceptedInv'
    BY <1>2, <1>3 DEF NoTask
<1>4. CASE phase = "setup" /\ phase' = "running"
    <2>1. EnableMonitor
        BY <1>4 DEF Bridge, Reconnect, QueryStatus, AwaitEvent, AwaitFails, EnableMonitor, Confirmed,
                    Refused, ReceiveEvent, ReceiveLagged, GoOffline, RequestStatus, Idle
    <2>2. task' = NoTask /\ UNCHANGED <<events, node, unseen, cover, running>>
        BY <2>1 DEF EnableMonitor, eventVars
    <2>3. ASSUME NEW n \in Nodes, n \notin unseen', Free(n)'
          PROVE  Heard(events, node[n], n, cover[n])'
        <3>1. n \notin unseen /\ Free(n)
            BY <2>2, <2>3 DEF Free
        <3>2. /\ FineNode(node[n], cover[n])
              /\ \A e \in On(events, n) : FineEvent(e, cover[n])
            BY <1>0, <1>4, <3>1 DEF SetupInv, SetupNode
        <3>3. PICK q, v, c : q = events /\ v = node[n] /\ c = cover[n]
            OBVIOUS
        <3>4. q \in Seq(Events)
            BY <3>3 DEF Typed, EventsOK
        <3>5. On(q, n) # {} => LastIn(q, About(n)) \in On(q, n)
            <4>1. PICK S : S = About(n)
                OBVIOUS
            <4> QED
                BY <3>4, <4>1, LastInElement DEF On
        <3>6. Heard(q, v, n, c)
            BY <3>2, <3>3, <3>5 DEF Heard
        <3>7. q = events' /\ v = node'[n] /\ c = cover'[n]
            BY <2>2, <3>3
        <3> QED
            BY <3>6, <3>7
    <2> QED
        BY <1>3, <2>2, <2>3 DEF RunInv
<1>5. CASE phase = "running" /\ phase' = "running"
    <2>1. CASE Confirmed
        <3>1. CASE task.kind = "query"
            BY <1>5, <3>1 DEF PhaseInv
        <3>2. CASE task.kind # "query" /\ task.kind # "command"
            <4>1. node' = node
                BY <2>1, <3>2 DEF Confirmed, Typed, TypeOK
            <4>2. task' = NoTask /\ UNCHANGED <<phase, lagged, events, unseen, cover, running>>
                BY <2>1, <3>2 DEF Confirmed, eventVars, klfVars
            <4> QED
                BY <1>0, <1>3, <4>1, <4>2, RunSame
        <3>3. CASE task.kind = "command"
            <4>1. /\ task' = NoTask /\ task.reply = "accepted"
                  /\ UNCHANGED <<phase, lagged, events, unseen, cover, running>>
                  /\ \A n \in Nodes : n \notin task.nodes => node'[n] = node[n]
                BY <2>1, <3>3 DEF Confirmed, eventVars, klfVars
            <4>2. ASSUME ~lagged', NEW n \in Nodes, n \notin unseen', Free(n)'
                  PROVE  Heard(events, node[n], n, cover[n])'
                <5>1. n \notin unseen /\ Free(n) /\ ~lagged
                    BY <4>1, <4>2 DEF Free
                <5>2. Heard(events, node[n], n, cover[n])
                    BY <1>0, <1>5, <5>1 DEF RunInv
                <5>3. PICK q, v, w, c : q = events /\ v = node[n] /\ w = node'[n] /\ c = cover[n]
                    OBVIOUS
                <5>4. Heard(q, v, n, c)
                    BY <5>2, <5>3
                <5>5. n \in task.nodes => On(q, n) # {}
                    BY <1>0, <1>5, <3>3, <4>1, <5>1, <5>3 DEF AcceptedInv, Free, Busy
                <5>6. n \notin task.nodes => v = w
                    BY <4>1, <5>3
                <5>7. Heard(q, w, n, c)
                    BY <5>4, <5>5, <5>6 DEF Heard
                <5>8. q = events' /\ w = node'[n] /\ c = cover'[n]
                    BY <4>1, <5>3
                <5> QED
                    BY <5>7, <5>8
            <4> QED
                BY <1>3, <4>1, <4>2 DEF RunInv
        <3> QED
            BY <3>1, <3>2, <3>3
    <2>2. CASE Refused
        BY <1>0, <1>3, <2>2, RunSame DEF Refused, eventVars, klfVars
    <2>3. CASE ReceiveEvent
        <3>1. /\ task' = NoTask /\ events # <<>> /\ Handle(Head(events)) /\ events' = Tail(events)
              /\ UNCHANGED <<phase, lagged, unseen, cover, running>> /\ ~lagged
            BY <2>3 DEF ReceiveEvent, Idle, klfVars
        <3>2. PICK e, rest : e = Head(events) /\ rest = Tail(events)
            OBVIOUS
        <3>3. e \in Events /\ rest \in Seq(Events) /\ events = <<e>> \o rest
            BY <3>1, <3>2, ReadTypes
        <3>4. ASSUME NEW n \in Nodes, n \notin unseen', Free(n)'
              PROVE  Heard(events, node[n], n, cover[n])'
            <4>1. n \notin unseen /\ Free(n)
                BY <3>1, <3>4 DEF Free
            <4>2. Heard(events, node[n], n, cover[n])
                BY <1>0, <1>5, <3>1, <4>1 DEF RunInv
            <4>3. PICK v, c : v = node[n] /\ c = cover[n]
                OBVIOUS
            <4>4. PICK w : w = IF n \in e.nodes THEN Applied(v, e) ELSE v
                OBVIOUS
            <4>5. v \in NodeStates /\ Heard(<<e>> \o rest, v, n, c)
                BY <3>3, <4>2, <4>3 DEF Typed, TypeOK, NodeStates
            <4>6. Heard(rest, w, n, c)
                BY <3>3, <4>4, <4>5, HeardRead
            <4>7. rest = events' /\ w = node'[n] /\ c = cover'[n]
                BY <3>1, <3>2, <4>3, <4>4 DEF Handle
            <4> QED
                BY <4>6, <4>7
        <3> QED
            BY <1>3, <3>1, <3>4 DEF RunInv
    <2>4. ASSUME NEW n \in Nodes, RequestStatus(n)
          PROVE  RunInv' /\ AcceptedInv'
        <3>1. task'.reply = "none"
            BY <2>4 DEF RequestStatus, Send
        <3> QED
            BY <1>0, <1>2, <2>4, <3>1, RunSame DEF RequestStatus, eventVars, klfVars
    <2>5. CASE AwaitEvent \/ AwaitFails
        BY <1>5, <2>5 DEF AwaitEvent, AwaitFails, PhaseInv
    <2>6. ~Reconnect /\ ~EnableMonitor /\ ~ReceiveLagged /\ \A n \in Nodes : ~QueryStatus(n)
        BY <1>5 DEF Reconnect, EnableMonitor, ReceiveLagged, GoOffline, QueryStatus
    <2> QED
        BY <2>1, <2>2, <2>3, <2>4, <2>5, <2>6 DEF Bridge
<1>6. phase \in {"setup", "running"} \/ phase' # "running"
    <2>1. phase = "offline" => phase' # "running"
        BY DEF Bridge, Reconnect, QueryStatus, AwaitEvent, AwaitFails, EnableMonitor, Confirmed,
               Refused, ReceiveEvent, ReceiveLagged, GoOffline, RequestStatus, Idle
    <2> QED
        BY <2>1 DEF Typed, TypeOK
<1> QED
    BY <1>1, <1>4, <1>5, <1>6

\* A session ends: its nodes are reported, where they are.
LEMMA EndKnown ==
    ASSUME Typed, Typed', PhaseInv, RunInv, AcceptedInv, NEW id \in DOMAIN running, NEW list,
           EndSession(id, list), list \o <<Finished(id)>> \in Seq(Events),
           UNCHANGED <<phase, node, task, cover>>,
           \A n \in Nodes : Free(n)' =>
               \A e \in On(list \o <<Finished(id)>>, n) : FineEvent(e, cover[n]),
           \A n \in running[id].nodes : On(list \o <<Finished(id)>>, n) # {},
           \A n \in Nodes \ running[id].nodes : n \notin unseen' => n \notin unseen
    PROVE  RunInv' /\ AcceptedInv'
<1>1. PICK all : all = list \o <<Finished(id)>>
    OBVIOUS
<1>2. all \in Seq(Events) /\ Emit(all)
    BY <1>1 DEF EndSession
<1>3. /\ DOMAIN running' = DOMAIN running \ {id}
      /\ \A i \in DOMAIN running' : running'[i] = running[i]
    BY WithoutTypes DEF EndSession
<1>4. \A n \in running[id].nodes : On(all, n) # {}
    BY <1>1
<1>5. \A n \in Nodes : Busy(n) => Busy(n)' \/ On(all, n) # {}
    BY <1>3, <1>4 DEF Busy
<1>6. \A n \in Nodes : Free(n)' => \A e \in On(all, n) : FineEvent(e, cover'[n])
    BY <1>1
<1>7. \A n \in Nodes : (On(all, n) = {} /\ n \notin unseen' /\ ~Busy(n)') =>
          n \notin unseen /\ cover'[n] = cover[n]
    BY <1>4
<1>8. RunInv'
    BY <1>2, <1>5, <1>6, <1>7, RunEmit
<1>9. AcceptedInv'
    BY <1>2, <1>5, AcceptedEmit
<1> QED
    BY <1>8, <1>9

\* The answer to a status request says where the cover is, if anything.
LEMMA ReportFine ==
    ASSUME Typed, NEW id \in Ids, NEW n \in Nodes, NEW e, NEW known \in BOOLEAN,
           e = StatusReport(id, n, IF cover[n].at = cover[n].to THEN "completed" ELSE "active",
                            IF known THEN cover[n].at ELSE NoFeedback)
    PROVE  e.nodes = {n} /\ FineEvent(e, cover[n])
<1>1. /\ cover[n].at \in Percentage /\ cover[n].at \in Int
      /\ cover[n].to \in Percentage /\ cover[n].to \in Int
    BY ConstantTypes DEF Typed, TypeOK
<1>2. /\ RelativePosition(cover[n].at) = cover[n].at /\ RelativePosition(NoFeedback) = Unknown
      /\ RelativePosition(cover[n].to) = cover[n].to
    BY <1>1, ConstantTypes, PositionOrUnknown
<1>3. /\ e.nodes = {n} /\ e.type = "status" /\ e.value.target = cover[n].to
      /\ e.value.current = (IF known THEN cover[n].at ELSE NoFeedback)
      /\ e.value.op = IF cover[n].at = cover[n].to THEN "completed" ELSE "active"
    BY DEF StatusReport, Event, NodeState
<1> QED
    BY <1>2, <1>3 DEF FineEvent

\* The report of a position says where the cover is and where it moves to.
LEMMA PositionFine ==
    ASSUME NEW n \in Nodes, NEW at \in Places, NEW to \in Places, NEW e, e = StatePosition(n, at, to)
    PROVE  e.nodes = {n} /\ \A c : c.at = at /\ c.to = to => FineEvent(e, c)
<1>1. RelativePosition(at) = at /\ RelativePosition(to) = to
    BY ConstantTypes, PositionOrUnknown
<1>2. /\ e.nodes = {n} /\ e.type = "state_position" /\ e.value.current = at /\ e.value.target = to
      /\ e.value.op = IF at = to THEN "done" ELSE "executing"
    BY DEF StatePosition, Event, NodeState
<1> QED
    BY <1>1, <1>2 DEF FineEvent

\* Every step of the KLF with the requests of the bridge.
LEMMA RequestSteps ==
    ASSUME Typed, Typed', PhaseInv, KnownInv, Accept \/ Reject \/ RequestExpires
    PROVE  KnownInv'
<1>0. RunInv /\ AcceptedInv /\ SetupInv
    BY DEF KnownInv
<1>1. PICK reply \in {"accepted", "rejected", "failed"} :
          /\ task' = [task EXCEPT !.reply = reply] /\ (reply = "accepted" => Accept)
    BY DEF Accept, Reject, RequestExpires
<1>2. task'.reply = reply /\ task'.nodes = task.nodes /\ InFlight /\ UNCHANGED <<phase, todo, node, unseen>>
    BY <1>1 DEF Typed, TypeOK, Accept, Reject, RequestExpires, klfVars
<1>3. ~InFlight' /\ \A n : ~Asked(n)'
    BY <1>2, NothingAsked
<1>4. ASSUME NEW confirmed, Begin(confirmed)
      PROVE  KnownInv'
    <2>1. RunInv' /\ \A n \in task.nodes : Busy(n)'
        BY <1>0, <1>2, <1>4, BeginRuns
    <2>2. SetupInv'
        BY <1>0, <1>2, <1>3, <1>4, BeginSetsUp
    <2>3. AcceptedInv'
        BY <1>2, <2>1 DEF AcceptedInv
    <2> QED
        BY <2>1, <2>2, <2>3 DEF KnownInv
<1>5. ASSUME UNCHANGED <<eventVars, klfVars, sessions>>, reply # "accepted"
      PROVE  KnownInv'
    <2>1. UNCHANGED <<lagged, events, cover, running>>
        BY <1>5 DEF eventVars, klfVars
    <2>2. RunInv'
        BY <1>0, <1>2, <2>1, RunSame
    <2>3. AcceptedInv'
        BY <1>2, <1>5 DEF AcceptedInv
    <2>4. SetupInv'
        BY <1>0, <1>2, <1>3, <2>1, SetupSame
    <2> QED
        BY <2>2, <2>3, <2>4 DEF KnownInv
<1>6. CASE reply = "accepted"
    BY <1>1, <1>4, <1>6 DEF Accept
<1>7. CASE reply # "accepted" /\ \E confirmed : Begin(confirmed)
    BY <1>4, <1>7
<1>8. CASE reply # "accepted" /\ UNCHANGED <<eventVars, klfVars, sessions>>
    BY <1>5, <1>8
<1>9. ASSUME reply # "accepted"
      PROVE  ~Accept
    <2>1. Accept => task'.reply = "accepted"
        BY DEF Accept, Typed, TypeOK
    <2> QED
        BY <1>2, <1>9, <2>1
<1> QED
    BY <1>6, <1>7, <1>8, <1>9 DEF Reject, RequestExpires

\* The events of a step of the KLF that are about nobody.
LEMMA EmitNothing ==
    ASSUME Typed, NEW list \in Seq(Events), Emit(list), \A n \in Nodes : On(list, n) = {}
    PROVE  \A n \in Nodes : On(events', n) \subseteq On(events, n)
<1>1. Range(events') \subseteq Range(events) \cup Range(list)
    BY EmitKeeps
<1> QED
    BY <1>1 DEF On

\* A cover moves.
LEMMA TravelKnown ==
    ASSUME Typed, Typed', PhaseInv, KnownInv, NEW m \in Nodes, NEW at \in Places, Travel(m, at)
    PROVE  KnownInv'
<1>0. RunInv /\ AcceptedInv /\ SetupInv
    BY DEF KnownInv
<1>1. /\ UNCHANGED <<phase, todo, task, node, running>>
      /\ cover' = [cover EXCEPT ![m].at = at]
    BY DEF Travel, bridgeVars
<1>2. /\ \A n \in Nodes \ {m} : cover'[n] = cover[n]
      /\ cover'[m].at = at /\ cover'[m].to = cover[m].to /\ cover[m].to \in Places
    BY <1>1 DEF Typed, TypeOK
<1>3. \A n : (Busy(n)' <=> Busy(n)) /\ (Asked(n)' <=> Asked(n))
    BY <1>1 DEF Busy, Asked, InFlight
<1>4. CASE phase = "running"
    <2>1. PICK e : e = StatePosition(m, at, cover[m].to)
        OBVIOUS
    <2>2. PICK list : list = <<e>>
        OBVIOUS
    <2>3. e \in Events /\ e.nodes = {m} /\ FineEvent(e, cover'[m])
        BY <1>2, <2>1, EventTypes, PositionFine
    <2>4. list \in Seq(Events) /\ Emit(list) /\ unseen' = unseen \ {m} /\ Range(list) = {e}
        BY <1>4, <2>1, <2>2, <2>3, ShortRange DEF Travel, PhaseInv
    <2>5. On(list, m) = {e} /\ \A n \in Nodes \ {m} : On(list, n) = {}
        BY <2>3, <2>4 DEF On, About
    <2>6. \A n \in Nodes : n \notin unseen' /\ Free(n)' => \A f \in On(list, n) : FineEvent(f, cover'[n])
        BY <2>3, <2>5
    <2>7. \A n \in Nodes : (On(list, n) = {} /\ n \notin unseen' /\ ~Busy(n)') =>
              n \notin unseen /\ cover'[n] = cover[n]
        BY <1>2, <2>4, <2>5
    <2>8. RunInv'
        BY <1>0, <1>1, <1>3, <2>4, <2>6, <2>7, RunEmit
    <2>9. AcceptedInv'
        BY <1>0, <1>1, <1>3, <2>4, AcceptedEmit
    <2> QED
        BY <1>1, <1>4, <2>8, <2>9 DEF KnownInv, SetupInv
<1>5. CASE phase = "setup"
    <2>1. unseen' = unseen \cup {m} /\ UNCHANGED eventVars
        BY <1>5 DEF Travel, PhaseInv
    <2>2. \A n \in Nodes : n \notin unseen' => n \notin unseen /\ cover'[n] = cover[n]
        BY <1>2, <2>1
    <2>3. SetupInv'
        BY <1>0, <1>1, <1>3, <2>1, <2>2, SetupSame DEF eventVars
    <2> QED
        BY <1>1, <1>5, <2>3 DEF KnownInv, RunInv, AcceptedInv
<1>6. CASE phase = "offline"
    BY <1>1, <1>6 DEF KnownInv, RunInv, AcceptedInv, SetupInv
<1> QED
    BY <1>4, <1>5, <1>6 DEF Typed, TypeOK

\* Somebody uses the remote control.
LEMMA RemoteKnown ==
    ASSUME Typed, Typed', PhaseInv, KnownInv, NEW m \in Nodes, NEW to \in Places, RemoteMove(m, to)
    PROVE  KnownInv'
<1>0. RunInv /\ AcceptedInv /\ SetupInv
    BY DEF KnownInv
<1>1. PICK gone, list : gone = Overruled({m}) /\ list = RemoteEvents(m, to)
    OBVIOUS
<1>2. /\ UNCHANGED <<phase, todo, task, node>> /\ cover' = [cover EXCEPT ![m].to = to]
      /\ running' = Without(gone)
    BY <1>1 DEF RemoteMove, bridgeVars
<1>3. /\ \A n \in Nodes \ {m} : cover'[n] = cover[n]
      /\ cover'[m].at = cover[m].at /\ cover'[m].to = to /\ cover[m].at \in Places
    BY <1>2 DEF Typed, TypeOK
<1>4. /\ DOMAIN running' = DOMAIN running \ gone
      /\ \A id \in DOMAIN running' : running'[id] = running[id]
    BY <1>2, WithoutTypes
<1>5. /\ list \in Seq(Events) /\ Emit(list) /\ gone \in SUBSET DOMAIN running
      /\ Range(list) = Range(Failures(gone)) \cup
             (IF monitor /\ phase # "offline" THEN {StatePosition(m, cover[m].at, to)} ELSE {})
    BY <1>1, RemoteContent
<1>6. CASE phase = "running"
    <2>1. PICK e : e = StatePosition(m, cover[m].at, to)
        OBVIOUS
    <2>2. e \in Events /\ e.nodes = {m} /\ FineEvent(e, cover'[m])
        BY <1>3, <2>1, EventTypes, PositionFine
    <2>3. Range(list) = Range(Failures(gone)) \cup {e} /\ unseen' = unseen \ {m}
        BY <1>5, <1>6, <2>1 DEF RemoteMove, PhaseInv
    <2>4. /\ \A n \in Nodes : On(list, n) = On(Failures(gone), n) \cup (IF n = m THEN {e} ELSE {})
        BY <2>2, <2>3 DEF On, About
    <2>5. ASSUME NEW n \in Nodes, n \notin unseen', Free(n)', NEW f \in On(list, n)
          PROVE  FineEvent(f, cover'[n])
        <3>1. cover'[n].at = cover[n].at
            BY <1>3, <2>5
        <3>2. CASE f \in On(Failures(gone), n)
            BY <1>5, <3>1, <3>2, FailuresAbout
        <3>3. CASE f \notin On(Failures(gone), n)
            <4>1. n = m /\ f = e
                BY <2>4, <3>3
            <4> QED
                BY <2>2, <4>1
        <3> QED
            BY <3>2, <3>3
    <2>6. ASSUME NEW n \in Nodes, Busy(n)
          PROVE  Busy(n)' \/ On(list, n) # {}
        <3>1. PICK id \in DOMAIN running : n \in running[id].nodes
            BY <2>6 DEF Busy
        <3>2. CASE id \in gone
            <4>1. On(Failures(gone), n) # {}
                BY <1>5, <3>1, <3>2, FailuresAbout
            <4> QED
                BY <2>4, <4>1
        <3>3. CASE id \notin gone
            BY <1>4, <3>1, <3>3 DEF Busy
        <3> QED
            BY <3>2, <3>3
    <2>7. \A n \in Nodes : (On(list, n) = {} /\ n \notin unseen' /\ ~Busy(n)') =>
              n \notin unseen /\ cover'[n] = cover[n]
        BY <1>3, <2>3, <2>4
    <2>8. RunInv'
        BY <1>0, <1>2, <1>5, <2>5, <2>6, <2>7, RunEmit
    <2>9. AcceptedInv'
        BY <1>0, <1>2, <1>5, <2>6, AcceptedEmit
    <2> QED
        BY <1>2, <1>6, <2>8, <2>9 DEF KnownInv, SetupInv
<1>7. CASE phase = "setup"
    <2>1. gone = {} /\ unseen' = unseen \cup {m} /\ Range(list) = Range(Failures(gone))
        BY <1>0, <1>1, <1>5, <1>7 DEF RemoteMove, PhaseInv, SetupInv, Overruled
    <2>2. \A n \in Nodes : On(list, n) = {}
        <3> TAKE n \in Nodes
        <3>1. On(Failures(gone), n) = {}
            BY <1>5, <2>1, FailuresAbout
        <3> QED
            BY <2>1, <3>1 DEF On
    <2>3. \A n \in Nodes : On(events', n) \subseteq On(events, n)
        BY <1>5, <2>2, EmitNothing
    <2>4. \A n \in Nodes : n \notin unseen' => n \notin unseen /\ cover'[n] = cover[n]
        BY <1>3, <2>1
    <2>5. \A n \in Nodes : Asked(n)' => Asked(n)
        BY <1>2 DEF Asked, InFlight
    <2>6. SetupInv'
        BY <1>0, <1>2, <1>4, <2>1, <2>3, <2>4, <2>5, SetupSame
    <2> QED
        BY <1>2, <1>7, <2>6 DEF KnownInv, RunInv, AcceptedInv
<1>8. CASE phase = "offline"
    BY <1>2, <1>8 DEF KnownInv, RunInv, AcceptedInv, SetupInv
<1> QED
    BY <1>6, <1>7, <1>8 DEF Typed, TypeOK

\* A movement arrives.
LEMMA ArriveKnown ==
    ASSUME Typed, Typed', PhaseInv, KnownInv, NEW id \in DOMAIN running, Arrive(id)
    PROVE  KnownInv'
<1>0. RunInv /\ AcceptedInv /\ SetupInv
    BY DEF KnownInv
<1>1. UNCHANGED <<phase, todo, task, node, cover, unseen>> /\ id \in Movers
    BY DEF Arrive, bridgeVars
<1>2. phase # "setup"
    BY <1>0, <1>1 DEF SetupInv
<1>3. id \in Ids /\ running[id].nodes \in SUBSET Nodes
    BY DEF Typed, TypeOK, RunningOK, Sessions
<1>4. PICK list : /\ EndSession(id, list)
                  /\ list \o <<Finished(id)>> \in Seq(Events)
                  /\ Range(list \o <<Finished(id)>>) =
                         {RunStatus(id, n, "completed") : n \in running[id].nodes} \cup {Finished(id)}
    BY ArriveEvents
<1>5. PICK all : all = list \o <<Finished(id)>>
    OBVIOUS
<1>6. ASSUME NEW n \in Nodes, NEW e \in On(all, n)
      PROVE  FineEvent(e, cover[n])
    <2>1. n \in e.nodes /\ e \in Range(all)
        BY DEF On, About
    <2>2. e # Finished(id)
        BY <1>3, <2>1, EventsAbout
    <2>3. PICK m \in running[id].nodes : e = RunStatus(id, m, "completed")
        BY <1>4, <1>5, <2>1, <2>2
    <2>4. m \in Nodes
        BY <1>3
    <2>5. m = n /\ FineEvent(RunStatus(id, m, "completed"), cover[m])
        BY <1>3, <2>1, <2>3, <2>4, EventsAbout
    <2> QED
        BY <2>3, <2>5
<1>7. ASSUME NEW n \in running[id].nodes
      PROVE  On(all, n) # {}
    <2>1. n \in Nodes
        BY <1>3
    <2>2. RunStatus(id, n, "completed") \in Events /\ n \in RunStatus(id, n, "completed").nodes
        BY <1>3, <2>1, EventTypes, EventsAbout
    <2>3. RunStatus(id, n, "completed") \in Range(all)
        BY <1>4, <1>5
    <2> QED
        BY <2>2, <2>3 DEF On, About
<1>8. RunInv' /\ AcceptedInv'
    <2>1. \A n \in Nodes : \A e \in On(list \o <<Finished(id)>>, n) : FineEvent(e, cover[n])
        BY <1>5, <1>6
    <2>2. \A n \in running[id].nodes : On(list \o <<Finished(id)>>, n) # {}
        BY <1>5, <1>7
    <2> QED
        BY <1>0, <1>1, <1>4, <2>1, <2>2, EndKnown
<1> QED
    BY <1>1, <1>2, <1>8 DEF KnownInv, SetupInv

\* A status request is answered.
LEMMA ReportKnown ==
    ASSUME Typed, Typed', PhaseInv, KnownInv, NEW id \in DOMAIN running, NEW known \in BOOLEAN,
           Report(id, known)
    PROVE  KnownInv'
<1>0. RunInv /\ AcceptedInv /\ SetupInv
    BY DEF KnownInv
<1>1. UNCHANGED <<phase, todo, task, node, cover>>
    BY DEF Report, bridgeVars
<1>2. PICK m \in Nodes, e \in Events :
          /\ running[id].nodes = {m} /\ id \in Ids /\ unseen' = unseen \ {m}
          /\ e = StatusReport(id, m, IF cover[m].at = cover[m].to THEN "completed" ELSE "active",
                              IF known THEN cover[m].at ELSE NoFeedback)
          /\ EndSession(id, <<e>>)
          /\ <<e>> \o <<Finished(id)>> \in Seq(Events)
          /\ Range(<<e>> \o <<Finished(id)>>) = {e, Finished(id)}
    BY ReportEvents
<1>3. e.nodes = {m} /\ FineEvent(e, cover[m])
    BY <1>2, ReportFine
<1>4. PICK list : list = <<e>>
    OBVIOUS
<1>5. PICK all : all = list \o <<Finished(id)>>
    OBVIOUS
<1>6. all \in Seq(Events) /\ Range(all) = {e, Finished(id)} /\ EndSession(id, list) /\ Emit(all)
    BY <1>2, <1>4, <1>5 DEF EndSession
<1>7. On(all, m) = {e} /\ \A n \in Nodes \ {m} : On(all, n) = {}
    <2>1. \A n : n \notin Finished(id).nodes
        BY <1>2, EventsAbout
    <2> QED
        BY <1>3, <1>6, <2>1 DEF On, About
<1>8. \A n \in Nodes : Free(n)' => \A f \in On(all, n) : FineEvent(f, cover[n])
    BY <1>3, <1>7
<1>9. RunInv' /\ AcceptedInv'
    <2>1. \A n \in Nodes : Free(n)' =>
              \A f \in On(list \o <<Finished(id)>>, n) : FineEvent(f, cover[n])
        BY <1>5, <1>8
    <2>2. \A n \in running[id].nodes : On(list \o <<Finished(id)>>, n) # {}
        BY <1>2, <1>5, <1>7
    <2>3. list \o <<Finished(id)>> \in Seq(Events)
        BY <1>5, <1>6
    <2>4. \A n \in Nodes \ running[id].nodes : n \notin unseen' => n \notin unseen
        BY <1>2
    <2> QED
        BY <1>0, <1>1, <1>6, <2>1, <2>2, <2>3, <2>4, EndKnown
<1>10. ASSUME phase = "setup"
       PROVE  Movers' = {} /\ \A n \in Nodes : SetupNode(n)'
    <2>1. /\ DOMAIN running' = DOMAIN running \ {id}
          /\ \A i \in DOMAIN running' : running'[i] = running[i]
        BY <1>6, WithoutTypes DEF EndSession
    <2>2. Movers' = {}
        BY <1>0, <1>10, <2>1 DEF SetupInv, Movers
    <2>3. Range(events') \subseteq Range(events) \cup Range(all)
        BY <1>6, EmitKeeps
    <2>4. ASSUME NEW n \in Nodes
          PROVE  SetupNode(n)'
        <3>1. SetupNode(n)
            BY <1>0, <1>10 DEF SetupInv
        <3>2. PICK old, new : old = On(events, n) /\ new = On(events', n)
            OBVIOUS
        <3>3. new \subseteq old \cup On(all, n)
            BY <2>3, <3>2 DEF On
        <3>4. \A i, j \in DOMAIN running' : n \in running'[i].nodes /\ n \in running'[j].nodes => i = j
            BY <2>1, <3>1 DEF SetupNode
        <3>5. Asked(n)' <=> Asked(n)
            BY <1>1 DEF Asked, InFlight
        <3>6. CASE n = m
            <4>1. Busy(n)
                BY <1>2, <3>6 DEF Busy
            <4>2. /\ old = {} /\ node[n] = StatusUnknown /\ ~Asked(n) /\ n \notin todo
                BY <3>1, <3>2, <4>1 DEF SetupNode
            <4>3. ~Busy(n)'
                <5>1. \A i \in DOMAIN running : n \in running[i].nodes => i = id
                    BY <1>2, <3>1, <3>6 DEF SetupNode
                <5> QED
                    BY <2>1, <5>1 DEF Busy
            <4>4. FineNode(StatusUnknown, cover[n])
                BY FineUnknown
            <4>5. Free(n)' => FineNode(node'[n], cover'[n]) /\ \A f \in new : FineEvent(f, cover'[n])
                BY <1>1, <1>8, <3>3, <4>2, <4>4
            <4> QED
                BY <1>1, <3>2, <3>4, <3>5, <4>2, <4>3, <4>5 DEF SetupNode, On, About
        <3>7. CASE n # m
            <4>1. Busy(n)' <=> Busy(n)
                BY <1>2, <2>1, <3>7 DEF Busy
            <4>2. new \subseteq old
                BY <1>7, <3>3, <3>7
            <4>3. Free(n)' <=> Free(n)
                BY <1>1, <4>1 DEF Free, Busy
            <4>4. n \in todo' => ~Asked(n)' /\ ~Busy(n)' /\ new = {}
                BY <1>1, <3>1, <3>2, <3>5, <4>1, <4>2 DEF SetupNode
            <4>5. Asked(n)' => ~Busy(n)'
                BY <3>1, <3>5, <4>1 DEF SetupNode
            <4>6. (Asked(n)' \/ Busy(n)') => new = {} /\ node'[n] = StatusUnknown
                BY <1>1, <3>1, <3>2, <3>5, <4>1, <4>2 DEF SetupNode
            <4>7. (n \notin unseen' /\ Free(n)') =>
                      FineNode(node'[n], cover'[n]) /\ \A f \in new : FineEvent(f, cover'[n])
                BY <1>1, <1>2, <3>1, <3>2, <3>7, <4>2, <4>3 DEF SetupNode
            <4> QED
                BY <3>2, <3>4, <4>4, <4>5, <4>6, <4>7 DEF SetupNode, On, About
        <3> QED
            BY <3>6, <3>7
    <2> QED
        BY <2>2, <2>4
<1> QED
    BY <1>1, <1>9, <1>10 DEF KnownInv, SetupInv

\* A session of the actor expires: no node is reported.
LEMMA ExpireKnown ==
    ASSUME Typed, Typed', PhaseInv, KnownInv, NEW id \in sessions, SessionExpires(id)
    PROVE  KnownInv'
<1>0. RunInv /\ AcceptedInv /\ SetupInv
    BY DEF KnownInv
<1>1. UNCHANGED <<phase, todo, task, node, running, cover, unseen>> /\ id \in Ids
    BY DEF SessionExpires, bridgeVars, klfVars, Typed, TypeOK
<1>2. PICK list : list = <<TimedOut(id)>>
    OBVIOUS
<1>3. list \in Seq(Events) /\ Emit(list) /\ Range(list) = {TimedOut(id)}
    BY <1>1, <1>2, EventTypes, ShortRange DEF SessionExpires
<1>4. \A n \in Nodes : On(list, n) = {}
    BY <1>1, <1>3, EventsAbout DEF On, About
<1>5. \A n : (Busy(n)' <=> Busy(n)) /\ (Asked(n)' <=> Asked(n))
    BY <1>1 DEF Busy, Asked, InFlight
<1>6. RunInv'
    BY <1>0, <1>1, <1>3, <1>4, <1>5, RunEmit
<1>7. AcceptedInv'
    BY <1>0, <1>1, <1>3, <1>5, AcceptedEmit
<1>8. \A n \in Nodes : On(events', n) \subseteq On(events, n)
    BY <1>3, <1>4, EmitNothing
<1>9. SetupInv'
    BY <1>0, <1>1, <1>5, <1>8, SetupSame
<1> QED
    BY <1>6, <1>7, <1>9 DEF KnownInv

\* Every step keeps what the bridge will know.
LEMMA KnownKept ==
    ASSUME Typed, Typed', PhaseInv, KnownInv, [Next]_vars
    PROVE  KnownInv'
<1>0. RunInv /\ AcceptedInv /\ SetupInv
    BY DEF KnownInv
<1>1. ASSUME UNCHANGED <<phase, lagged, events, node, unseen, cover, running>>,
             phase = "running", task'.reply = "none"
      PROVE  KnownInv'
    BY <1>0, <1>1, RunSame DEF KnownInv, AcceptedInv, SetupInv
<1>2. CASE UNCHANGED vars
    <2>1. UNCHANGED <<phase, todo, task, lagged, events, node, unseen, cover, running>>
        BY <1>2 DEF vars, bridgeVars, eventVars, klfVars
    <2>2. RunInv'
        BY <1>0, <2>1, RunSame
    <2>3. AcceptedInv'
        BY <1>0, <2>1 DEF AcceptedInv, Busy, On, About
    <2>4. \A n \in Nodes : Asked(n)' => Asked(n)
        BY <2>1 DEF Asked, InFlight
    <2>5. SetupInv'
        BY <1>0, <2>1, <2>4, SetupSame
    <2> QED
        BY <2>2, <2>3, <2>5 DEF KnownInv
<1>3. CASE Bridge
    BY <1>0, <1>3, RunSteps, SetupSteps DEF KnownInv
<1>4. CASE Refresh
    <2>1. task'.reply = "none"
        BY <1>4 DEF Refresh, Idle, NoTask
    <2> QED
        BY <1>1, <1>4, <2>1 DEF Refresh, Idle, eventVars, klfVars
<1>5. CASE Lost
    BY <1>5 DEF Lost, GoOffline, KnownInv, RunInv, AcceptedInv, SetupInv
<1>6. ASSUME NEW message \in Messages, HandleMqttMessage(message)
      PROVE  KnownInv'
    <2>1. task'.reply = "none" /\ phase = "running"
        BY <1>6 DEF HandleMqttMessage, GroupCommand, CoverCommand, Send, Idle
    <2>2. UNCHANGED <<phase, node, eventVars, klfVars>>
        BY <1>6 DEF HandleMqttMessage, GroupCommand, CoverCommand
    <2> QED
        BY <1>1, <2>1, <2>2 DEF eventVars, klfVars
<1> QED
    BY <1>2, <1>3, <1>4, <1>5, <1>6, RequestSteps, TravelKnown, ArriveKnown, ReportKnown, ExpireKnown,
       RemoteKnown DEF Next, Klf

\* The inductive invariant on what the bridge knows.
CoverInv == Typed /\ PhaseInv /\ KnownInv

\* The bridge has read every event: of a cover that no session works on it says nothing
\* wrong, unless the cover moved unreported.
LEMMA QuietFine ==
    ASSUME CoverInv, Quiet, NEW n \in Nodes \ unseen, Free(n)
    PROVE  FineNode(node[n], cover[n]) /\ node[n] \in NodeStates /\ cover[n] \in [at : Places, to : Places]
<1>1. Heard(events, node[n], n, cover[n])
    BY DEF CoverInv, KnownInv, RunInv, Quiet, Idle
<1>2. On(events, n) = {}
    BY ShortRange DEF Quiet, On
<1>3. node[n] \in NodeStates /\ cover[n] \in [at : Places, to : Places]
    BY DEF CoverInv, Typed, TypeOK, NodeStates
<1> QED
    BY <1>1, <1>2, <1>3 DEF Heard

\* The inductive invariant: what waits in the channel, or the cache when nothing does, is
\* right about every cover that no session works on and that did not move unreported.
THEOREM CoversKnown == Spec => []CoverInv
<1>1. Init => CoverInv
    <2> SUFFICES ASSUME Init
                 PROVE  KnownInv
        BY InitTyped, InitPhase DEF CoverInv
    <2> QED
        BY DEF Init, KnownInv, RunInv, AcceptedInv, SetupInv
<1>2. CoverInv /\ [Next]_vars => CoverInv'
    BY TypedKept, PhaseKept, KnownKept DEF CoverInv
<1> QED
    BY <1>1, <1>2, PTL DEF Spec

\* When the bridge has read every event, what it says of a cover that rests is right or
\* unknown, across overruled commands, lost confirmations, late marks of a command,
\* late reports and overwritten events, unless the cover moved before the monitor was on.
THEOREM RestingIsKnown == Spec => []RestIsKnown
<1>1. CoverInv => RestIsKnown
    <2> SUFFICES ASSUME CoverInv, Quiet, NEW n \in Nodes \ unseen, Still(n)
                 PROVE  /\ node[n].current \in {Unknown, cover[n].at}
                        /\ CoverState(node[n]) \in
                               {"unknown", IF cover[n].at = FULLY_CLOSED THEN "closed" ELSE "open"}
        BY DEF RestIsKnown
    <2>1. PICK v, c : v = node[n] /\ c = cover[n]
        OBVIOUS
    <2>2. FineNode(v, c) /\ v \in NodeStates /\ c.at = c.to /\ c.at \in Places
        BY <2>1, QuietFine DEF Still
    <2>3. v.current \in {Unknown, c.at} /\ v.op \in {"done", "execution_error", "unknown"} /\ c.at # Unknown
        BY <2>2, ConstantTypes DEF FineNode, NodeStates
    <2>4. CoverState(v) \in {"unknown", IF c.at = FULLY_CLOSED THEN "closed" ELSE "open"}
        <3>1. CASE v.op = "done" /\ v.current = c.at
            BY <2>3, <3>1 DEF CoverState, Moving
        <3>2. CASE v.op \in {"execution_error", "unknown"}
            BY <3>2 DEF CoverState, Moving
        <3>3. CASE v.current = Unknown
            <4>1. Unknown # FULLY_CLOSED
                BY DEF Unknown, FULLY_CLOSED
            <4> QED
                BY <3>3, <4>1 DEF CoverState
        <3> QED
            BY <2>3, <3>1, <3>2, <3>3
    <2> QED
        BY <2>1, <2>3, <2>4
<1> QED
    BY <1>1, CoversKnown, PTL

-----------------------------------------------------------------------------
(***************************************************************************)
(* Toggles.                                                                *)
(***************************************************************************)
\* A toggle of a node that moves.
LEMMA ToggleOfMoving ==
    ASSUME NEW v \in NodeStates
    PROVE  /\ CoverState(v) = "closing" => ToggleEndpoint(v) = FULLY_OPEN
           /\ CoverState(v) = "opening" => ToggleEndpoint(v) = FULLY_CLOSED
           /\ Moving(v.op) /\ v.target = FULLY_CLOSED => ToggleEndpoint(v) = FULLY_OPEN
           /\ Moving(v.op) /\ v.target = FULLY_OPEN => ToggleEndpoint(v) = FULLY_CLOSED
<1>1. v.current \in MaybePosition /\ v.target \in MaybePosition
    BY DEF NodeStates
<1>2. FULLY_OPEN # FULLY_CLOSED
    BY DEF FULLY_OPEN, FULLY_CLOSED
<1>3. ASSUME CoverState(v) = "closing"
      PROVE  ToggleEndpoint(v) = FULLY_OPEN /\ v.target # FULLY_OPEN
    <2>1. Moving(v.op) /\ v.current # Unknown /\ v.target # Unknown /\ v.target > v.current
        BY <1>3 DEF CoverState
    <2>2. v.target # FULLY_OPEN
        <3>1. v.current \in Percentage /\ v.target \in Percentage
            BY <1>1, <2>1 DEF MaybePosition
        <3>2. \A a \in Percentage : a \in Int /\ FULLY_OPEN <= a /\ a <= FULLY_CLOSED
            BY PositionBounds, Scale
        <3>3. FULLY_OPEN \in Int /\ FULLY_CLOSED \in Int
            BY Scale
        <3> QED
            BY <2>1, <3>1, <3>2, <3>3
    <2> QED
        BY <1>3, <2>1, <2>2 DEF ToggleEndpoint
<1>4. ASSUME CoverState(v) = "opening"
      PROVE  ToggleEndpoint(v) = FULLY_CLOSED /\ v.target # FULLY_CLOSED
    <2>1. Moving(v.op) /\ v.current # Unknown /\ v.target # Unknown /\ v.target < v.current
        BY <1>4 DEF CoverState
    <2>2. v.target # FULLY_CLOSED
        <3>1. v.current \in Percentage /\ v.target \in Percentage
            BY <1>1, <2>1 DEF MaybePosition
        <3>2. \A a \in Percentage : a \in Int /\ FULLY_OPEN <= a /\ a <= FULLY_CLOSED
            BY PositionBounds, Scale
        <3>3. FULLY_OPEN \in Int /\ FULLY_CLOSED \in Int
            BY Scale
        <3> QED
            BY <2>1, <3>1, <3>2, <3>3
    <2> QED
        BY <1>4, <2>1, <2>2 DEF ToggleEndpoint
<1>5. ASSUME Moving(v.op), v.target = FULLY_CLOSED
      PROVE  ToggleEndpoint(v) = FULLY_OPEN
    BY <1>2, <1>4, <1>5 DEF ToggleEndpoint
<1>6. ASSUME Moving(v.op), v.target = FULLY_OPEN
      PROVE  ToggleEndpoint(v) = FULLY_CLOSED
    BY <1>2, <1>3, <1>6 DEF ToggleEndpoint
<1> QED
    BY <1>3, <1>4, <1>5, <1>6

\* A toggle of a node that says nothing wrong of its cover.
LEMMA ToggleOfFine ==
    ASSUME NEW v \in NodeStates, NEW c \in [at : Places, to : Places], FineNode(v, c),
           c.at = c.to \/ Moving(v.op)
    PROVE  ToggleEndpoint(v) \in {Unknown, Against(c)}
<1>1. v.op \in {"executing", "done", "execution_error", "unknown"} /\ v.current \in {Unknown, c.at}
    BY DEF NodeStates, FineNode
<1>2. c.at \in Percentage /\ c.to \in Percentage /\ c.at # Unknown /\ c.to # Unknown
    BY ConstantTypes
<1>3. /\ \A a \in Percentage : a \in Int /\ FULLY_OPEN <= a /\ a <= FULLY_CLOSED
      /\ FULLY_OPEN \in Int /\ FULLY_CLOSED \in Int /\ FULLY_OPEN # FULLY_CLOSED
    BY PositionBounds, Scale
<1>4. CASE c.at = c.to
    <2>1. ~Moving(v.op)
        BY <1>1, <1>4 DEF FineNode, Moving
    <2> QED
        BY <1>1, <1>4, <2>1 DEF ToggleEndpoint, Against
<1>5. CASE c.at # c.to
    <2>1. Moving(v.op) /\ v.target = c.to
        BY <1>1, <1>5 DEF FineNode, Moving
    <2>2. /\ c.at < c.to => Against(c) = FULLY_OPEN
          /\ c.to < c.at => Against(c) = FULLY_CLOSED
          /\ c.at < c.to \/ c.to < c.at
        BY <1>2, <1>3, <1>5 DEF Against
    <2>3. CASE c.to = FULLY_CLOSED
        <3>1. c.at < c.to
            BY <1>2, <1>3, <1>5, <2>3
        <3> QED
            BY <2>1, <2>2, <2>3, <3>1, ToggleOfMoving
    <2>4. CASE c.to = FULLY_OPEN
        <3>1. c.to < c.at
            BY <1>2, <1>3, <1>5, <2>4
        <3> QED
            BY <2>1, <2>2, <2>4, <3>1, ToggleOfMoving
    <2>5. CASE v.current = c.at
        <3>1. /\ c.at < c.to => CoverState(v) = "closing"
              /\ c.to < c.at => CoverState(v) = "opening"
            <4>1. Moving(v.op) /\ Unknown \notin {v.current, v.target} /\ c.at \in Int /\ c.to \in Int
                BY <1>2, <1>3, <2>1, <2>5
            <4>2. ~(c.at < c.to /\ c.to < c.at)
                BY <4>1
            <4>3. v.op \notin {"non_executing", "done"}
                BY <4>1 DEF Moving
            <4> QED
                BY <2>1, <2>5, <4>1, <4>2, <4>3 DEF CoverState
        <3> QED
            BY <2>2, <3>1, ToggleOfMoving
    <2>6. CASE c.to \notin {FULLY_OPEN, FULLY_CLOSED} /\ v.current = Unknown
        <3>1. CoverState(v) \notin {"closing", "opening"}
            BY <2>6 DEF CoverState
        <3> QED
            BY <2>1, <2>6, <3>1 DEF ToggleEndpoint
    <2> QED
        BY <1>1, <2>3, <2>4, <2>5, <2>6
<1> QED
    BY <1>4, <1>5

\* When the bridge has read every event, a toggle sends a cover that rests away from the
\* end it is nearer to, and a cover that it knows to move against its real movement,
\* or asks for the status; not for covers that a session works on, or that moved before
\* the monitor was on.
THEOREM TogglesReverse == Spec => []ToggleReverses
<1>1. CoverInv => ToggleReverses
    <2> SUFFICES ASSUME CoverInv, Quiet, NEW n \in Nodes \ unseen, Free(n),
                        cover[n].at = cover[n].to \/ Moving(node[n].op)
                 PROVE  ToggleEndpoint(node[n]) \in {Unknown, Against(cover[n])}
        BY DEF ToggleReverses
    <2>1. PICK v, c : v = node[n] /\ c = cover[n]
        OBVIOUS
    <2>2. FineNode(v, c) /\ v \in NodeStates /\ c \in [at : Places, to : Places]
        BY <2>1, QuietFine
    <2>3. c.at = c.to \/ Moving(v.op)
        BY <2>1
    <2>4. ToggleEndpoint(v) \in {Unknown, Against(c)}
        BY <2>2, <2>3, ToggleOfFine
    <2> QED
        BY <2>1, <2>4
<1> QED
    BY <1>1, CoversKnown, PTL

=============================================================================
