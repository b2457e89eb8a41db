----------------------------- MODULE CoverControl -----------------------------
(***************************************************************************)
(* What the bridge believes of its covers, and the sessions it opens to    *)
(* move and to query them (src/bridge.rs, src/veluxnode.rs).  The bridge   *)
(* sends a request and waits for its confirmation; meanwhile the           *)
(* notifications of the KLF gather in the bounded event channel of the     *)
(* connection, which the bridge reads only between its handlers.           *)
(*                                                                         *)
(* The KLF and the covers are external.  The KLF reports the end of every  *)
(* command and, while house monitoring is on, every movement; it drops the *)
(* sessions of a lost connection.  Session identifiers are those of        *)
(* SessionIdAllocator; its cursor passes all of them before it returns to  *)
(* one, so an identifier is not handed out while a trace of it is left.    *)
(* All nodes are controllable: a command for another one changes nothing.  *)
(* Commands are ignored while there is no gateway.                         *)
(***************************************************************************)
EXTENDS Positions, Sequences, SequencesExt, FiniteSets

CONSTANTS
    Nodes,          \* covers
    Ids,            \* session identifiers
    Places,         \* raw positions that a cover can take
    EventCapacity,  \* event_buffer of the connection
    MaxCommands,    \* bound: commands of MQTT
    MaxMoves        \* bound: movements by a remote control

ASSUME PlacesAssumption == {FULLY_OPEN, FULLY_CLOSED} \subseteq Places /\ Places \subseteq Percentage
ASSUME NodesAssumption == IsFiniteSet(Nodes)
ASSUME IdsAssumption == Ids \subseteq Nat \ {0} /\ IsFiniteSet(Ids)
ASSUME BoundsAssumption == EventCapacity \in Nat \ {0} /\ MaxCommands \in Nat /\ MaxMoves \in Nat

VARIABLES
    phase,      \* "offline", "setup" or "running"
    todo,       \* nodes that the setup or a refresh has still to query
    task,       \* the request whose confirmation the bridge waits for
    ids,        \* session_ids: active identifiers
    node,       \* the node cache
    sessions,   \* sessions of the connection actor
    events,     \* event channel, oldest first
    lagged,     \* the channel has overwritten an event the bridge has not read
    running,    \* the KLF: the sessions it works on, and their nodes
    cover,      \* the covers: where they are and where they move to
    monitor,    \* the KLF: house monitoring
    unseen,     \* history: covers that moved unreported
    leaked,     \* history: sessions whose end was overwritten during setup
    left        \* bounds: commands and moves left

bridgeVars == <<phase, todo, task, ids, node>>
eventVars == <<events, lagged, leaked>>
klfVars == <<running, cover, monitor, unseen>>
vars == <<bridgeVars, eventVars, klfVars, sessions, left>>

Endpoint == [open |-> FULLY_OPEN, closed |-> FULLY_CLOSED]
NoTask == [kind |-> "none", id |-> 0, nodes |-> {}, goal |-> Unknown, reply |-> "none"]
NoFeedback == 63487

-----------------------------------------------------------------------------
(***************************************************************************)
(* A node: what was last heard of its cover.                               *)
(***************************************************************************)
NodeState(op, current, target) == [op |-> op, current |-> current, target |-> target]
Moving(op) == op \in {"executing", "waiting_for_power"}

\* derive_cover_state.
CoverState(v) ==
    CASE Moving(v.op) /\ Unknown \notin {v.current, v.target} /\ v.target > v.current -> "closing"
      [] Moving(v.op) /\ Unknown \notin {v.current, v.target} /\ v.target < v.current -> "opening"
      [] v.op \in {"non_executing", "done"} /\ v.current = FULLY_CLOSED -> "closed"
      [] v.op \in {"non_executing", "done"} /\ v.current \notin {Unknown, FULLY_CLOSED} -> "open"
      [] OTHER -> "unknown"

\* Mutant of ToggleEndpoint: the target is not asked.
ToggleEndpointByPosition(v) ==
    IF v.current = Unknown THEN Unknown
    ELSE IF v.current >= FromPercent(50) THEN FULLY_OPEN ELSE FULLY_CLOSED

\* toggle_endpoint: against the movement, else away from the nearer end.
ToggleEndpoint(v) ==
    CASE Moving(v.op) /\ v.target = FULLY_CLOSED -> FULLY_OPEN
      [] Moving(v.op) /\ v.target = FULLY_OPEN -> FULLY_CLOSED
      [] Moving(v.op) /\ CoverState(v) = "closing" -> FULLY_OPEN
      [] Moving(v.op) /\ CoverState(v) = "opening" -> FULLY_CLOSED
      [] OTHER -> IF v.current = Unknown THEN Unknown
                  ELSE IF v.current >= FromPercent(50) THEN FULLY_OPEN ELSE FULLY_CLOSED

ResolveAction(v, action) == IF action = "toggle" THEN ToggleEndpoint(v) ELSE Endpoint[action]

FromRunStatus(run) ==
    CASE run = "completed" -> "done" [] run = "failed" -> "execution_error" [] run = "active" -> "executing"

MarkCommandAccepted(v, goal) == [v EXCEPT !.op = "executing", !.target = goal]
StatusUnknown == NodeState("unknown", Unknown, Unknown)

-----------------------------------------------------------------------------
(***************************************************************************)
(* Events.                                                                 *)
(***************************************************************************)
Event(type, id, n, value) == [type |-> type, id |-> id, nodes |-> n, value |-> value]
Finished(id) == Event("finished", id, {}, StatusUnknown)
TimedOut(id) == Event("timed_out", id, {}, StatusUnknown)
RunStatus(id, n, run) == Event("run_status", id, {n}, NodeState(run, cover[n].at, Unknown))
StatusReport(id, n, run, current) == Event("status", id, {n}, NodeState(run, current, cover[n].to))
StatePosition(n, at, to) ==
    Event("state_position", 0, {n}, NodeState(IF at = to THEN "done" ELSE "executing", at, to))

\* Mutant of Applied: apply_state_position leaves the current position.
AppliedHalf(v, e) ==
    CASE e.type = "state_position" ->
             [v EXCEPT !.op = e.value.op, !.target = RelativePosition(e.value.target)]
      [] e.type = "status" ->
             NodeState(FromRunStatus(e.value.op), RelativePosition(e.value.current),
                       RelativePosition(e.value.target))
      [] e.type = "run_status" ->
             [v EXCEPT !.op = FromRunStatus(e.value.op), !.current = RelativePosition(e.value.current)]

\* apply_state_position, apply_status and apply_run_status.
Applied(v, e) ==
    CASE e.type = "state_position" ->
             NodeState(e.value.op, RelativePosition(e.value.current), RelativePosition(e.value.target))
      [] e.type = "status" ->
             NodeState(FromRunStatus(e.value.op), RelativePosition(e.value.current),
                       RelativePosition(e.value.target))
      [] e.type = "run_status" ->
             [v EXCEPT !.op = FromRunStatus(e.value.op), !.current = RelativePosition(e.value.current)]

Ends(e) == e.type \in {"finished", "timed_out"}

\* VeluxNodeCache::apply_response, and the release of a session that has ended.
Handle(e) ==
    /\ node' = [n \in Nodes |-> IF n \in e.nodes THEN Applied(node[n], e) ELSE node[n]]
    /\ ids' = IF Ends(e) THEN ids \ {e.id} ELSE ids

\* The channel keeps the newest events; a receiver that falls behind is told so.
Emit(list) ==
    LET all == events \o list
        lost == IF Len(all) > EventCapacity THEN Len(all) - EventCapacity ELSE 0
    IN  /\ events' = SubSeq(all, lost + 1, Len(all))
        /\ lagged' = (lagged \/ lost > 0)
        /\ leaked' = IF phase # "setup" THEN leaked
                     ELSE leaked \cup {e.id : e \in {f \in Range(SubSeq(all, 1, lost)) : Ends(f)}}

-----------------------------------------------------------------------------
(***************************************************************************)
(* The bridge sends a request.                                             *)
(***************************************************************************)
Fresh == Ids \ (ids \cup sessions \cup DOMAIN running \cup {e.id : e \in Range(events)})

\* allocate and send.
Send(kind, nodes, goal) ==
    LET id == Min(Fresh) IN
    /\ Fresh # {}
    /\ ids' = ids \cup {id}
    /\ task' = [kind |-> kind, id |-> id, nodes |-> nodes, goal |-> goal, reply |-> "none"]

Idle == phase = "running" /\ task = NoTask /\ todo = {}
Command == left.commands > 0 /\ left' = [left EXCEPT !.commands = @ - 1]

\* execute_cover_command: a toggle without a position asks for the status instead.
CoverCommand(n, action) ==
    LET goal == ResolveAction(node[n], action) IN
    /\ Idle /\ Command
    /\ Send(IF goal = Unknown THEN "status" ELSE "command", {n}, goal)
    /\ UNCHANGED <<phase, todo, node, eventVars, klfVars, sessions>>

GroupCommand(action) ==
    /\ Idle /\ Command
    /\ Send("group", Nodes, Endpoint[action])
    /\ UNCHANGED <<phase, todo, node, eventVars, klfVars, sessions>>

\* A control message of MQTT, for a node or for the group of all nodes.
TheGroup == "group"
Messages == [retained : BOOLEAN, target : Nodes \cup {TheGroup}, action : {"open", "closed", "toggle"}]

\* parse_command: no retained message is a command, and a group cannot be toggled.
ParseCommand(message) ==
    ~message.retained /\ (message.target = TheGroup => message.action # "toggle")

HandleMqttMessage(message) ==
    /\ ParseCommand(message)
    /\ IF message.target = TheGroup THEN GroupCommand(message.action)
       ELSE CoverCommand(message.target, message.action)

Refreshable == {n \in Nodes : CoverState(node[n]) \notin {"opening", "closing"}}

\* refresh_stationary_nodes: one status request after the other.
Refresh ==
    /\ Idle /\ Refreshable # {}
    /\ todo' = Refreshable
    /\ UNCHANGED <<phase, task, ids, node, eventVars, klfVars, sessions, left>>

RequestStatus(n) ==
    /\ phase = "running" /\ task = NoTask /\ n \in todo
    /\ todo' = todo \ {n}
    /\ Send("status", {n}, Unknown)
    /\ UNCHANGED <<phase, node, eventVars, klfVars, sessions, left>>

\* The confirmation has arrived: the session stays open until its end is reported.
Confirmed ==
    /\ task.reply = "accepted"
    /\ node' = [n \in Nodes |-> IF task.kind = "command" /\ n \in task.nodes
                                THEN MarkCommandAccepted(node[n], task.goal) ELSE node[n]]
    /\ task' = IF task.kind = "query" THEN [task EXCEPT !.kind = "await", !.reply = "none"] ELSE NoTask
    /\ UNCHANGED <<phase, todo, ids, eventVars, klfVars, sessions, left>>

\* Mutant of Refused: the identifier of a rejected request is not released.
RefusedKept ==
    /\ task.reply \in {"rejected", "failed"}
    /\ ids' = IF task.reply = "rejected" THEN ids ELSE ids \ {task.id}
    /\ task' = NoTask
    /\ UNCHANGED <<phase, todo, node, eventVars, klfVars, sessions, left>>

Refused ==
    /\ task.reply \in {"rejected", "failed"}
    /\ ids' = ids \ {task.id}
    /\ task' = NoTask
    /\ UNCHANGED <<phase, todo, node, eventVars, klfVars, sessions, left>>

-----------------------------------------------------------------------------
(***************************************************************************)
(* The bridge reads an event.                                              *)
(***************************************************************************)
ReceiveEvent ==
    /\ Idle /\ ~lagged /\ events # <<>>
    /\ Handle(Head(events))
    /\ events' = Tail(events)
    /\ UNCHANGED <<phase, todo, task, lagged, leaked, klfVars, sessions, left>>

\* gateway_failed: everything of the connection is dropped.
GoOffline ==
    /\ phase' = "offline"
    /\ todo' = {} /\ task' = NoTask /\ ids' = {}
    /\ sessions' = {} /\ events' = <<>> /\ lagged' = FALSE /\ leaked' = {}
    /\ running' = <<>>
    /\ UNCHANGED <<node, cover, monitor, unseen>>

ReceiveLagged ==
    /\ Idle /\ lagged
    /\ GoOffline
    /\ UNCHANGED left

Lost ==
    /\ phase # "offline"
    /\ GoOffline
    /\ UNCHANGED left

-----------------------------------------------------------------------------
(***************************************************************************)
(* Setup: discovery, then the status of every node, then monitoring.       *)
(***************************************************************************)
Discovered(n) == StatePosition(n, cover[n].at, cover[n].to).value

\* reconcile: a new cache takes every node that was discovered.
Reconcile == [n \in Nodes |-> Discovered(n)]

Reconnect ==
    /\ phase = "offline"
    /\ phase' = "setup" /\ todo' = Nodes
    /\ ids' = {}
    /\ node' = Reconcile
    /\ monitor' = FALSE
    /\ unseen' = {}
    /\ UNCHANGED <<task, eventVars, running, cover, sessions, left>>

\* query_initial_status.
QueryStatus(n) ==
    /\ phase = "setup" /\ task = NoTask /\ n \in todo
    /\ todo' = todo \ {n}
    /\ node' = [node EXCEPT ![n] = StatusUnknown]
    /\ Send("query", {n}, Unknown)
    /\ UNCHANGED <<phase, eventVars, klfVars, sessions, left>>

Answers(e) == e.id = task.id /\ e.type \in {"status", "timed_out"}

AwaitEvent ==
    /\ task.kind = "await" /\ ~lagged /\ events # <<>>
    /\ Handle(Head(events))
    /\ events' = Tail(events)
    /\ task' = IF Answers(Head(events)) THEN NoTask ELSE task
    /\ UNCHANGED <<phase, todo, lagged, leaked, klfVars, sessions, left>>

\* The channel lags or the answer takes too long: the node stays unknown.
AwaitFails ==
    /\ task.kind = "await"
    /\ task' = NoTask
    /\ lagged' = FALSE
    /\ UNCHANGED <<phase, todo, ids, node, events, leaked, klfVars, sessions, left>>

EnableMonitor ==
    /\ phase = "setup" /\ task = NoTask /\ todo = {}
    /\ phase' = "running" /\ monitor' = TRUE
    /\ UNCHANGED <<todo, task, ids, node, eventVars, running, cover, unseen, sessions, left>>

-----------------------------------------------------------------------------
(***************************************************************************)
(* The connection actor.                                                   *)
(***************************************************************************)
SessionExpires(id) ==
    /\ id \in sessions
    /\ sessions' = sessions \ {id}
    /\ Emit(<<TimedOut(id)>>)
    /\ UNCHANGED <<bridgeVars, klfVars, left>>

InFlight == task.kind \in {"command", "group", "status", "query"} /\ task.reply = "none"

\* The sessions that lose their nodes to a new movement fail.
Movers == {id \in DOMAIN running : running[id].moves}
Overruled(nodes) == {id \in Movers : running[id].nodes \cap nodes # {}}
Without(gone) == [id \in DOMAIN running \ gone |-> running[id]]
Failures(gone) ==
    FlattenSeq([i \in 1..Cardinality(gone) |->
        LET id == SetToSeq(gone)[i]
        IN  [j \in 1..Cardinality(running[id].nodes) |->
                RunStatus(id, SetToSeq(running[id].nodes)[j], "failed")] \o <<Finished(id)>>])

\* The KLF begins to work on the request in flight.
Begin(confirmed) ==
    LET moves == task.kind \in {"command", "group"}
        gone == IF moves THEN Overruled(task.nodes) ELSE {}
        session == [nodes |-> task.nodes, moves |-> moves]
    IN  /\ running' = [id \in (DOMAIN running \ gone) \cup {task.id} |->
                           IF id = task.id THEN session ELSE running[id]]
        /\ cover' = [n \in Nodes |-> IF moves /\ n \in task.nodes
                                     THEN [cover[n] EXCEPT !.to = task.goal] ELSE cover[n]]
        /\ sessions' = (sessions \ gone) \cup confirmed
        /\ Emit(Failures(gone))

Accept ==
    /\ InFlight
    /\ Begin({task.id})
    /\ task' = [task EXCEPT !.reply = "accepted"]
    /\ UNCHANGED <<phase, todo, ids, node, monitor, unseen, left>>

Reject ==
    /\ InFlight
    /\ task' = [task EXCEPT !.reply = "rejected"]
    /\ UNCHANGED <<phase, todo, ids, node, eventVars, klfVars, sessions, left>>

\* The confirmation is lost or late: the KLF may work on the request all the same.
RequestExpires ==
    /\ InFlight
    /\ task' = [task EXCEPT !.reply = "failed"]
    /\ \/ Begin({}) /\ UNCHANGED <<monitor, unseen>>
       \/ UNCHANGED <<eventVars, klfVars, sessions>>
    /\ UNCHANGED <<phase, todo, ids, node, left>>

-----------------------------------------------------------------------------
(***************************************************************************)
(* The KLF and the covers.                                                 *)
(***************************************************************************)
Between(a, b) == {p \in Places : (a < p /\ p <= b) \/ (b <= p /\ p < a)}

Travel(n, at) ==
    /\ at \in Between(cover[n].at, cover[n].to)
    /\ cover' = [cover EXCEPT ![n].at = at]
    /\ IF monitor /\ phase # "offline"
       THEN Emit(<<StatePosition(n, at, cover[n].to)>>) /\ unseen' = unseen \ {n}
       ELSE unseen' = unseen \cup {n} /\ UNCHANGED eventVars
    /\ UNCHANGED <<bridgeVars, running, monitor, sessions, left>>

EndSession(id, list) ==
    /\ running' = Without({id})
    /\ sessions' = sessions \ {id}
    /\ Emit(list \o <<Finished(id)>>)

\* Every node of a movement has arrived.
Arrive(id) ==
    LET nodes == SetToSeq(running[id].nodes) IN
    /\ id \in Movers
    /\ \A n \in running[id].nodes : cover[n].at = cover[n].to
    /\ EndSession(id, [i \in DOMAIN nodes |-> RunStatus(id, nodes[i], "completed")])
    /\ UNCHANGED <<bridgeVars, cover, monitor, unseen, left>>

\* The answer to a status request; the KLF need not know the position.
Report(id, known) ==
    LET n == CHOOSE m \in running[id].nodes : TRUE
        run == IF cover[n].at = cover[n].to THEN "completed" ELSE "active"
    IN  /\ id \in DOMAIN running \ Movers
        /\ EndSession(id, <<StatusReport(id, n, run, IF known THEN cover[n].at ELSE NoFeedback)>>)
        /\ unseen' = unseen \ {n}
        /\ UNCHANGED <<bridgeVars, cover, monitor, left>>

\* Somebody uses the remote control.
RemoteMove(n, to) ==
    LET gone == Overruled({n}) IN
    /\ left.moves > 0 /\ left' = [left EXCEPT !.moves = @ - 1]
    /\ cover[n].to # to
    /\ cover' = [cover EXCEPT ![n].to = to]
    /\ running' = Without(gone)
    /\ sessions' = sessions \ gone
    /\ IF monitor /\ phase # "offline"
       THEN Emit(Failures(gone) \o <<StatePosition(n, cover[n].at, to)>>) /\ unseen' = unseen \ {n}
       ELSE Emit(Failures(gone)) /\ unseen' = unseen \cup {n}
    /\ UNCHANGED <<bridgeVars, monitor>>

-----------------------------------------------------------------------------
Init ==
    /\ phase = "offline" /\ todo = {} /\ task = NoTask /\ ids = {}
    /\ node = [n \in Nodes |-> StatusUnknown]
    /\ sessions = {} /\ events = <<>> /\ lagged = FALSE /\ leaked = {}
    /\ running = <<>>
    /\ cover \in [Nodes -> {[at |-> p, to |-> p] : p \in Places}]
    /\ monitor \in BOOLEAN
    /\ unseen = {}
    /\ left = [commands |-> MaxCommands, moves |-> MaxMoves]

Bridge ==
    \/ Reconnect \/ (\E n \in Nodes : QueryStatus(n)) \/ AwaitEvent \/ AwaitFails \/ EnableMonitor
    \/ Confirmed \/ Refused
    \/ ReceiveEvent \/ ReceiveLagged
    \/ \E n \in Nodes : RequestStatus(n)

Klf ==
    \/ Accept \/ Reject \/ RequestExpires
    \/ \E n \in Nodes, at \in Places : Travel(n, at)
    \/ \E id \in DOMAIN running : Arrive(id) \/ \E known \in BOOLEAN : Report(id, known)

Next ==
    \/ Bridge \/ Klf \/ Refresh \/ Lost
    \/ \E message \in Messages : HandleMqttMessage(message)
    \/ \E id \in sessions : SessionExpires(id)
    \/ \E n \in Nodes, to \in Places : RemoteMove(n, to)

Spec == Init /\ [][Next]_vars

\* The bridge's loop goes on and its refresh timer fires again and again; a request
\* is answered or expires, covers arrive and the KLF ends what it has begun.
Fairness == WF_vars(Bridge) /\ WF_vars(Klf) /\ SF_vars(Refresh)
FairSpec == Spec /\ Fairness

-----------------------------------------------------------------------------
MaybePosition == Percentage \cup {Unknown}

\* Every variable has its type; the event channel keeps to its capacity, and what
\* the cache calls a position is one, whatever raw value the KLF has sent.
TypeOK ==
    /\ phase \in {"offline", "setup", "running"}
    /\ todo \subseteq Nodes
    /\ task \in [kind : {"none", "command", "group", "status", "query", "await"}, id : Ids \cup {0},
                 nodes : SUBSET Nodes, goal : MaybePosition,
                 reply : {"none", "accepted", "rejected", "failed"}]
    /\ ids \subseteq Ids /\ sessions \subseteq Ids /\ DOMAIN running \subseteq Ids
    /\ node \in [Nodes -> [op : {"executing", "done", "execution_error", "unknown"},
                           current : MaybePosition, target : MaybePosition]]
    /\ Len(events) <= EventCapacity
    /\ cover \in [Nodes -> [at : Places, to : Places]]
    /\ lagged \in BOOLEAN /\ monitor \in BOOLEAN

\* No session identifier is lost: what the bridge holds is in flight, open in the
\* actor, or its end waits in the channel.  Only the ends that a lagging channel
\* overwrites during setup are forgotten until the next connection.
IdsAccounted ==
    (phase # "offline" /\ ~lagged) =>
        ids \subseteq sessions \cup {task.id} \cup leaked
                \cup {e.id : e \in {f \in Range(events) : Ends(f)}}

\* No session works on a cover; it rests.
Free(n) == \A id \in DOMAIN running : n \notin running[id].nodes
Still(n) == Free(n) /\ cover[n].at = cover[n].to
Quiet == Idle /\ ~lagged /\ events = <<>>

\* When the bridge has read every event and a cover rests, its position in the cache
\* is the real one or unknown, and its state is not a wrong one: across overruled
\* commands, lost confirmations, late reports and overwritten events.  Movements
\* between the query of the setup and its enabling of the monitor are not seen.
RestIsKnown ==
    Quiet => \A n \in Nodes \ unseen : Still(n) =>
        /\ node[n].current \in {Unknown, cover[n].at}
        /\ CoverState(node[n]) \in {"unknown", IF cover[n].at = FULLY_CLOSED THEN "closed" ELSE "open"}

\* Where a toggle should send a cover: against its movement, or from where it rests to
\* the end that is farther away.
Against(c) ==
    CASE c.at < c.to -> FULLY_OPEN
      [] c.at > c.to -> FULLY_CLOSED
      [] c.at = c.to -> IF c.at >= FromPercent(50) THEN FULLY_OPEN ELSE FULLY_CLOSED

\* When the bridge has read every event and no command works on a cover, a toggle sends
\* the real cover where it should, or asks for its status: a cover that rests, and one
\* that the bridge takes to be moving, by a remote control or since before the
\* connection, whatever commands, failures and late marks of a command came before.
\* It is not about a cover that a command moves: a lost confirmation, a group command
\* and the failure of a superseded command leave the cache behind until it moves on.
ToggleReverses ==
    Quiet => \A n \in Nodes \ unseen :
        (Free(n) /\ (cover[n].at = cover[n].to \/ Moving(node[n].op))) =>
            ToggleEndpoint(node[n]) \in {Unknown, Against(cover[n])}

\* What is said of the refresh: it is for stationary nodes.  Once the covers rest, no
\* node is published as opening or closing for ever.
StationaryRefreshed ==
    <>[](phase = "running" => \A n \in Nodes : CoverState(node[n]) \notin {"opening", "closing"})
=============================================================================
