----------------------------- MODULE Discovery ------------------------------
(***************************************************************************)
(* The operations of Klf200Client that collect notifications:              *)
(* discover_nodes, node_information and discover_groups of                 *)
(* src/klf200/connection.rs.  Each takes the request gate, subscribes to   *)
(* the events, sends one request and reads events until its answer is      *)
(* complete.  An operation can be dropped at any await.                    *)
(***************************************************************************)
EXTENDS Exchange

CONSTANTS
    EventBuffer,    \* the capacity of the broadcast channel
    Inventories     \* the nodes or groups a gateway may have, in the order it lists them

ASSUME DiscoveryAssumption == EventBuffer \in Nat \ {0} /\ Inventories \subseteq Seq(Nat)

VARIABLES
    op,         \* the operation that holds the gate, or NoOp
    inbox,      \* the events its receiver has not read
    lagged,     \* events were dropped from a full inbox
    orphan,     \* the request in the actor's queue whose caller is gone, or NoRequest
    stream,     \* the notifications the gateway has still to send
    reported    \* history: what the gateway's last stream is about

client == <<op, inbox, lagged, orphan>>
streams == <<stream, reported>>
discoveryVars == <<allocator, exchange, client, streams>>

NoOp == [kind |-> "none"]

RequestOf(kind, object) ==
    CASE kind = "discover_nodes" -> Plain("GetAllNodesInformation", NoSession)
      [] kind = "discover_groups" -> Plain("GetAllGroups", NoSession)
      [] kind = "node_information" ->
            [Plain("GetNodeInformation", NoSession) EXCEPT !.subject = object]
Calls == {<<"discover_nodes", 0>>, <<"discover_groups", 0>>, <<"node_information", 2>>}
Asked == {RequestOf(call[1], call[2]) : call \in Calls}

-----------------------------------------------------------------------------
About(stem, subject) ==
    [WellFormed(Frame(Id[NTF(stem)], 0, NoSession, 0)) EXCEPT !.subject = subject]

NotificationOf == [GetAllNodesInformation |-> "GET_ALL_NODES_INFORMATION",
                   GetNodeInformation |-> "GET_NODE_INFORMATION",
                   GetAllGroups |-> "GET_ALL_GROUPS_INFORMATION"]
FinishedOf == [GetAllNodesInformation |-> "GET_ALL_NODES_INFORMATION_FINISHED",
               GetAllGroups |-> "GET_ALL_GROUPS_INFORMATION_FINISHED"]
Notifications(kind, subjects) ==
    [i \in DOMAIN subjects |-> About(NotificationOf[kind], subjects[i])]
    \o IF kind \in DOMAIN FinishedOf THEN <<About(FinishedOf[kind], 0)>> ELSE <<>>

\* The gateway confirms with status 0 and then sends what it has, or with 1 (no
\* such node, busy) or 2 (no groups) and sends nothing.  The confirmation of a
\* single node may name another one.
Subjects(request) ==
    IF request.kind = "GetNodeInformation" THEN {<<request.subject>>} ELSE Inventories
GatewayStreams ==
    /\ asked # NoRequest /\ asked.kind \in StreamKinds
    /\ stream = <<>> /\ Len(incoming) < MaxFlight
    /\ \/ \E subjects \in Subjects(asked), confirmed \in {asked.subject, 1} :
             /\ stream' = Notifications(asked.kind, subjects)
             /\ reported' = subjects
             /\ incoming' = Append(incoming, [Confirmation(asked, 0) EXCEPT !.subject = confirmed])
       \/ \E status \in {1, 2} :
             /\ incoming' = Append(incoming, Confirmation(asked, status))
             /\ reported' = <<>> /\ UNCHANGED stream
    /\ asked' = NoRequest /\ event' = Nothing
    /\ UNCHANGED <<allocator, pending, sessions, running, stale, client>>

GatewayNotifies ==
    /\ stream # <<>> /\ Len(incoming) < MaxFlight
    /\ incoming' = Append(incoming, Head(stream))
    /\ stream' = SubSeq(stream, 2, Len(stream))
    /\ event' = Nothing
    /\ UNCHANGED <<allocator, pending, sessions, gateway, stale, client, reported>>

\* Notifications that belong to no operation: an answer to GetGroup, and a frame that
\* cannot be read.  Bound: they come during operations that DiscoveryTrue is about.
Chatter == {About("GET_GROUP_INFORMATION", 2),
            [About("NODE_STATE_POSITION_CHANGED", 1) EXCEPT !.length = 19]}
GatewayChatters ==
    /\ op # NoOp /\ op.clean /\ Len(incoming) < MaxFlight
    /\ \E frame \in Chatter : incoming' = Append(incoming, frame)
    /\ event' = Nothing
    /\ UNCHANGED <<allocator, pending, sessions, gateway, stale, client, streams>>

\* What the tables say of the answers to the operations' requests and of what comes
\* between them.  It has no parameter: TLC evaluates it, and the proofs start from it.
NotifiedAs(stem, variant) ==
    Id[NTF(stem)] \in KnownIds /\ Tables[0][Id[NTF(stem)]].variant = variant
ASSUME StreamTables ==
    /\ \A kind \in StreamKinds :
          /\ kind # "Raw" /\ kind \notin SessionKinds
          /\ Kind(Id[REQ(StemOf[kind])]) = "Request"
          /\ known[Id[REQ(StemOf[kind])]][1] = StemOf[kind] /\ CFM(StemOf[kind]) \in Names
          /\ Kind(ConfirmationOf(kind)) = "Confirmation"
          /\ NotifiedAs(NotificationOf[kind],
                        IF kind = "GetAllGroups" THEN "GroupInformation" ELSE "NodeInformation")
    /\ \A kind \in DOMAIN FinishedOf : NotifiedAs(FinishedOf[kind], "Acknowledgement")
    /\ \A frame \in Chatter :
          /\ Kind(frame.command) = "Notification"
          /\ LayoutOf(frame).variant \notin {"NodeInformation", "Acknowledgement"}
          /\ frame.command # Id[NTF(NotificationOf.GetAllGroups)]

-----------------------------------------------------------------------------
\* Nothing of an earlier operation is still to be sent, answered or handled.
Clean ==
    /\ pending = NoRequest /\ asked = NoRequest /\ stream = <<>> /\ orphan = NoRequest
    /\ \A i \in DOMAIN incoming : incoming[i] \in Chatter

\* request_gate.lock and subscribe.  Bound: what an earlier operation left behind is
\* still with the gateway or the actor.
Begin ==
    /\ op = NoOp /\ phase = "idle"
    /\ Fresh /\ active = {} /\ sessions = {} /\ stale = {} /\ \A s \in Ids : running[s] = 0
    /\ {pending, asked} \subseteq Asked \cup {NoRequest}
    /\ Clean \/ incoming = <<>>
    /\ \E call \in Calls :
          op' = [kind |-> call[1], object |-> call[2], stage |-> "asking", found |-> <<>>,
                 answer |-> Nothing, clean |-> Clean]
    /\ inbox' = <<>> /\ lagged' = FALSE /\ event' = Nothing
    /\ UNCHANGED <<allocator, pending, sessions, gateway, incoming, stale, orphan, streams>>

\* send_unlocked; the actor dispatches requests in the order they came.
Ask ==
    /\ op # NoOp /\ op.stage = "asking" /\ orphan = NoRequest
    /\ Dispatch(RequestOf(op.kind, op.object))
    /\ op' = [op EXCEPT !.stage = "waiting"]
    /\ UNCHANGED <<inbox, lagged, orphan, streams>>

AskOrphaned ==
    /\ orphan # NoRequest
    /\ Dispatch(orphan)
    /\ orphan' = NoRequest
    /\ UNCHANGED <<op, inbox, lagged, streams>>

Leave == op' = NoOp /\ inbox' = <<>> /\ lagged' = FALSE
Fail == Leave /\ event' = Nothing
Return(found) == Leave /\ event' = [kind |-> "found", found |-> found, clean |-> op.clean]

\* handle_frame, with the receiver the operation has subscribed and the reply it
\* waits for.
Receive ==
    /\ handle_frame
    /\ IF op = NoOp THEN UNCHANGED client
       ELSE IF pending # pending'
       THEN /\ op' = IF op.stage = "waiting"
                     THEN [op EXCEPT !.stage = "answered", !.answer = Head(incoming)] ELSE op
            /\ UNCHANGED <<inbox, lagged>>
       ELSE LET all == Append(inbox, [response |-> Decode(Head(incoming)),
                                      command |-> Head(incoming).command,
                                      subject |-> Head(incoming).subject])
                full == Len(inbox) = EventBuffer
            IN  /\ inbox' = IF full THEN SubSeq(all, 2, Len(all)) ELSE all
                /\ lagged' = (lagged \/ full)
                /\ UNCHANGED op
    /\ UNCHANGED <<orphan, streams>>

Expire ==
    /\ pending # NoRequest /\ ~(op # NoOp /\ op.stage = "waiting")
    /\ expire_request /\ UNCHANGED <<client, streams>>

\* The request of the operation times out, so the operation fails.
AskExpires ==
    /\ pending # NoRequest /\ op # NoOp /\ op.stage = "waiting"
    /\ pending' = NoRequest
    /\ Fail
    /\ UNCHANGED <<allocator, sessions, gateway, incoming, stale, orphan, streams>>

-----------------------------------------------------------------------------
Accepted(answer) ==
    /\ answer.status = 0
    /\ Decode(answer) = CASE op.kind = "discover_nodes" -> "AllNodesInformationAccepted"
                          [] op.kind = "discover_groups" -> "AllGroupsAccepted"
                          [] op.kind = "node_information" -> "NodeInformationAccepted"
    /\ op.kind = "node_information" => answer.subject = op.object

NoGroups(answer) ==
    op.kind = "discover_groups" /\ Decode(answer) = "AllGroupsAccepted" /\ answer.status = 2

ReadAnswer ==
    /\ op # NoOp /\ op.stage = "answered"
    /\ CASE Accepted(op.answer) ->
                /\ op' = [op EXCEPT !.stage = "collecting", !.answer = Nothing]
                /\ event' = Nothing /\ UNCHANGED <<inbox, lagged>>
         [] NoGroups(op.answer) -> Return(<<>>)
         [] OTHER -> Fail
    /\ UNCHANGED <<allocator, pending, sessions, gateway, incoming, stale, orphan, streams>>

\* Mutant of Taken: any group information is taken for an answer to the discovery.
TakenAnyGroup(item) ==
    CASE op.kind = "discover_nodes" -> item.response = "NodeInformation"
      [] op.kind = "discover_groups" -> item.response = "GroupInformation"
      [] op.kind = "node_information" ->
            item.response = "NodeInformation" /\ item.subject = op.object

Taken(item) ==
    CASE op.kind = "discover_nodes" -> item.response = "NodeInformation"
      [] op.kind = "discover_groups" ->
            /\ item.response = "GroupInformation"
            /\ item.command = Id[NTF("GET_ALL_GROUPS_INFORMATION")]
      [] op.kind = "node_information" ->
            item.response = "NodeInformation" /\ item.subject = op.object

Complete(item) ==
    /\ item.response = "Acknowledgement"
    /\ item.command = CASE op.kind = "discover_nodes" -> Id[NTF(FinishedOf.GetAllNodesInformation)]
                        [] op.kind = "discover_groups" -> Id[NTF(FinishedOf.GetAllGroups)]
                        [] op.kind = "node_information" -> NoCommand

Collect ==
    /\ op # NoOp /\ op.stage = "collecting" /\ ~lagged /\ inbox # <<>>
    /\ LET item == Head(inbox)
           found == IF Taken(item) THEN Append(op.found, item.subject) ELSE op.found
       IN  CASE item.response = Error -> Fail
             [] Complete(item) \/ (Taken(item) /\ op.kind = "node_information") ->
                   Return(found)
             [] OTHER -> /\ op' = [op EXCEPT !.found = found]
                         /\ inbox' = SubSeq(inbox, 2, Len(inbox))
                         /\ event' = Nothing /\ UNCHANGED lagged
    /\ UNCHANGED <<allocator, pending, sessions, gateway, incoming, stale, orphan, streams>>

\* The receiver has lagged, or operation_timeout or notification_timeout is over.
GiveUp ==
    /\ op # NoOp /\ op.stage = "collecting"
    /\ Fail
    /\ UNCHANGED <<allocator, pending, sessions, gateway, incoming, stale, orphan, streams>>

\* The caller drops the operation; a request it has submitted stays in the queue.
\* Bound: there is one such request.
Drop ==
    /\ op # NoOp
    /\ Fail
    /\ \/ UNCHANGED orphan
       \/ /\ op.stage = "asking" /\ orphan = NoRequest
          /\ orphan' = RequestOf(op.kind, op.object)
    /\ UNCHANGED <<allocator, pending, sessions, gateway, incoming, stale, streams>>

\* The operation reads the event Disconnected; the next one has a new connection.
Disconnect ==
    /\ op # NoOp
    /\ Fail
    /\ pending' = NoRequest /\ asked' = NoRequest /\ incoming' = <<>> /\ stream' = <<>>
    /\ orphan' = NoRequest
    /\ UNCHANGED <<allocator, sessions, running, stale, reported>>

-----------------------------------------------------------------------------
DiscoveryInit ==
    /\ ExchangeInit
    /\ op = NoOp /\ inbox = <<>> /\ lagged = FALSE /\ orphan = NoRequest
    /\ stream = <<>> /\ reported = <<>>

\* The steps of Exchange; a call of send needs the gate.
ExchangeStep ==
    /\ \/ /\ op = NoOp /\ orphan = NoRequest /\ stream = <<>>
          /\ Send \/ AllocatorStep \/ Noise \/ Carry
       \/ GatewayAccepts \/ GatewayAnswers \/ GatewayFinishes \/ expire_sessions
    /\ UNCHANGED <<client, streams>>

DiscoveryNext ==
    \/ ExchangeStep
    \/ GatewayStreams \/ GatewayNotifies \/ GatewayChatters
    \/ Begin \/ Ask \/ AskOrphaned \/ Receive \/ Expire \/ AskExpires
    \/ ReadAnswer \/ Collect \/ GiveUp \/ Drop \/ Disconnect

DiscoverySpec == DiscoveryInit /\ [][DiscoveryNext]_discoveryVars

-----------------------------------------------------------------------------
\* A discovery that succeeds returns what the gateway reported, all of it, in its order
\* and nothing else: not a part of it when the receiver lags or a frame cannot be read,
\* and no notification that belongs to something else.  It holds for an operation that
\* begins when no answer to an earlier one is outstanding; the notifications of one that
\* was dropped or timed out are taken for the next one's.
DiscoveryTrue ==
    event.kind = "found" /\ event.clean => event.found = reported
=============================================================================
