---------------------------- MODULE KlfConnection ----------------------------
(***************************************************************************)
(* The connection actor of src/klf200/connection.rs and the client calls   *)
(* it serves.  Tasks share a Klf200Client; a call takes the FIFO request   *)
(* gate, submits its request over the bounded command channel and waits on *)
(* a oneshot reply.  One actor task owns the stream: it queues requests,   *)
(* writes them one at a time, matches confirmations, tracks command        *)
(* sessions, expires what is overdue and answers everything when it stops. *)
(*                                                                         *)
(* A request is known by its ticket, the number of its oneshot channel;    *)
(* asked[t] is the request itself and answer[t] what the channel carries.  *)
(* The field "of" of an answer is history: the ticket of the request whose *)
(* confirmation frame produced it.  The code cannot see it.                *)
(***************************************************************************)
EXTENDS Integers, Sequences, FiniteSets

CONSTANTS
    Callers,        \* tasks that share the client
    Sends,          \* requests that a call of send may carry
    Closings,       \* which of shutdown and shutdown_and_reboot are called
    SessionIds,     \* session identifiers
    NoSession,      \* the session of a request that has none
    CommandBuffer,  \* capacity of the command channel
    MaxRequests,    \* bound: tickets handed out in a behaviour
    MaxNoise        \* bound: malformed or unsolicited frames of the gateway

\* "command" and "status" stand for the requests that open a session, "invalid"
\* for one that has no confirmation or cannot be encoded.
SessionCommands == {"command", "status"}
PlainCommands == {"state", "enable", "disable", "reboot"}

Request ==
    [cmd : SessionCommands \cup {"invalid"}, session : SessionIds]
        \cup [cmd : PlainCommands \cup {"invalid"}, session : {NoSession}]

ASSUME CallersAssumption == IsFiniteSet(Callers)
ASSUME SendsAssumption == Sends \subseteq Request
ASSUME ClosingsAssumption == Closings \subseteq {"shutdown", "reboot"}
ASSUME SessionIdsAssumption == NoSession \notin SessionIds
ASSUME BoundsAssumption ==
    CommandBuffer \in Nat \ {0} /\ MaxRequests \in Nat /\ MaxNoise \in Nat

VARIABLES
    gate,       \* request_gate: callers in arrival order, the first holds it
    pc,         \* where each caller is: "idle", "submit" or "wait"
    call,       \* the call a caller makes, or made last
    result,     \* what the last shutdown of a caller returned
    issued,     \* tickets handed out so far
    asked,      \* the request behind each ticket
    answer,     \* the oneshot channel of each ticket
    handles,    \* "held" until every client handle is "dropped"
    chan,       \* command channel, a sequence of tickets
    actor,      \* "run", "closing" or "closed"
    requests,   \* requests accepted by the actor and not yet written
    pending,    \* the request that was written and awaits its confirmation
    sessions,   \* sessions that the gateway accepted and that have not ended
    farewell,   \* ticket of the shutdown command being served
    reason,     \* disconnect_reason: "none" or "lost"
    published,  \* connection events sent by the last step
    incoming,   \* frames on their way from the gateway to the actor
    toGateway,  \* requests written and not yet read by the gateway
    gateway     \* the peer: link up, house monitor on, sessions, noise left

clientVars == <<gate, pc, call, result, issued, asked, handles>>
actorVars == <<actor, requests, pending, sessions, farewell, reason>>
wireVars == <<incoming, toGateway, gateway>>
vars == <<clientVars, answer, chan, actorVars, published, wireVars>>

Tickets == 1..MaxRequests
None == 0

Failures == {"timeout", "inUse", "invalid", "undecodable", "closed", "io", "clientClosed"}
Results == Failures \cup {"none", "ok"}
Answer == [is : Failures \cup {"none", "ok", "gone"}, of : Tickets \cup {None}]
Unanswered == [is |-> "none", of |-> None]
Outcome(what) == [is |-> what, of |-> None]

Call == [op : {"send", "shutdown", "reboot"}, ticket : Tickets \cup {None},
         monitor : Results, reboot : Results]
NoCall == [op |-> "send", ticket |-> None, monitor |-> "none", reboot |-> "none"]
NoRequest == [cmd |-> "none", session |-> NoSession]
CloseCommand == [cmd |-> "close", session |-> NoSession]
Disable == [cmd |-> "disable", session |-> NoSession]
Reboot == [cmd |-> "reboot", session |-> NoSession]

Frame ==
    [kind : {"confirmation"}, of : Tickets, session : {NoSession},
     status : {"accepted", "rejected", "undecodable"}]
        \cup [kind : {"finished", "notification", "malformed", "closed"}, of : {None},
              session : SessionIds \cup {NoSession}, status : {"accepted"}]
Event == [kind : {"notification", "unexpected", "finished", "timedOut",
                  "protocolError", "disconnected"},
          session : SessionIds \cup {NoSession}]
Happened(kind, session) == {[kind |-> kind, session |-> session]}

(***************************************************************************)
(* Sequence helpers.                                                       *)
(***************************************************************************)
Elements(s) == {s[i] : i \in 1..Len(s)}
RemoveAt(s, i) == [j \in 1..(Len(s) - 1) |-> IF j < i THEN s[j] ELSE s[j + 1]]

(***************************************************************************)
(* The oneshot channels.  A reply is kept until the caller takes it; once  *)
(* the caller has taken it or given up, the channel is gone and a reply    *)
(* sent to it vanishes.                                                    *)
(***************************************************************************)
ReplyAll(tickets, what) ==
    answer' = [t \in Tickets |-> IF t \in tickets /\ answer[t].is = "none" THEN what
                                  ELSE answer[t]]
Reply(ticket, what) == ReplyAll({ticket}, what)
HangUp(ticket) == answer' = [answer EXCEPT ![ticket] = Outcome("gone")]

Init ==
    /\ gate = <<>>
    /\ pc = [c \in Callers |-> "idle"]
    /\ call = [c \in Callers |-> NoCall]
    /\ result = [c \in Callers |-> "none"]
    /\ issued = 0
    /\ asked = [t \in Tickets |-> NoRequest]
    /\ answer = [t \in Tickets |-> Unanswered]
    /\ handles = "held"
    /\ chan = <<>>
    /\ actor = "run"
    /\ requests = <<>>
    /\ pending = None
    /\ sessions = {}
    /\ farewell = None
    /\ reason = "none"
    /\ published = {}
    /\ incoming = <<>>
    /\ toGateway = <<>>
    /\ gateway \in [link : {"up"}, monitor : {"on", "off"}, sessions : {{}},
                   noise : {MaxNoise}]

-----------------------------------------------------------------------------
(***************************************************************************)
(* Client calls.  A call reserves its tickets when it queues at the gate:  *)
(* one for send, two for shutdown (disable, close) and three for           *)
(* shutdown_and_reboot (disable, reboot, close).                           *)
(***************************************************************************)
TicketsOf(op) == CASE op = "send" -> 1 [] op = "shutdown" -> 2 [] op = "reboot" -> 3

Begin(c, op, request) ==
    /\ pc[c] = "idle" /\ handles = "held"
    /\ issued + TicketsOf(op) <= MaxRequests
    /\ issued' = issued + TicketsOf(op)
    /\ gate' = Append(gate, c)
    /\ pc' = [pc EXCEPT ![c] = "submit"]
    /\ call' = [call EXCEPT ![c] = [op |-> op, ticket |-> issued + 1, monitor |-> "none",
                                    reboot |-> IF op = "shutdown" THEN "ok" ELSE "none"]]
    /\ asked' = [asked EXCEPT ![issued + 1] = request]
    /\ result' = [result EXCEPT ![c] = "none"]
    /\ published' = {}
    /\ UNCHANGED <<handles, answer, chan, actorVars, wireVars>>

Send(c, request) == Begin(c, "send", request)
Shutdown(c) == "shutdown" \in Closings /\ Begin(c, "shutdown", Disable)
ShutdownAndReboot(c) == "reboot" \in Closings /\ Begin(c, "reboot", Disable)

\* The caller at the head of the gate hands its request to the actor.
Submit(c) ==
    /\ pc[c] = "submit" /\ Head(gate) = c
    /\ actor # "closed" /\ Len(chan) < CommandBuffer
    /\ chan' = Append(chan, call[c].ticket)
    /\ pc' = [pc EXCEPT ![c] = "wait"]
    /\ published' = {}
    /\ UNCHANGED <<gate, call, result, issued, asked, handles, answer, actorVars, wireVars>>

\* A send returns its reply; nothing of the call remains.
ReturnSend(c) ==
    /\ pc' = [pc EXCEPT ![c] = "idle"]
    /\ gate' = Tail(gate)
    /\ call' = [call EXCEPT ![c] = NoCall]
    /\ UNCHANGED <<result, asked>>

ReturnShutdown(c, what) ==
    /\ pc' = [pc EXCEPT ![c] = "idle"]
    /\ gate' = Tail(gate)
    /\ result' = [result EXCEPT ![c] = what]
    /\ UNCHANGED <<call, asked>>

\* Mutant of NextCommand: the gate is released and taken again between commands.
NextCommandUngated(c, noted, request) ==
    /\ call' = [call EXCEPT ![c] = [noted EXCEPT !.ticket = call[c].ticket + 1]]
    /\ asked' = [asked EXCEPT ![call[c].ticket + 1] = request]
    /\ pc' = [pc EXCEPT ![c] = "submit"]
    /\ gate' = Append(Tail(gate), c)
    /\ UNCHANGED result

\* shutdown_inner goes on to its next command with the result of this one noted.
NextCommand(c, noted, request) ==
    /\ call' = [call EXCEPT ![c] = [noted EXCEPT !.ticket = call[c].ticket + 1]]
    /\ asked' = [asked EXCEPT ![call[c].ticket + 1] = request]
    /\ pc' = [pc EXCEPT ![c] = "submit"]
    /\ UNCHANGED <<gate, result>>

FirstFailure(first, second, otherwise) ==
    IF first # "ok" THEN first ELSE IF second # "ok" THEN second ELSE otherwise

\* What the call does once its current request has the outcome `what`.
Continue(c, what) ==
    LET doing == asked[call[c].ticket].cmd IN
    \/ /\ call[c].op = "send"
       /\ ReturnSend(c)
    \/ /\ call[c].op = "shutdown" /\ doing = "disable"
       /\ NextCommand(c, [call[c] EXCEPT !.monitor = what], CloseCommand)
    \/ /\ call[c].op = "reboot" /\ doing = "disable"
       /\ NextCommand(c, [call[c] EXCEPT !.monitor = what], Reboot)
    \/ /\ call[c].op = "reboot" /\ doing = "reboot"
       /\ NextCommand(c, [call[c] EXCEPT !.reboot = what], CloseCommand)
    \/ /\ call[c].op # "send" /\ doing = "close"
       /\ ReturnShutdown(c, IF what # "ok" THEN what
                            ELSE IF call[c].op = "reboot" THEN call[c].reboot
                            ELSE call[c].monitor)

\* The reply arrives, or its sender was dropped.
Resume(c) ==
    /\ pc[c] = "wait" /\ answer[call[c].ticket].is # "none"
    /\ Continue(c, answer[call[c].ticket].is)
    /\ HangUp(call[c].ticket)
    /\ published' = {}
    /\ UNCHANGED <<issued, handles, chan, actorVars, wireVars>>

\* The actor is gone: the channel refuses the command.
SubmitRefused(c) ==
    /\ pc[c] = "submit" /\ Head(gate) = c /\ actor = "closed"
    /\ IF asked[call[c].ticket] = CloseCommand
       THEN ReturnShutdown(c, FirstFailure(call[c].reboot, call[c].monitor, "clientClosed"))
       ELSE Continue(c, "closed")
    /\ published' = {}
    /\ UNCHANGED <<issued, handles, answer, chan, actorVars, wireVars>>

\* The future of a send is dropped; what it already submitted stays with the actor.
Cancel(c) ==
    /\ pc[c] # "idle" /\ call[c].op = "send"
    /\ pc' = [pc EXCEPT ![c] = "idle"]
    /\ \E i \in 1..Len(gate) : gate[i] = c /\ gate' = RemoveAt(gate, i)
    /\ call' = [call EXCEPT ![c] = NoCall]
    /\ HangUp(call[c].ticket)
    /\ published' = {}
    /\ UNCHANGED <<result, issued, asked, handles, chan, actorVars, wireVars>>

DropClient ==
    /\ handles = "held" /\ \A c \in Callers : pc[c] = "idle"
    /\ handles' = "dropped"
    /\ published' = {}
    /\ UNCHANGED <<gate, pc, call, result, issued, asked, answer, chan, actorVars, wireVars>>

-----------------------------------------------------------------------------
(***************************************************************************)
(* The actor.  It dispatches while nothing is pending, and reaches the     *)
(* select of its loop only with a request pending or none queued.          *)
(***************************************************************************)
\* Mutant of Dispatching: the next request is written while one is pending.
DispatchingEagerly == actor = "run" /\ requests # <<>>

Dispatching == actor = "run" /\ pending = None /\ requests # <<>>
Selecting == actor = "run" /\ (pending # None \/ requests = <<>>)

\* Mutant of Stop: fail_outstanding forgets the queued requests.
StopForgetful(also, shutdownTicket, why) ==
    /\ actor' = "closing"
    /\ ReplyAll((Elements(chan) \cup {pending, also}) \ {None, shutdownTicket},
                Outcome("closed"))
    /\ requests' = <<>> /\ pending' = None /\ chan' = <<>> /\ sessions' = {}
    /\ farewell' = shutdownTicket
    /\ reason' = why
    /\ incoming' = <<>>
    /\ published' = {}
    /\ UNCHANGED <<clientVars, toGateway, gateway>>

\* Leaving the loop: the reader is aborted, everything the actor holds is
\* answered, and what the channel still holds is drained.  `also` is a ticket
\* the caller of this operator has taken out of the queues.
Stop(also, shutdownTicket, why) ==
    /\ actor' = "closing"
    /\ ReplyAll((Elements(requests) \cup Elements(chan) \cup {pending, also})
                    \ {None, shutdownTicket},
                Outcome("closed"))
    /\ requests' = <<>> /\ pending' = None /\ chan' = <<>> /\ sessions' = {}
    /\ farewell' = shutdownTicket
    /\ reason' = why
    /\ incoming' = <<>>
    /\ published' = {}
    /\ UNCHANGED <<clientVars, toGateway, gateway>>

\* dispatch_next refuses the request without writing it.
DispatchRefuse ==
    /\ Dispatching
    /\ LET t == Head(requests) IN
        \/ /\ asked[t].session \in sessions
           /\ Reply(t, Outcome("inUse"))
        \/ /\ asked[t].session \notin sessions /\ asked[t].cmd = "invalid"
           /\ Reply(t, Outcome("invalid"))
    /\ requests' = Tail(requests)
    /\ published' = {}
    /\ UNCHANGED <<clientVars, chan, actor, pending, sessions, farewell, reason, wireVars>>

\* Mutant of Sendable: the check for a session in use is missing.
SendableUnchecked(t) == asked[t].cmd # "invalid"

Sendable(t) == asked[t].session \notin sessions /\ asked[t].cmd # "invalid"

DispatchWrite ==
    /\ Dispatching /\ Sendable(Head(requests))
    /\ pending' = Head(requests)
    /\ requests' = Tail(requests)
    /\ toGateway' = IF gateway.link = "up" THEN Append(toGateway, Head(requests)) ELSE toGateway
    /\ published' = {}
    /\ UNCHANGED <<clientVars, answer, chan, actor, sessions, farewell, reason,
                   incoming, gateway>>

\* The write fails: the request is answered and the actor stops.
DispatchFail ==
    /\ Dispatching /\ Sendable(Head(requests))
    /\ Stop(Head(requests), None, "lost")

\* Mutant of ReceiveSend: the request is queued at the front.
ReceiveSendFirst ==
    /\ Selecting /\ chan # <<>> /\ asked[Head(chan)] # CloseCommand
    /\ requests' = <<Head(chan)>> \o requests
    /\ chan' = Tail(chan)
    /\ published' = {}
    /\ UNCHANGED <<clientVars, answer, actor, pending, sessions, farewell, reason, wireVars>>

ReceiveSend ==
    /\ Selecting /\ chan # <<>> /\ asked[Head(chan)] # CloseCommand
    /\ requests' = Append(requests, Head(chan))
    /\ chan' = Tail(chan)
    /\ published' = {}
    /\ UNCHANGED <<clientVars, answer, actor, pending, sessions, farewell, reason, wireVars>>

ReceiveShutdown ==
    /\ Selecting /\ chan # <<>> /\ asked[Head(chan)] = CloseCommand
    /\ Stop(None, Head(chan), "none")

\* Mutant of ReceiveDropped: the actor lingers while sessions are tracked.
ReceiveDroppedLingering ==
    /\ Selecting /\ chan = <<>> /\ handles = "dropped" /\ sessions = {}
    /\ Stop(None, None, "none")

ReceiveDropped ==
    /\ Selecting /\ chan = <<>> /\ handles = "dropped"
    /\ Stop(None, None, "none")

ConfirmationOf(t) == asked[t].cmd
\* Mutant of Matches: the session of a confirmation is not compared.
MatchesAny(t, frame) == TRUE

Matches(t, frame) ==
    asked[t].session # NoSession => asked[frame.of].session = asked[t].session

\* Mutant of SessionsAfter: a request without a session is tracked as well.
SessionsAfterAny(s, status) == IF status = "accepted" THEN sessions \cup {s} ELSE sessions \ {s}

SessionsAfter(s, status) ==
    IF status = "accepted" /\ s # NoSession THEN sessions \cup {s} ELSE sessions \ {s}

\* handle_frame for a frame whose command is the confirmation that is expected.
Confirm(frame) ==
    /\ frame.kind = "confirmation" /\ pending # None
    /\ ConfirmationOf(frame.of) = ConfirmationOf(pending)
    /\ \/ /\ frame.status # "undecodable" /\ ~Matches(pending, frame)
          /\ published' = Happened("unexpected", asked[frame.of].session)
          /\ UNCHANGED <<answer, pending, sessions>>
       \/ /\ frame.status # "undecodable" /\ Matches(pending, frame)
          /\ sessions' = SessionsAfter(asked[pending].session, frame.status)
          /\ Reply(pending, [is |-> "ok", of |-> frame.of])
          /\ pending' = None /\ published' = {}
       \/ /\ frame.status = "undecodable"
          /\ sessions' = sessions \ {asked[pending].session}
          /\ Reply(pending, Outcome("undecodable"))
          /\ pending' = None /\ published' = {}

\* handle_frame for every other frame.
Report(frame) ==
    /\ \/ /\ frame.kind = "finished"
          /\ sessions' = sessions \ {frame.session}
          /\ published' = Happened("finished", frame.session)
       \/ /\ frame.kind = "notification"
          /\ published' = Happened("notification", NoSession)
          /\ UNCHANGED sessions
       \/ /\ frame.kind = "confirmation"
          /\ pending # None => ConfirmationOf(frame.of) # ConfirmationOf(pending)
          /\ published' = IF frame.status = "undecodable"
                          THEN Happened("protocolError", NoSession)
                          ELSE Happened("unexpected", asked[frame.of].session)
          /\ UNCHANGED sessions
       \/ /\ frame.kind = "malformed"
          /\ published' = Happened("protocolError", NoSession)
          /\ UNCHANGED sessions
    /\ UNCHANGED <<answer, pending>>

HandleFrame ==
    /\ Selecting /\ incoming # <<>>
    /\ Confirm(Head(incoming)) \/ Report(Head(incoming))
    /\ incoming' = Tail(incoming)
    /\ UNCHANGED <<clientVars, chan, actor, requests, farewell, reason, toGateway, gateway>>

StreamEnded ==
    /\ Selecting /\ incoming # <<>> /\ Head(incoming).kind = "closed"
    /\ Stop(None, None, "lost")

\* Mutant of Tick: only sessions expire.
TickSessions(late, over) ==
    /\ Selecting /\ late \in {None, pending} /\ over \subseteq sessions /\ over # {}
    /\ sessions' = sessions \ over
    /\ published' = UNION {Happened("timedOut", s) : s \in over}
    /\ UNCHANGED <<clientVars, answer, chan, actor, requests, pending, farewell, reason, wireVars>>

\* A timeout tick.  `late` is the pending request if its deadline has passed,
\* None otherwise; `over` are the sessions whose deadline has passed.
Tick(late, over) ==
    /\ Selecting /\ late \in {None, pending} /\ over \subseteq sessions
    /\ late # None \/ over # {}
    /\ IF late # None THEN Reply(late, Outcome("timeout")) ELSE UNCHANGED answer
    /\ pending' = IF late # None THEN None ELSE pending
    /\ sessions' = sessions \ (over \cup (IF late # None THEN {asked[late].session} ELSE {}))
    /\ published' = UNION {Happened("timedOut", s) : s \in over}
    /\ UNCHANGED <<clientVars, chan, actor, requests, farewell, reason, wireVars>>

ExpireRequest == pending # None /\ Tick(pending, {})

\* The stream is shut down (or dropped after a timeout), the disconnect reason
\* is reported, the shutdown call is answered and the command channel, with
\* what callers put there since the drain, is dropped.
CloseStream(what) ==
    /\ actor = "closing"
    /\ actor' = "closed"
    /\ answer' = [t \in Tickets |->
                     CASE t = farewell /\ answer[t].is = "none" -> Outcome(what)
                       [] t \in Elements(chan) /\ answer[t].is = "none" -> Outcome("closed")
                       [] OTHER -> answer[t]]
    /\ chan' = <<>>
    /\ published' = IF reason = "lost" THEN Happened("disconnected", NoSession) ELSE {}
    /\ UNCHANGED <<clientVars, requests, pending, sessions, farewell, reason, wireVars>>

-----------------------------------------------------------------------------
(***************************************************************************)
(* The gateway, external.  It reads requests in order, carries each out or *)
(* not, and may confirm late or never; it confirms only what it has done.  *)
(* It may end a session, send frames nobody asked for, and close the link. *)
(* Once the actor has stopped, only what it reads still shows.             *)
(***************************************************************************)
Deliver(frame) ==
    incoming' = IF actor = "run" /\ gateway.link = "up" THEN Append(incoming, frame) ELSE incoming

Confirmation(t, status) ==
    [kind |-> "confirmation", of |-> t, session |-> NoSession, status |-> status]

Carried(t) ==
    [gateway EXCEPT
        !.monitor = CASE asked[t].cmd = "enable" -> "on"
                      [] asked[t].cmd \in {"disable", "reboot"} -> "off"
                      [] OTHER -> @,
        !.sessions = CASE asked[t].cmd \in SessionCommands -> @ \cup {asked[t].session}
                       [] asked[t].cmd = "reboot" -> {}
                       [] OTHER -> @]

GatewayReads(done, reply) ==
    /\ gateway.link = "up" /\ toGateway # <<>>
    /\ LET t == Head(toGateway)
           after == IF done THEN Carried(t) ELSE gateway
       IN  \/ /\ reply = "silent" /\ gateway' = after /\ UNCHANGED incoming
           \/ /\ reply = "accepted" /\ done
              /\ gateway' = after /\ Deliver(Confirmation(t, "accepted"))
           \/ /\ reply = "rejected" /\ ~done /\ asked[t].session # NoSession
              /\ gateway' = after /\ Deliver(Confirmation(t, "rejected"))
           \/ /\ reply = "undecodable" /\ gateway.noise > 0
              /\ gateway' = [after EXCEPT !.noise = @ - 1]
              /\ Deliver(Confirmation(t, "undecodable"))
    /\ toGateway' = Tail(toGateway)
    /\ published' = {}
    /\ UNCHANGED <<clientVars, answer, chan, actorVars>>

GatewayFinishes(s) ==
    /\ gateway.link = "up" /\ actor = "run" /\ s \in gateway.sessions
    /\ gateway' = [gateway EXCEPT !.sessions = @ \ {s}]
    /\ Deliver([kind |-> "finished", of |-> None, session |-> s, status |-> "accepted"])
    /\ published' = {}
    /\ UNCHANGED <<clientVars, answer, chan, actorVars, toGateway>>

GatewayNoise(kind) ==
    /\ gateway.link = "up" /\ actor = "run" /\ gateway.noise > 0
    /\ gateway' = [gateway EXCEPT !.noise = @ - 1]
    /\ Deliver([kind |-> kind, of |-> None, session |-> NoSession, status |-> "accepted"])
    /\ published' = {}
    /\ UNCHANGED <<clientVars, answer, chan, actorVars, toGateway>>

\* The gateway or the network ends the link; what the gateway has not read is lost.
LinkLost ==
    /\ gateway.link = "up" /\ actor = "run"
    /\ gateway' = [gateway EXCEPT !.link = "down"]
    /\ Deliver([kind |-> "closed", of |-> None, session |-> NoSession, status |-> "accepted"])
    /\ toGateway' = <<>>
    /\ published' = {}
    /\ UNCHANGED <<clientVars, answer, chan, actorVars>>

ClientStep(c) ==
    \/ \E request \in Sends : Send(c, request)
    \/ Shutdown(c)
    \/ ShutdownAndReboot(c)
    \/ Submit(c)
    \/ SubmitRefused(c)
    \/ Resume(c)
    \/ Cancel(c)

ActorStep ==
    \/ DispatchRefuse
    \/ DispatchWrite
    \/ DispatchFail
    \/ ReceiveSend
    \/ ReceiveShutdown
    \/ ReceiveDropped
    \/ HandleFrame
    \/ StreamEnded
    \/ \E late \in Tickets \cup {None}, over \in SUBSET SessionIds : Tick(late, over)
    \/ \E what \in {"ok", "io"} : CloseStream(what)

GatewayStep ==
    \/ \E done \in BOOLEAN, reply \in {"silent", "accepted", "rejected", "undecodable"} :
           GatewayReads(done, reply)
    \/ \E s \in SessionIds : GatewayFinishes(s)
    \/ \E kind \in {"notification", "malformed"} : GatewayNoise(kind)
    \/ LinkLost

Next == (\E c \in Callers : ClientStep(c)) \/ DropClient \/ ActorStep \/ GatewayStep

Spec == Init /\ [][Next]_vars

\* The runtime keeps scheduling the actor and the callers; a request that stays
\* pending reaches its deadline and a tick finds it; writes and the closing of
\* the stream complete.  Nothing is assumed of the gateway.
Fairness ==
    /\ WF_vars(DispatchRefuse \/ DispatchWrite \/ DispatchFail)
    /\ WF_vars(ReceiveSend \/ ReceiveShutdown \/ ReceiveDropped)
    /\ WF_vars(HandleFrame \/ StreamEnded)
    /\ WF_vars(ExpireRequest)
    /\ WF_vars(\E what \in {"ok", "io"} : CloseStream(what))
    /\ \A c \in Callers : WF_vars(Submit(c) \/ SubmitRefused(c) \/ Resume(c))

FairSpec == Spec /\ Fairness

-----------------------------------------------------------------------------
(***************************************************************************)
(* Properties.                                                             *)
(***************************************************************************)

\* Every variable has the type its declaration in connection.rs gives it.
TypeOK ==
    /\ gate \in Seq(Callers)
    /\ pc \in [Callers -> {"idle", "submit", "wait"}]
    /\ call \in [Callers -> Call]
    /\ result \in [Callers -> Results]
    /\ issued \in 0..MaxRequests
    /\ asked \in [Tickets -> Request \cup {NoRequest, CloseCommand}]
    /\ answer \in [Tickets -> Answer]
    /\ handles \in {"held", "dropped"}
    /\ chan \in Seq(Tickets)
    /\ actor \in {"run", "closing", "closed"}
    /\ requests \in Seq(Tickets)
    /\ pending \in Tickets \cup {None}
    /\ sessions \in SUBSET SessionIds
    /\ farewell \in Tickets \cup {None}
    /\ reason \in {"none", "lost"}
    /\ published \in SUBSET Event
    /\ incoming \in Seq(Frame)
    /\ toGateway \in Seq(Tickets)
    /\ gateway \in [link : {"up", "down"}, monitor : {"on", "off"},
                    sessions : SUBSET SessionIds, noise : 0..MaxNoise]

\* A task that waits on its reply channel never waits for nothing: the channel
\* holds the reply, or its sender is still in the command channel, in the request
\* queue, pending, or kept for the shutdown reply.  run_actor, dispatch_next,
\* fail_outstanding and the final drain together must never lose one, also for
\* what is submitted after the drain.
Held == Elements(chan) \cup Elements(requests) \cup {pending, farewell}
NoLostCall ==
    \A c \in Callers :
        pc[c] = "wait" =>
            \/ answer[call[c].ticket].is # "none"
            \/ call[c].ticket \in Held /\ actor # "closed"

\* A request that names a session is only ever confirmed by a confirmation for
\* that very command and session, whatever frames of requests that timed out or
\* were cancelled before it arrive late (confirmation_session_matches).
SessionConfirmed ==
    \A t \in Tickets :
        (answer[t].is = "ok" /\ answer[t].of # None /\ asked[t].session # NoSession) =>
            asked[answer[t].of] = asked[t]

\* When shutdown, or shutdown_and_reboot, returns Ok the stream is closed and the
\* gateway no longer monitors the house, whoever else enabled it or gave up on a
\* request in between (shutdown_inner holds the gate from disable to close).
ShutdownSucceeded(c) == pc[c] = "idle" /\ call[c].op # "send" /\ result[c] = "ok"
ShutdownIsClean ==
    \A c \in Callers : ShutdownSucceeded(c) => actor = "closed" /\ gateway.monitor = "off"

\* While the actor runs, a tracked session only ends with an event that tells the
\* subscribers so: finished or timed out.  The refusals and expiries of requests
\* (dispatch_next, handle_frame, expire_request) never end a session silently.
NoSilentSessionEnd ==
    [][\A s \in sessions \ sessions' :
           actor' = "run" =>
               \E e \in published' : e.session = s /\ e.kind \in {"finished", "timedOut"}]_vars

\* Requests are written in the order in which their calls queued at the gate,
\* also past calls that were cancelled at any point: the tickets on the wire,
\* pending, queued and in the command channel are in increasing order.
Increasing(s) == \A i, j \in 1..Len(s) : i < j => s[i] < s[j]
Written == IF pending = None \/ pending \in Elements(toGateway) THEN <<>> ELSE <<pending>>
GateOrder == Increasing(toGateway \o Written \o requests \o chan)

\* Every call of send, shutdown or shutdown_and_reboot returns, whatever the
\* gateway does or fails to do: nobody waits forever for the gate, the channel or
\* a reply.
EveryCallReturns == \A c \in Callers : pc[c] # "idle" ~> pc[c] = "idle"

\* Once every client handle is dropped the actor ends and closes the stream.
StreamReleased == handles = "dropped" ~> actor = "closed"

\* The actor implements the serial queue of SerialCalls.
Serial == INSTANCE SerialCalls WITH
    queue <- requests \o chan,
    current <- CASE actor = "run" -> pending
                 [] actor = "closing" -> farewell
                 [] OTHER -> None,
    settled <- {t \in Tickets : answer[t].is # "none"},
    stopped <- actor # "run"
ImplementsSerialCalls == Serial!Spec

\* What send documents: a call that succeeds got the confirmation of its own request.
OwnConfirmation ==
    \A t \in Tickets : (answer[t].is = "ok" /\ answer[t].of # None) => answer[t].of = t

\* What shutdown_and_reboot documents: a confirmed reboot supersedes a failure to
\* disable monitoring, which is then not what the call reports.
RebootSupersedes ==
    \A c \in Callers :
        (pc[c] = "idle" /\ call[c].op = "reboot" /\ call[c].reboot = "ok"
             /\ call[c].monitor # "ok") =>
            result[c] # call[c].monitor
=============================================================================
