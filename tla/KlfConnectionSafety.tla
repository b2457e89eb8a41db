------------------------ MODULE KlfConnectionSafety ------------------------
(***************************************************************************)
(* What the connection actor does with the requests it holds, proved from  *)
(* the invariant of KlfConnectionProofs: which confirmation settles which  *)
(* request, that no session ends unreported, the order on the wire, and    *)
(* that the actor implements SerialCalls.                                  *)
(***************************************************************************)
EXTENDS KlfConnectionProofs, SequenceTheorems

(***************************************************************************)
(* Confirmations and sessions.  A ticket on the wire, in a frame or in an  *)
(* answer has had its turn, so that its request no longer changes; and the *)
(* session of the pending request is not open, as dispatch_next checked it *)
(* and only the confirmation of the request itself opens it.               *)
(***************************************************************************)
Past == {t \in Tickets : ~Future(t)}
TracesPast ==
    /\ Elements(toGateway) \subseteq Past
    /\ \A f \in Elements(incoming) : f.kind = "confirmation" => f.of \in Past
    /\ \A t \in Tickets : answer[t].of \in Past \cup {None}

PendingUnopened == pending # None => asked[pending].session \notin sessions

ConfirmInv == TracesPast /\ PendingUnopened /\ SessionConfirmed

(***************************************************************************)
(* Order.  The gate is in the order of the tickets of its callers, and     *)
(* what is underway is older than the ticket of every call in progress.    *)
(***************************************************************************)
GateAscends ==
    /\ \A i \in 1..Len(gate) : Calling(gate[i])
    /\ \A i, j \in 1..Len(gate) : i < j => Last(gate[i]) < call[gate[j]].ticket

Underway == Elements(toGateway) \cup Elements(requests) \cup Elements(chan) \cup {pending}
Trails ==
    \A c \in Callers : Calling(c) =>
        \A t \in Underway : t < call[c].ticket \/ (t = call[c].ticket /\ pc[c] = "wait")

Before(S, T) == \A x \in S, y \in T : x < y
Ordered ==
    /\ Increasing(toGateway) /\ Increasing(requests) /\ Increasing(chan)
    /\ Before(Elements(toGateway) \cup {pending}, Elements(requests) \cup Elements(chan))
    /\ Before(Elements(requests), Elements(chan))
    /\ pending # None => \A t \in Elements(toGateway) : t <= pending

OrderInv == GateAscends /\ Trails /\ Ordered

-----------------------------------------------------------------------------
(***************************************************************************)
(* What the steps of each party touch.                                     *)
(***************************************************************************)
\* What is asked with a ticket whose turn has come stays as it is in every step.
LEMMA PastStays == Inv /\ [Next]_vars => Past \subseteq Past' /\ \A t \in Past : asked'[t] = asked[t]
<1> SUFFICES ASSUME Inv, [Next]_vars PROVE PastFixed
  BY DEF PastFixed, Past
<1>1. ASSUME NEW c \in Callers, ClientStep(c) PROVE PastFixed
  BY <1>1, ClientKeeps DEF Kept
<1>2. CASE UNCHANGED <<pc, call, issued, asked>>
  <2>1. \A c \in Callers : Last(c)' = Last(c)
    BY <1>2 DEF Last
  <2> QED BY <1>2, <2>1 DEF PastFixed, Future, Awaits, Calling
<1>3. CASE ActorStep
  BY <1>2, <1>3, ActorServes DEF Serves, clientVars
<1>4. CASE GatewayStep
  BY <1>2, <1>4, GatewayServes DEF Serves, clientVars
<1>5. CASE DropClient \/ UNCHANGED vars
  BY <1>2, <1>5 DEF DropClient, vars, clientVars
<1> QED BY <1>1, <1>3, <1>4, <1>5 DEF Next

\* A caller touches neither the actor nor the wire, and takes at most its own reply.
LEMMA ClientTouches ==
    ASSUME Inv, NEW c \in Callers, ClientStep(c)
    PROVE  /\ UNCHANGED <<actorVars, wireVars>>
           /\ \A t \in Tickets : answer'[t] = answer[t] \/ answer'[t] = Outcome("gone")
<1>1. answer \in [Tickets -> Answer]
  BY DEF Inv, TypeOK
<1>2. ASSUME NEW t, HangUp(t) PROVE \A u \in Tickets : answer'[u] = answer[u] \/ answer'[u] = Outcome("gone")
  BY <1>1, <1>2 DEF HangUp
<1>3. UNCHANGED <<actorVars, wireVars>>
  BY DEF ClientStep, Send, Shutdown, ShutdownAndReboot, Begin, Submit, SubmitRefused, Resume, Cancel
<1>4. UNCHANGED answer \/ HangUp(call[c].ticket)
  BY DEF ClientStep, Send, Shutdown, ShutdownAndReboot, Begin, Submit, SubmitRefused, Resume, Cancel
<1> QED BY <1>2, <1>3, <1>4

\* The frame in hand confirms the pending request.
Confirms(t) ==
    /\ t = pending /\ pending # None /\ incoming # <<>>
    /\ Head(incoming).kind = "confirmation"
    /\ ConfirmationOf(Head(incoming).of) = ConfirmationOf(pending)
    /\ Matches(pending, Head(incoming))
    /\ answer'[t] = [is |-> "ok", of |-> Head(incoming).of]

\* The sessions and the pending request after a step of the actor.
Tracks ==
    \/ pending' = None
    \/ pending' = pending /\ sessions' \subseteq sessions
    \/ requests # <<>> /\ pending' = Head(requests) /\ Sendable(Head(requests)) /\ sessions' = sessions

\* A session that goes was reported, or is the pending request's, or all go with the actor.
Drained(s) ==
    \/ actor' # "run"
    \/ pending # None /\ s = asked[pending].session
    \/ \E e \in published' : e.session = s /\ e.kind \in {"finished", "timedOut"}

\* A reply without a confirmation leaves no trace of one.
LEMMA ReplyPlain ==
    ASSUME TypeOK, NEW tickets, NEW what, ReplyAll(tickets, Outcome(what))
    PROVE  \A t \in Tickets : answer'[t] = answer[t] \/ answer'[t].of = None
  BY DEF TypeOK, ReplyAll, Outcome

\* What every step of the actor does to answers, wire, sessions and pending request.
LEMMA ActorTouches ==
    ASSUME TypeOK, ActorStep
    PROVE  /\ UNCHANGED clientVars
           /\ \A t \in Tickets : answer'[t] = answer[t] \/ answer'[t].of = None \/ Confirms(t)
           /\ Elements(incoming') \subseteq Elements(incoming)
           /\ Elements(toGateway') \subseteq Elements(toGateway) \cup Elements(requests)
           /\ Tracks
           /\ \A s \in sessions \ sessions' : Drained(s)
<1> DEFINE Answered == \A t \in Tickets : answer'[t] = answer[t] \/ answer'[t].of = None \/ Confirms(t)
           Incoming == Elements(incoming') \subseteq Elements(incoming)
           Wire == Elements(toGateway') \subseteq Elements(toGateway) \cup Elements(requests)
           Ends == \A s \in sessions \ sessions' : Drained(s)
           Goal == UNCHANGED clientVars /\ Answered /\ Incoming /\ Wire /\ Tracks /\ Ends
<1>t. /\ requests \in Seq(Tickets) /\ incoming \in Seq(Frame) /\ toGateway \in Seq(Tickets)
      /\ chan \in Seq(Tickets) /\ sessions \subseteq SessionIds
  BY DEF TypeOK
<1>r. requests # <<>> => Elements(requests) = {Head(requests)} \cup Elements(Tail(requests))
  BY <1>t, ElementsTail
<1>i. incoming # <<>> => Elements(Tail(incoming)) \subseteq Elements(incoming)
  BY <1>t, ElementsTail
<1>s. ASSUME NEW also, NEW t, NEW why, Stop(also, t, why) PROVE Goal
  <2>1. Answered
    BY <1>s, ReplyPlain DEF Stop
  <2>2. Incoming
    BY <1>s, ElementsEmpty DEF Stop
  <2> QED BY <1>s, <2>1, <2>2 DEF Stop, Tracks, Drained
<1>1. CASE DispatchRefuse
  <2>1. Answered
    BY <1>1, ReplyPlain DEF DispatchRefuse, Reply
  <2> QED BY <1>1, <2>1 DEF DispatchRefuse, Tracks, wireVars
<1>2. CASE DispatchWrite
  <2>1. Head(requests) \in Tickets
    BY <1>2, <1>t, HeadType DEF DispatchWrite, Dispatching
  <2>2. Elements(Append(toGateway, Head(requests))) = Elements(toGateway) \cup {Head(requests)}
    BY <2>1, <1>t, ElementsAppend
  <2>3. Wire
    BY <1>2, <2>2, <1>r DEF DispatchWrite, Dispatching
  <2> QED BY <1>2, <2>3 DEF DispatchWrite, Dispatching, Tracks
<1>3. CASE DispatchFail
  BY <1>3, <1>s DEF DispatchFail
<1>4. CASE ReceiveSend
  BY <1>4 DEF ReceiveSend, Tracks, wireVars
<1>5. CASE ReceiveShutdown
  BY <1>5, <1>s DEF ReceiveShutdown
<1>6. CASE ReceiveDropped
  BY <1>6, <1>s DEF ReceiveDropped
<1>7. CASE HandleFrame
  <2> DEFINE frame == Head(incoming)
  <2>1. UNCHANGED <<clientVars, actor, toGateway>> /\ Incoming
    BY <1>7, <1>i DEF HandleFrame
  <2>2. CASE Confirm(frame)
    <3>1. CASE UNCHANGED <<answer, pending, sessions>>
      BY <3>1, <2>1 DEF Tracks
    <3>2. CASE /\ Matches(pending, frame) /\ Reply(pending, [is |-> "ok", of |-> frame.of])
               /\ sessions' = SessionsAfter(asked[pending].session, frame.status)
               /\ pending' = None
      <4>1. Answered
        BY <1>7, <2>2, <3>2 DEF HandleFrame, Confirm, Reply, ReplyAll, Confirms
      <4>2. \A s \in sessions \ sessions' : s = asked[pending].session
        BY <3>2 DEF SessionsAfter
      <4> QED BY <2>1, <2>2, <3>2, <4>1, <4>2 DEF Tracks, Drained, Confirm
    <3>3. CASE /\ sessions' = sessions \ {asked[pending].session}
               /\ Reply(pending, Outcome("undecodable"))
               /\ pending' = None
      <4>1. Answered
        BY <3>3, ReplyPlain DEF Reply
      <4> QED BY <2>1, <2>2, <3>3, <4>1 DEF Tracks, Drained, Confirm
    <3> QED BY <2>2, <3>1, <3>2, <3>3 DEF Confirm
  <2>3. CASE Report(frame)
    <3>1. UNCHANGED <<answer, pending>> /\ sessions' \subseteq sessions
      BY <2>3 DEF Report
    <3>2. CASE frame.kind = "finished"
      <4>1. sessions' = sessions \ {frame.session} /\ published' = Happened("finished", frame.session)
        BY <2>3, <3>2 DEF Report
      <4>2. \A s \in sessions \ sessions' : Drained(s)
        BY <4>1 DEF Drained, Happened
      <4> QED BY <2>1, <3>1, <4>2 DEF Tracks
    <3>3. CASE frame.kind # "finished"
      <4>1. sessions' = sessions
        BY <2>3, <3>3 DEF Report
      <4> QED BY <2>1, <3>1, <4>1 DEF Tracks
    <3> QED BY <3>2, <3>3
  <2> QED BY <1>7, <2>2, <2>3 DEF HandleFrame
<1>8. CASE StreamEnded
  BY <1>8, <1>s DEF StreamEnded
<1>9. ASSUME NEW late \in Tickets \cup {None}, NEW over \in SUBSET SessionIds, Tick(late, over)
      PROVE  Goal
  <2>1. Answered
    BY <1>9, ReplyPlain DEF Tick, Reply
  <2>2. \A s \in over : \E e \in published' : e.session = s /\ e.kind \in {"finished", "timedOut"}
    <3> SUFFICES ASSUME NEW s \in over
                 PROVE  \E e \in published' : e.session = s /\ e.kind \in {"finished", "timedOut"}
      OBVIOUS
    <3>1. [kind |-> "timedOut", session |-> s] \in published'
      BY <1>9 DEF Tick, Happened
    <3> QED BY <3>1
  <2>3. Ends
    BY <1>9, <2>2 DEF Tick, Drained
  <2> QED BY <1>9, <2>1, <2>3 DEF Tick, Tracks, wireVars
<1>10. ASSUME NEW what \in {"ok", "io"}, CloseStream(what) PROVE Goal
  <2>1. Answered
    BY <1>10 DEF CloseStream, Outcome
  <2> QED BY <1>10, <2>1 DEF CloseStream, Tracks, wireVars
<1> QED BY <1>1, <1>2, <1>3, <1>4, <1>5, <1>6, <1>7, <1>8, <1>9, <1>10, ActorStep DEF ActorStep

\* A step of the gateway adds at most the confirmation of the request it has read.
LEMMA GatewayTouches ==
    ASSUME TypeOK, GatewayStep
    PROVE  /\ UNCHANGED <<clientVars, answer, chan, actorVars>>
           /\ Elements(toGateway') \subseteq Elements(toGateway)
           /\ \A f \in Elements(incoming') :
                  f \in Elements(incoming) \/ f.kind # "confirmation" \/ f.of \in Elements(toGateway)
<1>t. incoming \in Seq(Frame) /\ toGateway \in Seq(Tickets)
  BY DEF TypeOK
<1>d. ASSUME NEW f \in Frame, Deliver(f) PROVE Elements(incoming') \subseteq Elements(incoming) \cup {f}
  BY <1>d, <1>t, ElementsAppend DEF Deliver
<1>0. UNCHANGED <<clientVars, answer, chan, actorVars>>
  BY DEF GatewayStep, GatewayReads, GatewayFinishes, GatewayNoise, LinkLost
<1>1. ASSUME NEW done, NEW reply, GatewayReads(done, reply)
      PROVE  /\ Elements(toGateway') \subseteq Elements(toGateway)
             /\ \A f \in Elements(incoming') : f \in Elements(incoming) \/ f.of \in Elements(toGateway)
  <2>1. /\ Elements(toGateway) = {Head(toGateway)} \cup Elements(Tail(toGateway))
        /\ Head(toGateway) \in Tickets
    BY <1>1, <1>t, ElementsTail DEF GatewayReads
  <2>2. \A status \in {"accepted", "rejected", "undecodable"} :
            /\ Confirmation(Head(toGateway), status) \in Frame
            /\ Confirmation(Head(toGateway), status).of = Head(toGateway)
    BY <2>1 DEF Confirmation, Frame
  <2>3. \/ UNCHANGED incoming
        \/ \E status \in {"accepted", "rejected", "undecodable"} :
               Deliver(Confirmation(Head(toGateway), status))
    BY <1>1 DEF GatewayReads
  <2>4. \A f \in Elements(incoming') : f \in Elements(incoming) \/ f.of \in Elements(toGateway)
    BY <2>1, <2>2, <2>3, <1>d
  <2> QED BY <1>1, <2>1, <2>4 DEF GatewayReads
<1>2. ASSUME NEW s \in SessionIds, GatewayFinishes(s)
      PROVE  /\ UNCHANGED toGateway
             /\ \A f \in Elements(incoming') : f \in Elements(incoming) \/ f.kind # "confirmation"
  <2>1. [kind |-> "finished", of |-> None, session |-> s, status |-> "accepted"] \in Frame
    BY DEF Frame
  <2> QED BY <1>2, <2>1, <1>d DEF GatewayFinishes
<1>3. ASSUME NEW kind \in {"notification", "malformed"}, GatewayNoise(kind)
      PROVE  /\ UNCHANGED toGateway
             /\ \A f \in Elements(incoming') : f \in Elements(incoming) \/ f.kind # "confirmation"
  <2>1. [kind |-> kind, of |-> None, session |-> NoSession, status |-> "accepted"] \in Frame
    BY DEF Frame
  <2> QED BY <1>3, <2>1, <1>d DEF GatewayNoise
<1>4. CASE LinkLost
  <2>1. [kind |-> "closed", of |-> None, session |-> NoSession, status |-> "accepted"] \in Frame
    BY DEF Frame
  <2> QED BY <1>0, <1>4, <2>1, <1>d, ElementsEmpty DEF LinkLost
<1> QED BY <1>0, <1>1, <1>2, <1>3, <1>4, GatewayStep DEF GatewayStep

-----------------------------------------------------------------------------
(***************************************************************************)
(* Confirmations and sessions.                                             *)
(***************************************************************************)
\* A request is its command and its session, and nothing else.
LEMMA RequestFields ==
    ASSUME TypeOK, NEW t \in Tickets, NEW u \in Tickets,
           asked[t].cmd = asked[u].cmd, asked[t].session = asked[u].session
    PROVE  asked[t] = asked[u]
<1>1. \A r \in Request \cup {NoRequest, CloseCommand} : r = [cmd |-> r.cmd, session |-> r.session]
  BY DEF Request, NoRequest, CloseCommand
<1>2. asked[t] = [cmd |-> asked[t].cmd, session |-> asked[t].session]
  BY <1>1 DEF TypeOK
<1>3. asked[u] = [cmd |-> asked[u].cmd, session |-> asked[u].session]
  BY <1>1 DEF TypeOK
<1> QED BY <1>2, <1>3

\* An answered ticket has had its turn, and so has everything the actor holds.
LEMMA PastTickets ==
    ASSUME Inv
    PROVE  /\ \A t \in Tickets : answer[t].is # "none" => t \in Past
           /\ Elements(requests) \cup Elements(chan) \subseteq Past
           /\ pending # None => pending \in Past
<1>1. /\ requests \in Seq(Tickets) /\ chan \in Seq(Tickets) /\ pending \in Tickets \cup {None}
  BY DEF Inv, TypeOK
<1>2. Elements(requests) \subseteq Tickets /\ Elements(chan) \subseteq Tickets
  BY <1>1, ElementsType
<1> QED BY <1>1, <1>2 DEF Inv, FutureFree, Held, Past

\* What a confirmation settles keeps its request and names one that keeps its own.
LEMMA ConfirmedStays ==
    ASSUME Inv, ConfirmInv, [Next]_vars,
           \A t \in Tickets : answer'[t] = answer[t] \/ answer'[t].of = None \/ Confirms(t)
    PROVE  SessionConfirmed' /\ \A t \in Tickets : answer'[t].of \in Past' \cup {None}
<1>t. TypeOK
  BY DEF Inv
<1>p. Past \subseteq Past' /\ Past \subseteq Tickets /\ \A t \in Past : asked'[t] = asked[t]
  BY PastStays DEF Past
<1>1. ASSUME NEW t \in Tickets, answer'[t] = answer[t]
      PROVE  answer'[t].of \in Past' \cup {None}
  BY <1>1, <1>p DEF ConfirmInv, TracesPast
<1>2. ASSUME NEW t \in Tickets, answer'[t] = answer[t], answer[t].is = "ok", answer[t].of # None,
             asked'[t].session # NoSession
      PROVE  asked'[answer'[t].of] = asked'[t]
  <2>1. t \in Past /\ answer[t].of \in Past
    BY <1>2, PastTickets DEF ConfirmInv, TracesPast
  <2>2. asked'[t] = asked[t] /\ asked'[answer[t].of] = asked[answer[t].of]
    BY <1>p, <2>1
  <2> QED BY <1>2, <2>2 DEF ConfirmInv, SessionConfirmed
<1>3. ASSUME NEW t \in Tickets, Confirms(t)
      PROVE  /\ answer'[t].of \in Past' \cup {None}
             /\ asked'[t].session # NoSession => asked'[answer'[t].of] = asked'[t]
  <2> DEFINE f == Head(incoming)
  <2>1. f \in Frame /\ f \in Elements(incoming)
    BY <1>3, <1>t, ElementsTail DEF TypeOK, Confirms
  <2>2. f.of \in Past
    BY <1>3, <2>1 DEF Confirms, ConfirmInv, TracesPast
  <2>3. t \in Past /\ asked'[t] = asked[t] /\ asked'[f.of] = asked[f.of] /\ f.of \in Past'
    BY <1>3, <1>p, <2>2, PastTickets DEF Confirms
  <2>4. asked[t].session # NoSession => asked[f.of] = asked[t]
    BY <1>3, <1>t, <1>p, <2>2, RequestFields DEF Confirms, Matches, ConfirmationOf
  <2>5. answer'[t].of = f.of
    BY <1>3 DEF Confirms
  <2> QED BY <2>3, <2>4, <2>5
<1>4. \A t \in Tickets : answer'[t].of \in Past' \cup {None}
  BY <1>1, <1>3
<1>5. SessionConfirmed'
  BY <1>2, <1>3 DEF SessionConfirmed
<1> QED BY <1>4, <1>5

\* The facts about confirmations and sessions hold initially.
LEMMA ConfirmInit == Init => ConfirmInv
<1> SUFFICES ASSUME Init PROVE ConfirmInv
  OBVIOUS
<1>1. Elements(toGateway) = {} /\ Elements(incoming) = {}
  BY ElementsEmpty DEF Init
<1>2. \A t \in Tickets : answer[t].of = None /\ answer[t].is = "none"
  BY DEF Init, Unanswered
<1> QED BY <1>1, <1>2 DEF Init, ConfirmInv, TracesPast, PendingUnopened, SessionConfirmed

\* Every step keeps the facts about confirmations and sessions.
LEMMA ConfirmNext == Inv /\ ConfirmInv /\ [Next]_vars => ConfirmInv'
<1> SUFFICES ASSUME Inv, ConfirmInv, [Next]_vars PROVE ConfirmInv'
  OBVIOUS
<1> DEFINE Named == \A t \in Tickets : answer'[t].of \in Past' \cup {None}
<1>t. TypeOK
  BY DEF Inv
<1>p. Past \subseteq Past' /\ \A t \in Past : asked'[t] = asked[t]
  BY PastStays
<1>q. ASSUME UNCHANGED <<pending, sessions>> PROVE PendingUnopened'
  <2>1. pending # None => asked'[pending] = asked[pending]
    BY <1>p, PastTickets
  <2> QED BY <1>q, <2>1 DEF ConfirmInv, PendingUnopened
<1>w. ASSUME UNCHANGED <<incoming, toGateway>>, Named PROVE TracesPast'
  BY <1>w, <1>p DEF ConfirmInv, TracesPast
<1>1. ASSUME NEW c \in Callers, ClientStep(c) PROVE ConfirmInv'
  <2>1. UNCHANGED <<pending, sessions, incoming, toGateway>>
    BY <1>1, ClientTouches DEF actorVars, wireVars
  <2>2. \A t \in Tickets : answer'[t] = answer[t] \/ answer'[t].of = None
    BY <1>1, ClientTouches DEF Outcome
  <2> QED BY <2>1, <2>2, <1>q, <1>w, ConfirmedStays DEF ConfirmInv
<1>2. CASE ActorStep
  <2>1. SessionConfirmed' /\ Named
    BY <1>2, <1>t, ActorTouches, ConfirmedStays
  <2>2. /\ Elements(incoming') \subseteq Elements(incoming)
        /\ Elements(toGateway') \subseteq Elements(toGateway) \cup Elements(requests)
        /\ UNCHANGED asked /\ Tracks
    BY <1>2, <1>t, ActorTouches DEF clientVars
  <2>3. TracesPast'
    BY <2>1, <2>2, <1>p, PastTickets DEF ConfirmInv, TracesPast
  <2>4. PendingUnopened'
    BY <2>2 DEF Tracks, Sendable, ConfirmInv, PendingUnopened
  <2> QED BY <2>1, <2>3, <2>4 DEF ConfirmInv
<1>3. CASE GatewayStep
  <2>1. UNCHANGED <<answer, pending, sessions>>
    BY <1>3, <1>t, GatewayTouches DEF actorVars
  <2>2. SessionConfirmed' /\ Named
    BY <2>1, ConfirmedStays
  <2>3. TracesPast'
    BY <2>2, <1>3, <1>t, <1>p, GatewayTouches DEF ConfirmInv, TracesPast
  <2> QED BY <2>1, <2>2, <2>3, <1>q DEF ConfirmInv
<1>4. CASE DropClient \/ UNCHANGED vars
  <2>1. UNCHANGED <<answer, pending, sessions, incoming, toGateway>>
    BY <1>4 DEF DropClient, vars, actorVars, wireVars
  <2> QED BY <2>1, <1>q, <1>w, ConfirmedStays DEF ConfirmInv
<1> QED BY <1>1, <1>2, <1>3, <1>4 DEF Next

\* The facts about confirmations and sessions, for every number of callers, requests
\* and sessions.
THEOREM Confirmations == Spec => []ConfirmInv
  BY ConfirmInit, ConfirmNext, Invariant, PTL DEF Spec

\* handle_frame settles a request that names a session only with a confirmation of
\* that very command and session, however late confirmations arrive.
THEOREM OnlyItsSessionConfirms == Spec => []SessionConfirmed
<1>1. ConfirmInv => SessionConfirmed
  BY DEF ConfirmInv
<1> QED BY <1>1, Confirmations, PTL

\* A step of the running actor that ends a tracked session reports it.
LEMMA SessionEndReported ==
    Inv /\ ConfirmInv /\ [Next]_vars =>
        [\A s \in sessions \ sessions' :
            actor' = "run" =>
                \E e \in published' : e.session = s /\ e.kind \in {"finished", "timedOut"}]_vars
<1> SUFFICES ASSUME Inv, ConfirmInv, [Next]_vars, NEW s \in sessions \ sessions', actor' = "run"
             PROVE  \E e \in published' : e.session = s /\ e.kind \in {"finished", "timedOut"}
  OBVIOUS
<1>1. ActorStep
  <2>1. \A c \in Callers : ~ClientStep(c)
    BY ClientTouches DEF actorVars
  <2>2. ~GatewayStep
    BY GatewayTouches DEF Inv, actorVars
  <2>3. ~DropClient /\ ~UNCHANGED vars
    BY DEF DropClient, vars, actorVars
  <2> QED BY <2>1, <2>2, <2>3 DEF Next
<1>2. Drained(s)
  BY <1>1, ActorTouches DEF Inv
<1> QED BY <1>2 DEF Drained, ConfirmInv, PendingUnopened

\* While the actor runs, no refusal or expiry of a request ends a session without an
\* event that says so.
THEOREM SessionsEndReported == Spec => NoSilentSessionEnd
  BY SessionEndReported, Invariant, Confirmations, PTL DEF Spec, NoSilentSessionEnd

-----------------------------------------------------------------------------
(***************************************************************************)
(* Order: sequences of tickets.                                            *)
(***************************************************************************)
\* A concatenation has the members of both parts.
LEMMA ElementsConcat ==
    ASSUME NEW S, NEW s \in Seq(S), NEW t \in Seq(S)
    PROVE  s \o t \in Seq(S) /\ Elements(s \o t) = Elements(s) \cup Elements(t)
<1>1. /\ s \o t \in Seq(S) /\ Len(s \o t) = Len(s) + Len(t) /\ Len(s) \in Nat /\ Len(t) \in Nat
      /\ \A i \in 1..(Len(s) + Len(t)) : (s \o t)[i] = IF i <= Len(s) THEN s[i] ELSE t[i - Len(s)]
  BY ConcatProperties, LenProperties
<1>2. ASSUME NEW i \in 1..Len(s) PROVE s[i] \in Elements(s \o t)
  <2>1. i \in 1..(Len(s) + Len(t)) /\ (s \o t)[i] = s[i]
    BY <1>1
  <2> QED BY <2>1, <1>1 DEF Elements
<1>3. ASSUME NEW i \in 1..Len(t) PROVE t[i] \in Elements(s \o t)
  <2>1. i + Len(s) \in 1..(Len(s) + Len(t)) /\ ~(i + Len(s) <= Len(s)) /\ (i + Len(s)) - Len(s) = i
    BY <1>1
  <2>2. (s \o t)[i + Len(s)] = t[i]
    BY <1>1, <2>1
  <2> QED BY <2>1, <2>2, <1>1 DEF Elements
<1>4. ASSUME NEW i \in 1..Len(s \o t) PROVE (s \o t)[i] \in Elements(s) \cup Elements(t)
  <2>1. CASE i <= Len(s)
    BY <2>1, <1>1 DEF Elements
  <2>2. CASE ~(i <= Len(s))
    <3>1. i - Len(s) \in 1..Len(t)
      BY <2>2, <1>1
    <3> QED BY <2>2, <3>1, <1>1 DEF Elements
  <2> QED BY <2>1, <2>2
<1> QED BY <1>1, <1>2, <1>3, <1>4 DEF Elements

\* Two increasing sequences, the first before the second, are one increasing sequence.
LEMMA IncreasingConcat ==
    ASSUME NEW s \in Seq(Nat), NEW t \in Seq(Nat), Increasing(s), Increasing(t),
           Before(Elements(s), Elements(t))
    PROVE  Increasing(s \o t)
<1> SUFFICES ASSUME NEW i \in 1..Len(s \o t), NEW j \in 1..Len(s \o t), i < j
             PROVE  (s \o t)[i] < (s \o t)[j]
  BY DEF Increasing
<1>1. /\ Len(s \o t) = Len(s) + Len(t) /\ Len(s) \in Nat /\ Len(t) \in Nat
      /\ (s \o t)[i] = IF i <= Len(s) THEN s[i] ELSE t[i - Len(s)]
      /\ (s \o t)[j] = IF j <= Len(s) THEN s[j] ELSE t[j - Len(s)]
  BY ConcatProperties, LenProperties
<1>2. CASE j <= Len(s)
  <2>1. i \in 1..Len(s) /\ j \in 1..Len(s)
    BY <1>1, <1>2
  <2> QED BY <2>1, <1>1, <1>2 DEF Increasing
<1>3. CASE i <= Len(s) /\ ~(j <= Len(s))
  <2>1. i \in 1..Len(s) /\ j - Len(s) \in 1..Len(t)
    BY <1>1, <1>3
  <2>2. s[i] \in Elements(s) /\ t[j - Len(s)] \in Elements(t)
    BY <2>1 DEF Elements
  <2> QED BY <2>2, <1>1, <1>3 DEF Before
<1>4. CASE ~(i <= Len(s)) /\ ~(j <= Len(s))
  <2>1. i - Len(s) \in 1..Len(t) /\ j - Len(s) \in 1..Len(t) /\ i - Len(s) < j - Len(s)
    BY <1>1, <1>4
  <2> QED BY <2>1, <1>1, <1>4 DEF Increasing
<1> QED BY <1>1, <1>2, <1>3, <1>4

\* A larger ticket joins an increasing sequence at its end.
LEMMA IncreasingAppend ==
    ASSUME NEW s \in Seq(Nat), NEW x \in Nat, Increasing(s), Before(Elements(s), {x})
    PROVE  Increasing(Append(s, x))
<1>1. <<x>> \in Seq(Nat) /\ Append(s, x) = s \o <<x>>
  BY AppendIsConcat
<1>2. Increasing(<<x>>) /\ Elements(<<x>>) = {x}
  BY DEF Increasing, Elements
<1> QED BY <1>1, <1>2, IncreasingConcat

\* The first of an increasing sequence is the smallest.
LEMMA IncreasingTail ==
    ASSUME NEW s \in Seq(Nat), s # <<>>, Increasing(s)
    PROVE  Increasing(Tail(s)) /\ Before({Head(s)}, Elements(Tail(s)))
<1>1. /\ Tail(s) \in Seq(Nat) /\ Len(Tail(s)) = Len(s) - 1 /\ Len(s) \in Nat /\ Len(s) >= 1
      /\ \A i \in 1..(Len(s) - 1) : Tail(s)[i] = s[i + 1]
      /\ Head(s) = s[1]
  BY HeadTailProperties, LenProperties, ElementsTail
<1>2. ASSUME NEW i \in 1..Len(Tail(s)), NEW j \in 1..Len(Tail(s)), i < j PROVE Tail(s)[i] < Tail(s)[j]
  <2>1. i + 1 \in 1..Len(s) /\ j + 1 \in 1..Len(s) /\ i + 1 < j + 1
    BY <1>1, <1>2
  <2> QED BY <2>1, <1>1 DEF Increasing
<1>3. ASSUME NEW j \in 1..Len(Tail(s)) PROVE Head(s) < Tail(s)[j]
  <2>1. 1 \in 1..Len(s) /\ j + 1 \in 1..Len(s) /\ 1 < j + 1
    BY <1>1
  <2> QED BY <2>1, <1>1 DEF Increasing
<1> QED BY <1>2, <1>3 DEF Increasing, Before, Elements

\* An empty sequence is increasing.
LEMMA IncreasingEmpty == Increasing(<<>>)
  BY DEF Increasing

\* The queues hold tickets, which are positive.
LEMMA UnderwayType ==
    ASSUME TypeOK
    PROVE  /\ Tickets \subseteq Nat \ {0} /\ None = 0
           /\ toGateway \in Seq(Nat) /\ requests \in Seq(Nat) /\ chan \in Seq(Nat)
           /\ Elements(toGateway) \subseteq Tickets /\ Elements(requests) \subseteq Tickets
           /\ Elements(chan) \subseteq Tickets /\ pending \in Nat
<1>1. Tickets \subseteq Nat \ {0} /\ None = 0
  BY BoundsAssumption DEF Tickets, None
<1>2. toGateway \in Seq(Tickets) /\ requests \in Seq(Tickets) /\ chan \in Seq(Tickets)
  BY DEF TypeOK
<1>3. toGateway \in Seq(Nat) /\ requests \in Seq(Nat) /\ chan \in Seq(Nat)
  BY <1>1, <1>2, SeqMonotonic
<1> QED BY <1>1, <1>2, <1>3, ElementsType DEF TypeOK

\* The order of the queues and of what passes between them is the order on the wire.
LEMMA OrderedIsGateOrder ==
    ASSUME TypeOK, Ordered
    PROVE  GateOrder
<1>t. /\ Tickets \subseteq Nat \ {0} /\ None = 0
      /\ toGateway \in Seq(Nat) /\ requests \in Seq(Nat) /\ chan \in Seq(Nat)
      /\ pending \in Nat /\ Elements(toGateway) \subseteq Tickets
  BY UnderwayType
<1>1. Written \in Seq(Nat) /\ Increasing(Written) /\ Elements(Written) \subseteq {pending}
        /\ Before(Elements(toGateway), Elements(Written))
  <2>1. CASE Written = <<>>
    BY <2>1, IncreasingEmpty, ElementsEmpty DEF Before
  <2>2. CASE Written = <<pending>> /\ pending # None /\ pending \notin Elements(toGateway)
    <3>1. <<pending>> \in Seq(Nat) /\ Increasing(<<pending>>) /\ Elements(<<pending>>) = {pending}
      BY <1>t DEF Increasing, Elements
    <3>2. ASSUME NEW t \in Elements(toGateway) PROVE t < pending
      <4>1. t <= pending /\ t # pending /\ t \in Nat
        BY <2>2, <1>t DEF Ordered
      <4> QED BY <4>1, <1>t
    <3> QED BY <2>2, <3>1, <3>2 DEF Before
  <2> QED BY <2>1, <2>2 DEF Written
<1>2. /\ toGateway \o Written \in Seq(Nat) /\ Increasing(toGateway \o Written)
      /\ Elements(toGateway \o Written) \subseteq Elements(toGateway) \cup {pending}
  BY <1>1, <1>t, IncreasingConcat, ElementsConcat DEF Ordered
<1>3. /\ (toGateway \o Written) \o requests \in Seq(Nat)
      /\ Increasing((toGateway \o Written) \o requests)
      /\ Elements((toGateway \o Written) \o requests)
             \subseteq Elements(toGateway) \cup {pending} \cup Elements(requests)
  <2>1. Before(Elements(toGateway \o Written), Elements(requests))
    BY <1>2 DEF Ordered, Before
  <2>2. PICK sent : sent = toGateway \o Written
    OBVIOUS
  <2>3. /\ sent \in Seq(Nat) /\ Increasing(sent) /\ Before(Elements(sent), Elements(requests))
        /\ Elements(sent) \subseteq Elements(toGateway) \cup {pending}
    BY <2>1, <2>2, <1>2
  <2>4. Increasing(requests)
    BY DEF Ordered
  <2>5. sent \o requests \in Seq(Nat) /\ Elements(sent \o requests) = Elements(sent) \cup Elements(requests)
    <3>1. \A s, t \in Seq(Nat) : s \o t \in Seq(Nat) /\ Elements(s \o t) = Elements(s) \cup Elements(t)
      BY ElementsConcat, Zenon
    <3> QED BY <2>3, <1>t, <3>1, Zenon
  <2>6. Increasing(sent \o requests)
    BY <2>3, <2>4, <1>t, IncreasingConcat, Zenon
  <2> QED BY <2>2, <2>3, <2>5, <2>6
<1>4. Before(Elements((toGateway \o Written) \o requests), Elements(chan))
  BY <1>3 DEF Ordered, Before
<1>5. Increasing(((toGateway \o Written) \o requests) \o chan)
  BY <1>3, <1>4, <1>t, IncreasingConcat DEF Ordered
<1> QED BY <1>5 DEF GateOrder

-----------------------------------------------------------------------------
(***************************************************************************)
(* Order: steps of the callers.  A step begins a call, submits a command,  *)
(* goes on to the next command of a shutdown, or ends the call.            *)
(***************************************************************************)
OthersStay(c) ==
    \A d \in Callers : d # c =>
        /\ pc'[d] = pc[d] /\ call'[d] = call[d] /\ (Calling(d)' <=> Calling(d))
        /\ Calling(d) => Last(d)' = Last(d) /\ asked'[call[d].ticket] = asked[call[d].ticket]

Begins(c) ==
    /\ ~Calling(c) /\ gate' = Append(gate, c) /\ UNCHANGED chan
    /\ call'[c].ticket = issued + 1 /\ Calling(c)' /\ pc'[c] = "submit"

Advances(c) ==
    /\ Calling(c) /\ gate[1] = c /\ UNCHANGED <<gate, chan>> /\ pc'[c] = "submit"
    /\ call'[c].ticket = call[c].ticket + 1 /\ Calling(c)' /\ Last(c)' = Last(c)

Leaves(c) ==
    /\ Calling(c) /\ ~Calling(c)' /\ UNCHANGED chan
    /\ \E k \in 1..Len(gate) : gate[k] = c /\ gate' = RemoveAt(gate, k)

\* Returning takes the caller out of the first place of the gate.
LEMMA TailRemoves ==
    ASSUME NEW S, NEW s \in Seq(S), s # <<>>
    PROVE  Tail(s) = RemoveAt(s, 1)
<1>1. /\ Tail(s) \in Seq(S) /\ Len(Tail(s)) = Len(s) - 1 /\ Len(s) \in Nat /\ Len(s) >= 1
      /\ \A i \in 1..(Len(s) - 1) : Tail(s)[i] = s[i + 1]
  BY HeadTailProperties, LenProperties, ElementsTail
<1>2. RemoveAt(s, 1) \in Seq(S)
  BY <1>1, RemoveAtKeeps
<1>3. Len(RemoveAt(s, 1)) = Len(s) - 1 /\ \A i \in 1..(Len(s) - 1) : RemoveAt(s, 1)[i] = s[i + 1]
  BY <1>1 DEF RemoveAt
<1> QED BY <1>1, <1>2, <1>3, SeqEqual

\* Only the call itself asks with its reserved tickets.
LEMMA OtherTickets ==
    ASSUME Inv, NEW c \in Callers, NEW d \in Callers, d # c, Calling(d)
    PROVE  /\ call[d].ticket \in Tickets /\ call[d].ticket # issued + 1
           /\ (Calling(c) /\ call[c].ticket + 1 <= Last(c)) => call[d].ticket # call[c].ticket + 1
<1>1. /\ call[d].ticket \in Tickets /\ call[d].ticket \in Nat /\ Last(d) \in Nat
      /\ call[d].ticket <= Last(d) /\ Last(d) <= issued /\ issued \in Nat
  BY TicketFacts
<1>2. ASSUME Calling(c), call[c].ticket + 1 <= Last(c) PROVE call[d].ticket # call[c].ticket + 1
  <2>1. call[c].ticket \in Nat /\ Last(c) \in Nat
    BY <1>2, TicketFacts
  <2>2. Last(c) < call[d].ticket \/ Last(d) < call[c].ticket
    BY <1>2 DEF Inv, Disjoint
  <2> QED BY <1>1, <1>2, <2>1, <2>2
<1> QED BY <1>1, <1>2

\* Going on with a call ends it or takes the next of its tickets.
LEMMA ContinueCases ==
    ASSUME Inv, NEW c \in Callers, Calling(c), gate[1] = c, NEW what \in Results, Continue(c, what),
           UNCHANGED chan
    PROVE  OthersStay(c) /\ (Advances(c) \/ Leaves(c))
<1>t. /\ call \in [Callers -> Call] /\ call[c] \in Call /\ pc \in [Callers -> {"idle", "submit", "wait"}]
      /\ asked \in [Tickets -> Request \cup {NoRequest, CloseCommand}] /\ gate \in Seq(Callers)
  BY DEF Inv, TypeOK
<1>n. call[c].ticket \in Tickets /\ call[c].ticket \in Nat /\ Last(c) \in Nat /\ gate # <<>>
        /\ Last(c) <= issued /\ issued \in Nat /\ issued <= MaxRequests /\ MaxRequests \in Nat
  BY TicketFacts, CallerFacts, BoundsAssumption
<1>1. ASSUME pc' = [pc EXCEPT ![c] = "idle"], gate' = Tail(gate), UNCHANGED asked,
             \A d \in Callers : d # c => call'[d] = call[d]
      PROVE  OthersStay(c) /\ Leaves(c)
  <2>1. OthersStay(c) /\ ~Calling(c)'
    BY <1>1, <1>t DEF OthersStay, Calling, Last
  <2>2. gate' = RemoveAt(gate, 1) /\ 1 \in 1..Len(gate)
    BY <1>1, <1>t, <1>n, TailRemoves
  <2> QED BY <2>1, <2>2 DEF Leaves
<1>2. ASSUME NEW noted \in Call, noted.op = call[c].op, NEW request, NextCommand(c, noted, request),
             Left(call[c].op, asked[call[c].ticket].cmd) = Left(call[c].op, request.cmd) + 1
      PROVE  OthersStay(c) /\ Advances(c)
  <2> DEFINE next == call[c].ticket + 1
  <2>1. Left(call[c].op, request.cmd) \in 0..2
    BY DEF Left
  <2>2. next <= Last(c) /\ next \in Tickets
    BY <1>2, <1>n, <2>1 DEF Last, Tickets
  <2>3. /\ call'[c].ticket = next /\ call'[c].op = call[c].op /\ asked'[next] = request
        /\ pc'[c] = "submit" /\ Calling(c)'
    BY <1>2, <1>t, <2>2 DEF NextCommand, Call, Calling
  <2>4. Last(c)' = Last(c)
    BY <1>2, <1>n, <2>1, <2>3 DEF Last
  <2>5. ASSUME NEW d \in Callers, d # c
        PROVE  /\ pc'[d] = pc[d] /\ call'[d] = call[d] /\ (Calling(d)' <=> Calling(d))
               /\ Calling(d) => /\ Last(d)' = Last(d)
                                /\ asked'[call[d].ticket] = asked[call[d].ticket]
    <3>1. pc'[d] = pc[d] /\ call'[d] = call[d] /\ (Calling(d)' <=> Calling(d))
      BY <1>2, <1>t, <2>5 DEF NextCommand, Calling
    <3>2. ASSUME Calling(d) PROVE asked'[call[d].ticket] = asked[call[d].ticket]
      <4>1. call[d].ticket \in Tickets /\ call[d].ticket # next
        BY <2>2, <2>5, <3>2, OtherTickets
      <4> QED BY <1>2, <1>t, <2>2, <4>1 DEF NextCommand
    <3> QED BY <3>1, <3>2 DEF Last
  <2> QED BY <1>2, <2>3, <2>4, <2>5 DEF OthersStay, Advances, NextCommand
<1>m. /\ [call[c] EXCEPT !.monitor = what] \in Call /\ [call[c] EXCEPT !.monitor = what].op = call[c].op
      /\ [call[c] EXCEPT !.reboot = what] \in Call /\ [call[c] EXCEPT !.reboot = what].op = call[c].op
  BY <1>t DEF Call
<1>3. CASE ReturnSend(c)
  BY <1>3, <1>1, <1>t DEF ReturnSend
<1>4. ASSUME NEW w, ReturnShutdown(c, w) PROVE OthersStay(c) /\ Leaves(c)
  BY <1>4, <1>1 DEF ReturnShutdown
<1>5. CASE /\ call[c].op = "shutdown" /\ asked[call[c].ticket].cmd = "disable"
           /\ NextCommand(c, [call[c] EXCEPT !.monitor = what], CloseCommand)
  <2>1. Left(call[c].op, asked[call[c].ticket].cmd) = Left(call[c].op, CloseCommand.cmd) + 1
    BY <1>5 DEF Left, CloseCommand
  <2> QED BY <1>2, <1>5, <1>m, <2>1
<1>6. CASE /\ call[c].op = "reboot" /\ asked[call[c].ticket].cmd = "disable"
           /\ NextCommand(c, [call[c] EXCEPT !.monitor = what], Reboot)
  <2>1. Left(call[c].op, asked[call[c].ticket].cmd) = Left(call[c].op, Reboot.cmd) + 1
    BY <1>6 DEF Left, Reboot
  <2> QED BY <1>2, <1>6, <1>m, <2>1
<1>7. CASE /\ call[c].op = "reboot" /\ asked[call[c].ticket].cmd = "reboot"
           /\ NextCommand(c, [call[c] EXCEPT !.reboot = what], CloseCommand)
  <2>1. Left(call[c].op, asked[call[c].ticket].cmd) = Left(call[c].op, CloseCommand.cmd) + 1
    BY <1>7 DEF Left, CloseCommand
  <2> QED BY <1>2, <1>7, <1>m, <2>1
<1> QED BY <1>3, <1>4, <1>5, <1>6, <1>7 DEF Continue

\* Every step of a caller leaves the other calls alone and is one of four kinds.
LEMMA ClientCases ==
    ASSUME Inv, NEW c \in Callers, ClientStep(c)
    PROVE  OthersStay(c) /\ (Begins(c) \/ Submit(c) \/ Advances(c) \/ Leaves(c))
<1>t. /\ call \in [Callers -> Call] /\ pc \in [Callers -> {"idle", "submit", "wait"}]
      /\ asked \in [Tickets -> Request \cup {NoRequest, CloseCommand}] /\ gate \in Seq(Callers)
  BY DEF Inv, TypeOK
<1>h. (pc[c] = "submit" /\ Head(gate) = c) => gate[1] = c
  BY <1>t, CallerFacts, ElementsTail DEF Calling
<1>1. ASSUME NEW op, NEW request, Begin(c, op, request) PROVE OthersStay(c) /\ Begins(c)
  <2>1. Begins(c)
    BY <1>1, <1>t DEF Begin, Begins, Calling
  <2>2. ASSUME NEW d \in Callers, d # c
        PROVE  /\ pc'[d] = pc[d] /\ call'[d] = call[d] /\ (Calling(d)' <=> Calling(d))
               /\ Calling(d) => /\ Last(d)' = Last(d)
                                /\ asked'[call[d].ticket] = asked[call[d].ticket]
    <3>1. pc'[d] = pc[d] /\ call'[d] = call[d] /\ (Calling(d)' <=> Calling(d))
      BY <1>1, <1>t, <2>2 DEF Begin, Calling
    <3>2. ASSUME Calling(d) PROVE asked'[call[d].ticket] = asked[call[d].ticket]
      <4>1. call[d].ticket \in Tickets /\ call[d].ticket # issued + 1
        BY <2>2, <3>2, OtherTickets
      <4> QED BY <1>1, <1>t, <4>1 DEF Begin
    <3> QED BY <3>1, <3>2 DEF Last
  <2> QED BY <2>1, <2>2 DEF OthersStay
<1>2. ASSUME NEW request \in Sends, Send(c, request) PROVE OthersStay(c) /\ Begins(c)
  BY <1>1, <1>2 DEF Send
<1>3. CASE Shutdown(c) \/ ShutdownAndReboot(c)
  BY <1>1, <1>3 DEF Shutdown, ShutdownAndReboot
<1>4. CASE Submit(c)
  <2>1. UNCHANGED <<call, asked>> /\ \A d \in Callers : d # c => pc'[d] = pc[d]
    BY <1>4, <1>t DEF Submit
  <2> QED BY <1>4, <2>1 DEF OthersStay, Calling, Last
<1>5. CASE SubmitRefused(c)
  <2>1. Calling(c) /\ gate[1] = c /\ UNCHANGED chan /\ gate # <<>>
    BY <1>5, <1>h, CallerFacts DEF SubmitRefused, Calling
  <2>2. ASSUME NEW w, ReturnShutdown(c, w) PROVE OthersStay(c) /\ Leaves(c)
    <3>1. /\ pc' = [pc EXCEPT ![c] = "idle"] /\ UNCHANGED <<call, asked>> /\ gate' = Tail(gate)
      BY <2>2 DEF ReturnShutdown
    <3>2. OthersStay(c) /\ ~Calling(c)'
      BY <3>1, <1>t DEF OthersStay, Calling, Last
    <3>3. gate' = RemoveAt(gate, 1) /\ 1 \in 1..Len(gate)
      BY <3>1, <1>t, <2>1, TailRemoves
    <3> QED BY <2>1, <3>2, <3>3 DEF Leaves
  <2>3. ASSUME Continue(c, "closed") PROVE OthersStay(c) /\ (Advances(c) \/ Leaves(c))
    BY <2>1, <2>3, ContinueCases DEF Results, Failures
  <2> QED BY <1>5, <2>2, <2>3 DEF SubmitRefused
<1>6. CASE Resume(c)
  <2>1. Calling(c) /\ UNCHANGED chan
    BY <1>6 DEF Resume, Calling
  <2>2. gate[1] = c
    BY <1>6, <2>1 DEF Resume, Inv, GateHolds
  <2>3. answer[call[c].ticket].is \in Results
    BY <2>1, CallerFacts DEF Results
  <2> QED BY <1>6, <2>1, <2>2, <2>3, ContinueCases DEF Resume
<1>7. CASE Cancel(c)
  <2>1. UNCHANGED <<asked, chan>> /\ \A d \in Callers : d # c => pc'[d] = pc[d] /\ call'[d] = call[d]
    BY <1>7, <1>t DEF Cancel
  <2>2. Leaves(c)
    BY <1>7, <1>t DEF Cancel, Leaves, Calling
  <2> QED BY <2>1, <2>2 DEF OthersStay, Calling, Last
<1> QED BY <1>2, <1>3, <1>4, <1>5, <1>6, <1>7 DEF ClientStep

-----------------------------------------------------------------------------
(***************************************************************************)
(* Order: every step.                                                      *)
(***************************************************************************)
\* What is underway has had its turn, so no later ticket than those handed out is.
LEMMA UnderwayIssued ==
    ASSUME Inv, ConfirmInv
    PROVE  \A t \in Underway : t \in Nat /\ t <= issued
<1>t. TypeOK
  BY DEF Inv
<1>1. \A t \in Underway : t \in Past \cup {None}
  BY PastTickets DEF Underway, ConfirmInv, TracesPast
<1>2. issued \in Nat /\ Tickets \subseteq Nat /\ None = 0
  BY <1>t, BoundsAssumption DEF TypeOK, Tickets, None
<1>3. \A t \in Past : t \in Nat /\ t <= issued
  BY <1>2 DEF Past, Future
<1> QED BY <1>1, <1>2, <1>3

\* A call that begins joins the end of the gate with the newest tickets.
LEMMA OrderBegins ==
    ASSUME Inv, ConfirmInv, OrderInv, NEW c \in Callers, Begins(c), OthersStay(c),
           UNCHANGED <<toGateway, requests, pending>>
    PROVE  OrderInv'
<1>t. gate \in Seq(Callers) /\ Len(gate) \in Nat /\ issued \in Nat
  BY DEF Inv, TypeOK
<1>1. /\ Len(gate') = Len(gate) + 1 /\ gate'[Len(gate) + 1] = c
      /\ \A i \in 1..Len(gate) : gate'[i] = gate[i]
  BY <1>t DEF Begins
<1>2. ASSUME NEW d \in Elements(gate)
      PROVE  /\ d \in Callers /\ d # c /\ Calling(d)' /\ call'[d] = call[d]
             /\ Last(d)' = Last(d) /\ Last(d) \in Nat /\ Last(d) <= issued
  <2>1. d \in Callers /\ Calling(d) /\ d # c
    BY <1>t DEF OrderInv, GateAscends, Begins, Elements
  <2> QED BY <2>1, TicketFacts DEF OthersStay
<1>3. ASSUME NEW i \in 1..Len(gate') PROVE Calling(gate[i])'
  <2>1. CASE i \in 1..Len(gate)
    <3>1. gate'[i] = gate[i] /\ gate[i] \in Elements(gate)
      BY <1>1, <2>1 DEF Elements
    <3> QED BY <3>1, <1>2 DEF Calling
  <2>2. CASE i = Len(gate) + 1
    BY <1>1, <2>2 DEF Begins, Calling
  <2> QED BY <1>1, <1>t, <2>1, <2>2
<1>4. ASSUME NEW i \in 1..Len(gate'), NEW j \in 1..Len(gate'), i < j
      PROVE  (Last(gate[i]) < call[gate[j]].ticket)'
  <2>1. i \in 1..Len(gate) /\ gate'[i] = gate[i] /\ gate[i] \in Elements(gate)
    BY <1>1, <1>4, <1>t DEF Elements
  <2>2. Last(gate[i])' = Last(gate[i]) /\ Last(gate[i]) \in Nat /\ Last(gate[i]) <= issued
    <3>1. PICK d \in Elements(gate) : d = gate[i]
      BY <2>1
    <3>2. Last(gate[i])' = Last(d)' /\ Last(gate[i]) = Last(d)
      BY <3>1, <2>1 DEF Last
    <3> QED BY <3>2, <1>2
  <2>3. CASE j \in 1..Len(gate)
    <3>1. gate'[j] = gate[j] /\ call'[gate[j]] = call[gate[j]]
      BY <1>1, <1>2, <2>3 DEF Elements
    <3>2. Last(gate[i]) < call[gate[j]].ticket
      BY <1>4, <2>1, <2>3 DEF OrderInv, GateAscends
    <3> QED BY <2>2, <3>1, <3>2
  <2>4. CASE j = Len(gate) + 1
    <3>1. call'[gate'[j]].ticket = issued + 1
      BY <1>1, <2>4 DEF Begins
    <3> QED BY <2>2, <3>1, <1>t
  <2> QED BY <1>1, <1>t, <2>3, <2>4
<1>5. GateAscends'
  BY <1>3, <1>4 DEF GateAscends
<1>6. Underway' = Underway /\ Ordered'
  BY DEF Underway, OrderInv, Ordered, Begins
<1>7. ASSUME NEW d \in Callers, Calling(d)', NEW t \in Underway
      PROVE  (t < call[d].ticket \/ (t = call[d].ticket /\ pc[d] = "wait"))'
  <2>1. CASE d = c
    BY <2>1, <1>t, UnderwayIssued DEF Begins
  <2>2. CASE d # c
    BY <2>2, <1>7 DEF OthersStay, OrderInv, Trails
  <2> QED BY <2>1, <2>2
<1>8. Trails'
  BY <1>6, <1>7 DEF Trails
<1> QED BY <1>5, <1>6, <1>8 DEF OrderInv

\* No caller is twice at the gate.
LEMMA GateOnce ==
    ASSUME Inv, OrderInv, NEW i \in 1..Len(gate), NEW j \in 1..Len(gate), i # j
    PROVE  gate[i] # gate[j]
<1>1. gate \in Seq(Callers) /\ gate[i] \in Callers /\ Calling(gate[i]) /\ i \in Nat /\ j \in Nat
  BY DEF Inv, TypeOK, OrderInv, GateAscends
<1>2. call[gate[i]].ticket \in Nat /\ Last(gate[i]) \in Nat /\ call[gate[i]].ticket <= Last(gate[i])
  BY <1>1, TicketFacts
<1>3. i < j \/ j < i
  BY <1>1
<1>4. Last(gate[i]) < call[gate[j]].ticket \/ Last(gate[j]) < call[gate[i]].ticket
  BY <1>3 DEF OrderInv, GateAscends
<1> QED BY <1>2, <1>4

\* The call at the head of the gate ends before any other call begins.
LEMMA HeadFirst ==
    ASSUME Inv, OrderInv, NEW c \in Callers, gate[1] = c, NEW d \in Callers, d # c, Calling(d)
    PROVE  Last(c) < call[d].ticket
<1>1. gate \in Seq(Callers) /\ Len(gate) \in Nat
  BY DEF Inv, TypeOK
<1>2. PICK j \in 1..Len(gate) : gate[j] = d
  BY DEF Inv, GateHolds, Elements
<1>3. 1 \in 1..Len(gate) /\ 1 < j
  BY <1>1, <1>2
<1> QED BY <1>2, <1>3 DEF OrderInv, GateAscends

\* A command that is submitted is newer than everything underway.
LEMMA OrderSubmit ==
    ASSUME Inv, OrderInv, NEW c \in Callers, Submit(c)
    PROVE  OrderInv'
<1> DEFINE new == call[c].ticket
<1>t. /\ gate \in Seq(Callers) /\ chan \in Seq(Tickets) /\ chan \in Seq(Nat)
      /\ Elements(chan) \subseteq Tickets /\ pc \in [Callers -> {"idle", "submit", "wait"}]
  BY UnderwayType DEF Inv, TypeOK
<1>1. Calling(c) /\ pc[c] = "submit" /\ pc'[c] = "wait" /\ gate[1] = c /\ new \in Tickets /\ new \in Nat
  BY <1>t, CallerFacts, TicketFacts, ElementsTail DEF Submit, Calling
<1>2. UNCHANGED <<gate, call, asked, toGateway, requests, pending>> /\ chan' = Append(chan, new)
  BY DEF Submit, actorVars, wireVars
<1>3. \A d \in Callers : (Calling(d)' <=> Calling(d)) /\ (d # c => pc'[d] = pc[d])
  BY <1>1, <1>t DEF Submit, Calling
<1>4. GateAscends'
  <2>1. \A i \in 1..Len(gate) : gate[i] \in Callers
    BY <1>t
  <2> QED BY <1>2, <1>3, <2>1 DEF OrderInv, GateAscends, Last
<1>5. Elements(chan') = Elements(chan) \cup {new} /\ Underway' = Underway \cup {new}
  BY <1>t, <1>1, <1>2, ElementsAppend DEF Underway
<1>6. \A t \in Underway : t < new
  BY <1>1 DEF OrderInv, Trails
<1>7. ASSUME NEW d \in Callers, Calling(d), d # c
      PROVE  \A t \in Underway' : t < call[d].ticket \/ (t = call[d].ticket /\ pc[d] = "wait")
  <2>1. new < call[d].ticket
    <3>1. Last(c) < call[d].ticket /\ call[d].ticket \in Nat /\ Last(c) \in Nat /\ new <= Last(c)
      BY <1>1, <1>7, HeadFirst, TicketFacts
    <3> QED BY <3>1, <1>1
  <2> QED BY <1>5, <1>7, <2>1 DEF OrderInv, Trails
<1>8. Trails'
  BY <1>1, <1>2, <1>3, <1>5, <1>6, <1>7 DEF Trails
<1>9. Increasing(chan')
  BY <1>1, <1>2, <1>6, <1>t, IncreasingAppend DEF OrderInv, Ordered, Before, Underway
<1>10. Ordered'
  <2>1. Before(Elements(toGateway) \cup {pending}, Elements(requests) \cup Elements(chan'))
    BY <1>5, <1>6 DEF OrderInv, Ordered, Before, Underway
  <2>2. Before(Elements(requests), Elements(chan'))
    BY <1>5, <1>6 DEF OrderInv, Ordered, Before, Underway
  <2> QED BY <1>2, <1>9, <2>1, <2>2 DEF OrderInv, Ordered
<1> QED BY <1>4, <1>8, <1>10 DEF OrderInv

\* The next command of a shutdown comes before the tickets of the calls behind it.
LEMMA OrderAdvances ==
    ASSUME Inv, ConfirmInv, OrderInv, NEW c \in Callers, Advances(c), OthersStay(c),
           UNCHANGED <<toGateway, requests, pending>>
    PROVE  OrderInv'
<1>t. gate \in Seq(Callers) /\ Len(gate) \in Nat
  BY DEF Inv, TypeOK
<1>1. ASSUME NEW d \in Callers, Calling(d)
      PROVE  Calling(d)' /\ Last(d)' = Last(d) /\ (d # c => call'[d] = call[d] /\ pc'[d] = pc[d])
  BY <1>1 DEF Advances, OthersStay
<1>2. ASSUME NEW i \in 1..Len(gate)
      PROVE  gate'[i] = gate[i] /\ gate[i] \in Callers /\ Calling(gate[i]) /\ (i # 1 => gate[i] # c)
  <2>1. 1 \in 1..Len(gate)
    BY <1>t
  <2> QED BY <1>t, <2>1, GateOnce DEF Advances, OrderInv, GateAscends
<1>3. ASSUME NEW i \in 1..Len(gate) PROVE Calling(gate[i])' /\ Last(gate[i])' = Last(gate[i])
  <2>1. PICK d \in Callers : d = gate[i] /\ Calling(d) /\ gate'[i] = d
    BY <1>2
  <2>2. Last(gate[i])' = Last(d)' /\ Last(gate[i]) = Last(d) /\ (Calling(gate[i])' <=> Calling(d)')
    BY <2>1 DEF Last, Calling
  <2> QED BY <1>1, <2>1, <2>2
<1>4. ASSUME NEW i \in 1..Len(gate), NEW j \in 1..Len(gate), i < j
      PROVE  (Last(gate[i]) < call[gate[j]].ticket)'
  <2>1. Last(gate[i]) < call[gate[j]].ticket /\ j # 1
    BY <1>4 DEF OrderInv, GateAscends
  <2>2. call'[gate'[j]] = call[gate[j]]
    BY <1>1, <1>2, <2>1
  <2> QED BY <1>3, <2>1, <2>2
<1>5. GateAscends'
  BY <1>3, <1>4 DEF GateAscends, Advances
<1>6. Underway' = Underway /\ Ordered'
  BY DEF Underway, OrderInv, Ordered, Advances
<1>7. ASSUME NEW d \in Callers, Calling(d)', NEW t \in Underway
      PROVE  (t < call[d].ticket \/ (t = call[d].ticket /\ pc[d] = "wait"))'
  <2>1. CASE d = c
    <3>1. call[c].ticket \in Nat /\ t \in Nat /\ Calling(c)
      BY TicketFacts, UnderwayIssued DEF Advances
    <3>2. t < call[c].ticket \/ t = call[c].ticket
      BY <3>1 DEF OrderInv, Trails
    <3> QED BY <2>1, <3>1, <3>2 DEF Advances
  <2>2. CASE d # c
    BY <2>2, <1>7 DEF OthersStay, OrderInv, Trails
  <2> QED BY <2>1, <2>2
<1>8. Trails'
  BY <1>6, <1>7 DEF Trails
<1> QED BY <1>5, <1>6, <1>8 DEF OrderInv

\* A call that ends leaves the order of the others as it was.
LEMMA OrderLeaves ==
    ASSUME Inv, OrderInv, NEW c \in Callers, Leaves(c), OthersStay(c),
           UNCHANGED <<toGateway, requests, pending>>
    PROVE  OrderInv'
<1>t. gate \in Seq(Callers) /\ Len(gate) \in Nat
  BY DEF Inv, TypeOK
<1>0. PICK k \in 1..Len(gate) : gate[k] = c /\ gate' = RemoveAt(gate, k)
  BY DEF Leaves
<1> DEFINE from(i) == IF i < k THEN i ELSE i + 1
<1>1. Len(gate') = Len(gate) - 1 /\ Len(gate) - 1 \in Nat
  BY <1>0, <1>t DEF RemoveAt
<1>2. ASSUME NEW i \in 1..Len(gate')
      PROVE  /\ from(i) \in 1..Len(gate) /\ from(i) # k /\ gate'[i] = gate[from(i)]
             /\ \A j \in 1..Len(gate') : i < j => from(i) < from(j)
  BY <1>0, <1>1, <1>t DEF RemoveAt
<1>3. ASSUME NEW i \in 1..Len(gate')
      PROVE  /\ Calling(gate[i])' /\ Last(gate[i])' = Last(gate[from(i)])
             /\ call'[gate'[i]] = call[gate[from(i)]]
  <2>1. from(i) \in 1..Len(gate) /\ from(i) # k /\ gate'[i] = gate[from(i)]
    BY <1>2
  <2> HIDE DEF from
  <2>2. gate[from(i)] \in Callers /\ Calling(gate[from(i)]) /\ gate[from(i)] # c
    BY <1>0, <1>t, <2>1, GateOnce DEF OrderInv, GateAscends
  <2>3. PICK d \in Callers : d = gate[from(i)] /\ Calling(d) /\ gate'[i] = d /\ d # c
    BY <2>1, <2>2
  <2>4. Last(gate[i])' = Last(d)' /\ Last(gate[from(i)]) = Last(d) /\ (Calling(gate[i])' <=> Calling(d)')
    BY <2>3 DEF Last, Calling
  <2> QED BY <2>3, <2>4 DEF OthersStay
<1>4. ASSUME NEW i \in 1..Len(gate'), NEW j \in 1..Len(gate'), i < j
      PROVE  (Last(gate[i]) < call[gate[j]].ticket)'
  <2>1. from(i) \in 1..Len(gate) /\ from(j) \in 1..Len(gate) /\ from(i) < from(j)
    BY <1>2, <1>4
  <2> HIDE DEF from
  <2>2. Last(gate[from(i)]) < call[gate[from(j)]].ticket
    BY <2>1 DEF OrderInv, GateAscends
  <2> QED BY <1>3, <2>2
<1>5. GateAscends'
  BY <1>3, <1>4 DEF GateAscends
<1>6. Underway' = Underway /\ Ordered'
  BY DEF Underway, OrderInv, Ordered, Leaves
<1>7. Trails'
  BY <1>6 DEF Leaves, OthersStay, OrderInv, Trails
<1> QED BY <1>5, <1>6, <1>7 DEF OrderInv

\* What the actor does with the queues, of all it does.
Moves ==
    \/ requests' = <<>> /\ chan' = <<>> /\ pending' = None /\ UNCHANGED toGateway
    \/ /\ requests # <<>> /\ requests' = Tail(requests) /\ UNCHANGED <<chan, pending, toGateway>>
    \/ /\ requests # <<>> /\ requests' = Tail(requests) /\ pending' = Head(requests) /\ UNCHANGED chan
       /\ toGateway' \in {toGateway, Append(toGateway, Head(requests))}
    \/ /\ chan # <<>> /\ requests' = Append(requests, Head(chan)) /\ chan' = Tail(chan)
       /\ UNCHANGED <<pending, toGateway>>
    \/ pending' \in {pending, None} /\ UNCHANGED <<requests, chan, toGateway>>
    \/ chan' = <<>> /\ UNCHANGED <<requests, pending, toGateway>>

\* Every step of the actor moves tickets in one of these ways.
LEMMA ActorMoves == ActorStep => UNCHANGED clientVars /\ Moves
<1> SUFFICES ASSUME ActorStep PROVE UNCHANGED clientVars /\ Moves
  OBVIOUS
<1>1. ASSUME NEW also, NEW t, NEW why, Stop(also, t, why) PROVE UNCHANGED clientVars /\ Moves
  BY <1>1 DEF Stop, Moves
<1>2. CASE DispatchRefuse
  BY <1>2 DEF DispatchRefuse, Dispatching, Moves, wireVars
<1>3. CASE DispatchWrite
  BY <1>3 DEF DispatchWrite, Dispatching, Moves
<1>4. CASE ReceiveSend
  BY <1>4 DEF ReceiveSend, Moves, wireVars
<1>5. CASE HandleFrame
  <2>1. pending' \in {pending, None}
    BY <1>5 DEF HandleFrame, Confirm, Report
  <2> QED BY <1>5, <2>1 DEF HandleFrame, Moves
<1>6. ASSUME NEW late, NEW over, Tick(late, over) PROVE UNCHANGED clientVars /\ Moves
  BY <1>6 DEF Tick, Moves, wireVars
<1>7. ASSUME NEW what, CloseStream(what) PROVE UNCHANGED clientVars /\ Moves
  BY <1>7 DEF CloseStream, Moves, wireVars
<1>8. CASE DispatchFail \/ ReceiveShutdown \/ ReceiveDropped \/ StreamEnded
  BY <1>8, <1>1 DEF DispatchFail, ReceiveShutdown, ReceiveDropped, StreamEnded
<1> QED BY <1>2, <1>3, <1>4, <1>5, <1>6, <1>7, <1>8 DEF ActorStep

\* The actor writes and queues in the order in which requests came.
LEMMA MovesOrdered ==
    ASSUME TypeOK, Ordered, Moves
    PROVE  Ordered' /\ Underway' \subseteq Underway \cup {None}
<1>t. /\ Tickets \subseteq Nat \ {0} /\ None = 0
      /\ toGateway \in Seq(Nat) /\ requests \in Seq(Nat) /\ chan \in Seq(Nat)
      /\ Elements(toGateway) \subseteq Tickets /\ Elements(requests) \subseteq Tickets
      /\ Elements(chan) \subseteq Tickets /\ pending \in Nat
  BY UnderwayType
<1>o. /\ Increasing(toGateway) /\ Increasing(requests) /\ Increasing(chan)
      /\ Before(Elements(toGateway) \cup {pending}, Elements(requests) \cup Elements(chan))
      /\ Before(Elements(requests), Elements(chan))
      /\ pending # None => \A t \in Elements(toGateway) : t <= pending
  BY DEF Ordered
<1>z. Before({None}, Elements(requests) \cup Elements(chan))
  <2>1. \A t \in Nat \ {0} : 0 < t
    OBVIOUS
  <2>2. \A t \in Elements(requests) \cup Elements(chan) : t \in Nat \ {0}
    BY <1>t
  <2> QED BY <2>1, <2>2, <1>t DEF Before
<1>1. CASE requests' = <<>> /\ chan' = <<>> /\ pending' = None /\ UNCHANGED toGateway
  BY <1>1, <1>o, ElementsEmpty, IncreasingEmpty DEF Ordered, Before, Underway
<1>2. CASE requests # <<>> /\ requests' = Tail(requests) /\ UNCHANGED <<chan, pending, toGateway>>
  <2>1. Elements(requests') \subseteq Elements(requests) /\ Increasing(requests')
    <3>1. Elements(requests) = {Head(requests)} \cup Elements(Tail(requests))
      BY <1>2, <1>t, ElementsTail, Zenon
    <3>2. Increasing(Tail(requests))
      BY <1>2, <1>o, <1>t, IncreasingTail, Zenon
    <3> QED BY <1>2, <3>1, <3>2
  <2> QED BY <1>2, <1>o, <2>1 DEF Ordered, Before, Underway
<1>3. CASE /\ requests # <<>> /\ requests' = Tail(requests) /\ pending' = Head(requests) /\ UNCHANGED chan
           /\ toGateway' \in {toGateway, Append(toGateway, Head(requests))}
  <2> DEFINE t == Head(requests)
  <2>1. /\ Elements(requests) = {t} \cup Elements(requests') /\ t \in Nat
        /\ Increasing(requests') /\ Before({t}, Elements(requests'))
    BY <1>3, <1>o, <1>t, ElementsTail, IncreasingTail
  <2>2. Before(Elements(toGateway), {t})
    BY <1>o, <2>1 DEF Before
  <2>3. Elements(Append(toGateway, t)) = Elements(toGateway) \cup {t} /\ Increasing(Append(toGateway, t))
    BY <1>o, <1>t, <2>1, <2>2, ElementsAppend, IncreasingAppend
  <2>4. Increasing(toGateway') /\ Elements(toGateway') \subseteq Elements(toGateway) \cup {t}
    BY <1>3, <1>o, <2>3
  <2>5. Before(Elements(toGateway') \cup {pending'}, Elements(requests') \cup Elements(chan'))
    BY <1>3, <1>o, <2>1, <2>4 DEF Before
  <2>6. ASSUME NEW u \in Elements(toGateway') PROVE u <= t
    <3>1. CASE u = t
      BY <3>1, <2>1
    <3>2. CASE u \in Elements(toGateway)
      <4>1. u < t /\ u \in Nat
        BY <3>2, <2>2, <1>t DEF Before
      <4> QED BY <4>1, <2>1
    <3> QED BY <3>1, <3>2, <2>4
  <2>7. Before(Elements(requests'), Elements(chan'))
    BY <1>3, <1>o, <2>1 DEF Before
  <2>8. Underway' \subseteq Underway
    BY <1>3, <2>1, <2>4 DEF Underway
  <2>9. Ordered'
    BY <1>3, <1>o, <2>1, <2>4, <2>5, <2>6, <2>7 DEF Ordered
  <2> QED BY <2>8, <2>9
<1>4. CASE /\ chan # <<>> /\ requests' = Append(requests, Head(chan)) /\ chan' = Tail(chan)
           /\ UNCHANGED <<pending, toGateway>>
  <2> DEFINE t == Head(chan)
  <2>1. /\ Elements(chan) = {t} \cup Elements(chan') /\ t \in Nat
        /\ Increasing(chan') /\ Before({t}, Elements(chan'))
    BY <1>4, <1>o, <1>t, ElementsTail, IncreasingTail
  <2>2. Before(Elements(requests), {t})
    BY <1>o, <2>1 DEF Before
  <2>3. Elements(requests') = Elements(requests) \cup {t} /\ Increasing(requests')
    BY <1>4, <1>o, <1>t, <2>1, <2>2, ElementsAppend, IncreasingAppend
  <2>4. Elements(requests') \cup Elements(chan') = Elements(requests) \cup Elements(chan)
    BY <2>1, <2>3
  <2>5. Before(Elements(requests'), Elements(chan'))
    BY <1>o, <2>1, <2>3 DEF Before
  <2>6. Ordered'
    BY <1>4, <1>o, <2>1, <2>3, <2>4, <2>5 DEF Ordered
  <2> QED BY <1>4, <2>4, <2>6 DEF Underway
<1>5. CASE pending' \in {pending, None} /\ UNCHANGED <<requests, chan, toGateway>>
  <2>1. Before(Elements(toGateway) \cup {pending'}, Elements(requests) \cup Elements(chan))
    BY <1>5, <1>o, <1>z DEF Before
  <2>2. Ordered'
    BY <1>5, <1>o, <2>1 DEF Ordered
  <2> QED BY <1>5, <2>2 DEF Underway
<1>6. CASE chan' = <<>> /\ UNCHANGED <<requests, pending, toGateway>>
  BY <1>6, <1>o, ElementsEmpty, IncreasingEmpty DEF Ordered, Before, Underway
<1> QED BY <1>1, <1>2, <1>3, <1>4, <1>5, <1>6 DEF Moves

\* What the gateway has read leaves the wire, and a lost link empties it.
LEMMA GatewayOrdered ==
    ASSUME TypeOK, Ordered, GatewayStep
    PROVE  Ordered' /\ Underway' \subseteq Underway
<1>t. toGateway \in Seq(Nat)
  BY UnderwayType
<1>1. toGateway' \in {toGateway, <<>>} \/ (toGateway # <<>> /\ toGateway' = Tail(toGateway))
  BY DEF GatewayStep, GatewayReads, GatewayFinishes, GatewayNoise, LinkLost
<1>2. Increasing(toGateway') /\ Elements(toGateway') \subseteq Elements(toGateway)
  <2>1. CASE toGateway' = toGateway
    BY <2>1 DEF Ordered
  <2>2. CASE toGateway' = <<>>
    <3>1. Increasing(<<>>) /\ Elements(<<>>) = {}
      BY ElementsEmpty, IncreasingEmpty
    <3> QED BY <2>2, <3>1
  <2>3. CASE toGateway # <<>> /\ toGateway' = Tail(toGateway)
    <3>1. Elements(toGateway) = {Head(toGateway)} \cup Elements(Tail(toGateway))
      BY <2>3, <1>t, ElementsTail, Zenon
    <3>2. Increasing(toGateway)
      BY DEF Ordered
    <3>3. Increasing(Tail(toGateway))
      BY <2>3, <3>2, <1>t, IncreasingTail, Zenon
    <3> QED BY <2>3, <3>1, <3>3
  <2> QED BY <1>1, <2>1, <2>2, <2>3
<1>3. UNCHANGED <<requests, chan, pending>>
  BY GatewayTouches DEF actorVars
<1> QED BY <1>2, <1>3 DEF Ordered, Before, Underway

\* The order holds initially.
LEMMA OrderInit == Init => OrderInv
<1> SUFFICES ASSUME Init PROVE OrderInv
  OBVIOUS
<1>1. GateAscends /\ Trails
  BY DEF Init, GateAscends, Trails, Calling
<1>2. Ordered
  BY ElementsEmpty, IncreasingEmpty DEF Init, Ordered, Before
<1> QED BY <1>1, <1>2 DEF OrderInv

\* Every step keeps the order.
LEMMA OrderNext == Inv /\ ConfirmInv /\ OrderInv /\ [Next]_vars => OrderInv'
<1> SUFFICES ASSUME Inv, ConfirmInv, OrderInv, [Next]_vars PROVE OrderInv'
  OBVIOUS
<1>t. TypeOK
  BY DEF Inv
<1>0. ASSUME UNCHANGED <<gate, pc, call, asked>>, Ordered', Underway' \subseteq Underway \cup {None}
      PROVE  OrderInv'
  <2>1. \A c \in Callers : (Calling(c)' <=> Calling(c)) /\ Last(c)' = Last(c)
    BY <1>0 DEF Calling, Last
  <2>2. GateAscends'
    BY <1>0 DEF OrderInv, GateAscends, Calling, Last
  <2>3. \A c \in Callers : Calling(c) => None < call[c].ticket
    <3>1. \A c \in Callers : Calling(c) => call[c].ticket \in Tickets
      BY TicketFacts
    <3> QED BY <3>1, <1>t, UnderwayType
  <2>4. Trails'
    BY <1>0, <2>1, <2>3 DEF OrderInv, Trails
  <2> QED BY <1>0, <2>2, <2>4 DEF OrderInv
<1>1. ASSUME NEW c \in Callers, ClientStep(c) PROVE OrderInv'
  <2>1. UNCHANGED <<toGateway, requests, pending>>
    BY <1>1, ClientTouches DEF actorVars, wireVars
  <2>2. OthersStay(c) /\ (Begins(c) \/ Submit(c) \/ Advances(c) \/ Leaves(c))
    BY <1>1, ClientCases
  <2> QED BY <2>1, <2>2, OrderBegins, OrderSubmit, OrderAdvances, OrderLeaves
<1>2. CASE ActorStep
  <2>1. UNCHANGED <<gate, pc, call, asked>> /\ Moves
    BY <1>2, ActorMoves DEF clientVars
  <2> QED BY <2>1, <1>0, <1>t, MovesOrdered DEF OrderInv
<1>3. CASE GatewayStep
  <2>1. UNCHANGED <<gate, pc, call, asked>>
    BY <1>3, <1>t, GatewayTouches DEF clientVars
  <2> QED BY <2>1, <1>0, <1>3, <1>t, GatewayOrdered DEF OrderInv
<1>4. CASE DropClient \/ UNCHANGED vars
  <2>1. UNCHANGED <<gate, pc, call, asked, toGateway, requests, chan, pending>>
    BY <1>4 DEF DropClient, vars, clientVars, actorVars, wireVars
  <2>2. Ordered' /\ Underway' = Underway
    BY <2>1 DEF OrderInv, Ordered, Underway
  <2> QED BY <1>0, <2>1, <2>2
<1> QED BY <1>1, <1>2, <1>3, <1>4 DEF Next

\* The order of the gate and of everything underway, for every number of callers.
THEOREM OrderKept == Spec => []OrderInv
  BY OrderInit, OrderNext, Invariant, Confirmations, PTL DEF Spec

\* Requests are written in the order in which their calls queued at the gate, past
\* every cancelled call and across the commands of a shutdown.
THEOREM WrittenInGateOrder == Spec => []GateOrder
<1>1. Inv /\ OrderInv => GateOrder
  BY OrderedIsGateOrder DEF Inv, OrderInv
<1> QED BY <1>1, Invariant, OrderKept, PTL

-----------------------------------------------------------------------------
(***************************************************************************)
(* The connection actor implements SerialCalls: the requests it has        *)
(* accepted and those in the command channel are one queue, the pending    *)
(* request (or, once it stops, the request to stop) is the current one,    *)
(* and a request is settled when its reply channel is used or gone.        *)
(***************************************************************************)
\* The refinement mapping, as in the INSTANCE of SerialCalls.
Queue == requests \o chan
Current == CASE actor = "run" -> pending
             [] actor = "closing" -> farewell
             [] OTHER -> None
Settled == {t \in Tickets : answer[t].is # "none"}
Halted == actor # "run"

-----------------------------------------------------------------------------
(***************************************************************************)
(* Two queues as one, and the settled tickets.                             *)
(***************************************************************************)
\* The head of the first queue is the head of both.
LEMMA ConcatHead ==
    ASSUME NEW S, NEW s \in Seq(S), NEW t \in Seq(S), s # <<>>
    PROVE  s \o t # <<>> /\ Head(s \o t) = Head(s) /\ Tail(s \o t) = Tail(s) \o t
<1>1. /\ Len(s) \in Nat /\ Len(s) >= 1 /\ Len(t) \in Nat /\ Head(s) = s[1]
      /\ Tail(s) \in Seq(S) /\ Len(Tail(s)) = Len(s) - 1
      /\ \A i \in 1..(Len(s) - 1) : Tail(s)[i] = s[i + 1]
  BY HeadTailProperties, LenProperties, ElementsTail
<1>2. /\ s \o t \in Seq(S) /\ Len(s \o t) = Len(s) + Len(t)
      /\ \A i \in 1..(Len(s) + Len(t)) : (s \o t)[i] = IF i <= Len(s) THEN s[i] ELSE t[i - Len(s)]
  BY ConcatProperties
<1>3. s \o t # <<>> /\ Head(s \o t) = (s \o t)[1] /\ (s \o t)[1] = s[1]
  <2>1. Len(s \o t) # 0
    BY <1>1, <1>2
  <2>2. s \o t # <<>>
    BY <2>1
  <2>3. Head(s \o t) = (s \o t)[1]
    BY <1>2, <2>2, ElementsTail
  <2>4. (s \o t)[1] = s[1]
    BY <1>1, <1>2
  <2> QED BY <2>2, <2>3, <2>4
<1>4. /\ Tail(s \o t) \in Seq(S) /\ Len(Tail(s \o t)) = Len(s) + Len(t) - 1
      /\ \A i \in 1..(Len(s) + Len(t) - 1) : Tail(s \o t)[i] = (s \o t)[i + 1]
  BY <1>2, <1>3, HeadTailProperties
<1>5. /\ Tail(s) \o t \in Seq(S) /\ Len(Tail(s) \o t) = Len(s) - 1 + Len(t)
      /\ \A i \in 1..(Len(s) - 1 + Len(t)) :
             (Tail(s) \o t)[i] = IF i <= Len(s) - 1 THEN Tail(s)[i] ELSE t[i - (Len(s) - 1)]
  BY <1>1, ConcatProperties
<1>6. ASSUME NEW i \in 1..(Len(s) + Len(t) - 1) PROVE Tail(s \o t)[i] = (Tail(s) \o t)[i]
  <2>1. i + 1 \in 1..(Len(s) + Len(t)) /\ i \in 1..(Len(s) - 1 + Len(t)) /\ i \in Nat
    BY <1>1
  <2>2. CASE i <= Len(s) - 1
    <3>1. i + 1 <= Len(s) /\ i \in 1..(Len(s) - 1)
      BY <1>1, <2>1, <2>2
    <3> QED BY <1>1, <1>2, <1>4, <1>5, <2>1, <2>2, <3>1
  <2>3. CASE ~(i <= Len(s) - 1)
    <3>1. ~(i + 1 <= Len(s)) /\ (i + 1) - Len(s) = i - (Len(s) - 1)
      BY <1>1, <2>1, <2>3
    <3> QED BY <1>2, <1>4, <1>5, <2>1, <2>3, <3>1
  <2> QED BY <2>2, <2>3
<1>7. Len(Tail(s \o t)) = Len(Tail(s) \o t)
  BY <1>1, <1>4, <1>5
<1>8. Tail(s \o t) = Tail(s) \o t
  BY <1>1, <1>4, <1>5, <1>6, <1>7, SeqEqual
<1> QED BY <1>1, <1>3, <1>8

\* Appending to the second queue appends to both.
LEMMA ConcatAppend ==
    ASSUME NEW S, NEW s \in Seq(S), NEW t \in Seq(S), NEW x \in S
    PROVE  s \o Append(t, x) = Append(s \o t, x)
<1>1. <<x>> \in Seq(S) /\ s \o t \in Seq(S)
  BY ConcatProperties
<1>2. Append(t, x) = t \o <<x>> /\ Append(s \o t, x) = (s \o t) \o <<x>>
  BY <1>1, AppendIsConcat
<1> QED BY <1>1, <1>2, ConcatAssociative

\* Moving a request from the channel to the queue of the actor changes nothing.
LEMMA ConcatMove ==
    ASSUME NEW S, NEW s \in Seq(S), NEW t \in Seq(S), t # <<>>
    PROVE  Append(s, Head(t)) \o Tail(t) = s \o t
<1>1. Head(t) \in S /\ Tail(t) \in Seq(S) /\ <<Head(t)>> \in Seq(S)
  BY ElementsTail
<1>2. Append(s, Head(t)) = s \o <<Head(t)>>
  BY <1>1, AppendIsConcat
<1>3. (s \o <<Head(t)>>) \o Tail(t) = s \o (<<Head(t)>> \o Tail(t))
  BY <1>1, ConcatAssociative
<1>4. <<Head(t)>> \o Tail(t) = t
  BY <1>1, HeadTailProperties, ConcatProperties, SeqEqual
<1> QED BY <1>2, <1>3, <1>4

\* A reply settles the tickets it is for.
LEMMA ReplySettles ==
    ASSUME NEW tickets, tickets \subseteq Tickets, NEW what, what.is # "none", ReplyAll(tickets, what)
    PROVE  Settled' = Settled \cup tickets
<1>1. \A t \in Tickets : answer'[t].is # "none" <=> (answer[t].is # "none" \/ t \in tickets)
  BY DEF ReplyAll
<1> QED BY <1>1 DEF Settled

-----------------------------------------------------------------------------
(***************************************************************************)
(* Every step of the connection is a step of SerialCalls or changes        *)
(* nothing that SerialCalls sees.                                          *)
(***************************************************************************)
Stutter == UNCHANGED <<Queue, Current, Settled, Halted>>

\* What SerialCalls sees is typed.
LEMMA MappingType ==
    ASSUME TypeOK
    PROVE  /\ requests \in Seq(Tickets) /\ chan \in Seq(Tickets) /\ Queue \in Seq(Tickets)
           /\ Elements(Queue) = Elements(requests) \cup Elements(chan)
           /\ Elements(Queue) \subseteq Tickets /\ None \notin Tickets
           /\ pending \in Tickets \cup {None} /\ farewell \in Tickets \cup {None}
<1>1. requests \in Seq(Tickets) /\ chan \in Seq(Tickets)
  BY DEF TypeOK
<1>2. Queue \in Seq(Tickets) /\ Elements(Queue) = Elements(requests) \cup Elements(chan)
  BY <1>1, ElementsConcat DEF Queue
<1> QED BY <1>1, <1>2, ElementsType, UnderwayType DEF TypeOK

\* A step that SerialCalls does not see.
LEMMA StutterStep == Stutter => [Serial!Next]_(Serial!vars)
  BY DEF Stutter, Queue, Current, Settled, Halted, Serial!vars, None

\* A step that touches neither queues, actor nor replies is such a step.
LEMMA Untouched ==
    ASSUME UNCHANGED <<requests, chan, actor, pending, farewell>>, Settled' = Settled
    PROVE  Stutter
  BY DEF Stutter, Queue, Current, Halted

\* A caller submits a request that is nowhere yet, gives one up, or is not seen.
LEMMA ClientImplements ==
    ASSUME Inv, NEW c \in Callers, ClientStep(c)
    PROVE  [Serial!Next]_(Serial!vars)
<1>t. TypeOK /\ answer \in [Tickets -> Answer]
  BY DEF Inv, TypeOK
<1>a. UNCHANGED <<actor, requests, pending, farewell>>
  BY ClientTouches DEF actorVars
<1>1. ASSUME UNCHANGED <<answer, chan>> PROVE Stutter
  BY <1>1, <1>a, Untouched DEF Settled
<1>2. CASE Submit(c)
  <2> DEFINE t == call[c].ticket
  <2>1. t \in Tickets /\ t # None
    BY <1>2, <1>t, TicketFacts, MappingType DEF Submit, Calling
  <2>2. Future(t)
    <3>1. Calling(c) /\ t <= Last(c) /\ t \in Nat /\ pc[c] = "submit"
      BY <1>2, TicketFacts DEF Submit, Calling
    <3> QED BY <3>1 DEF Future, Awaits
  <2>3. answer[t].is = "none" /\ t \notin Held
    BY <2>1, <2>2 DEF Inv, FutureFree
  <2>4. t \notin Settled /\ t \notin Elements(Queue) /\ t # Current
    BY <2>1, <2>3, <1>t, MappingType DEF Settled, Held, Current
  <2>5. Queue' = Append(Queue, t)
    BY <1>2, <1>a, <1>t, <2>1, MappingType, ConcatAppend DEF Submit, Queue
  <2>6. UNCHANGED <<Current, Settled, Halted>>
    BY <1>2, <1>a DEF Submit, Current, Settled, Halted
  <2>7. Serial!Submit(t)
    BY <2>4, <2>5, <2>6 DEF Serial!Submit, Serial!Members, Queue, Current, Settled, Halted, Elements, None
  <2> QED BY <2>1, <2>7 DEF Serial!Next
<1>3. CASE Resume(c)
  <2>1. call[c].ticket \in Tickets /\ answer[call[c].ticket].is # "none" /\ HangUp(call[c].ticket)
    BY <1>3, TicketFacts DEF Resume, Calling
  <2>2. Settled' = Settled
    BY <1>t, <2>1 DEF HangUp, Outcome, Settled
  <2>3. Stutter
    BY <1>3, <1>a, <2>2, Untouched DEF Resume
  <2> QED BY <2>3, StutterStep
<1>4. CASE Cancel(c)
  <2>1. PICK t \in Tickets : HangUp(t) /\ UNCHANGED chan
    BY <1>4, TicketFacts DEF Cancel, Calling
  <2>2. Settled' = Settled \cup {t}
    BY <1>t, <2>1 DEF HangUp, Outcome, Settled
  <2>3. UNCHANGED <<Queue, Current, Halted>>
    BY <1>a, <2>1 DEF Queue, Current, Halted
  <2>4. Serial!GiveUp(t)
    BY <2>2, <2>3 DEF Serial!GiveUp, Queue, Current, Settled, Halted, None
  <2> QED BY <2>4 DEF Serial!Next
<1>5. CASE SubmitRefused(c)
  BY <1>5, <1>1, StutterStep DEF SubmitRefused
<1>6. ASSUME NEW op, NEW request, Begin(c, op, request) PROVE Stutter
  BY <1>6, <1>1 DEF Begin
<1>7. CASE (\E request \in Sends : Send(c, request)) \/ Shutdown(c) \/ ShutdownAndReboot(c)
  BY <1>6, <1>7, StutterStep DEF Send, Shutdown, ShutdownAndReboot
<1> QED BY <1>2, <1>3, <1>4, <1>5, <1>7 DEF ClientStep

\* Leaving the loop settles everything but the request to stop.
LEMMA StopImplements ==
    ASSUME TypeOK, actor = "run", NEW also, NEW last, NEW why, Stop(also, last, why),
           also \in Elements(requests) \cup {None}, last \in Elements(chan) \cup {None}
    PROVE  [Serial!Next]_(Serial!vars)
<1> DEFINE rest == (Elements(Queue) \cup {Current}) \ {last, None}
<1>1. Current = pending /\ ~Halted /\ Halted' /\ Current' = last /\ last \in Tickets \cup {None}
  BY MappingType DEF Stop, Current, Halted
<1>2. (Elements(requests) \cup Elements(chan) \cup {pending, also}) \ {None, last} = rest
  BY <1>1, MappingType
<1>3. rest \subseteq Tickets
  BY <1>1, MappingType
<1>4. Outcome("closed").is # "none" /\ ReplyAll(rest, Outcome("closed"))
  BY <1>2 DEF Stop, Outcome
<1>5. Settled' = Settled \cup rest
  BY <1>3, <1>4, ReplySettles
<1>6. Queue' = <<>> /\ last \in Elements(Queue) \cup {None}
  BY MappingType DEF Stop, Queue
<1>7. Serial!Stop(last)
  BY <1>1, <1>5, <1>6
     DEF Serial!Stop, Serial!Members, Serial!None, Queue, Current, Settled, Halted, Elements, None
<1> QED BY <1>1, <1>7 DEF Serial!Next, Serial!None, None

\* A request that leaves pending with its reply is finished.
LEMMA FinishImplements ==
    ASSUME TypeOK, actor = "run", pending # None, NEW what, what.is # "none", Reply(pending, what),
           pending' = None, UNCHANGED <<requests, chan, actor>>
    PROVE  [Serial!Next]_(Serial!vars)
<1>1. pending \in Tickets
  BY MappingType
<1>2. Settled' = Settled \cup {pending}
  BY <1>1, ReplySettles DEF Reply
<1>3. Serial!Finish
  BY <1>2 DEF Serial!Finish, Serial!None, Settled, None
<1> QED BY <1>3 DEF Serial!Next

\* The actor refuses or starts the head of the queue, finishes the current request,
\* stops or closes, or is not seen.
LEMMA ActorImplements ==
    ASSUME Inv, ActorStep
    PROVE  [Serial!Next]_(Serial!vars)
<1>t. TypeOK
  BY DEF Inv
<1>m. /\ requests \in Seq(Tickets) /\ chan \in Seq(Tickets)
      /\ requests # <<>> => /\ Queue # <<>> /\ Head(Queue) = Head(requests) /\ Head(requests) \in Tickets
                            /\ Tail(Queue) = Tail(requests) \o chan
                            /\ Head(requests) \in Elements(requests)
      /\ chan # <<>> => Head(chan) \in Elements(chan)
  BY <1>t, MappingType, ConcatHead, ElementsTail DEF Queue
<1>1. CASE DispatchRefuse
  <2> DEFINE t == Head(requests)
  <2>1. actor = "run" /\ pending = None /\ requests # <<>> /\ UNCHANGED <<actor, pending, chan>>
    BY <1>1 DEF DispatchRefuse, Dispatching
  <2>2. \E what \in {"inUse", "invalid"} : ReplyAll({t}, Outcome(what))
    BY <1>1 DEF DispatchRefuse, Reply
  <2>3. Settled' = Settled \cup {t}
    BY <1>m, <2>1, <2>2, ReplySettles DEF Outcome
  <2>4. Queue' = Tail(Queue) /\ Settled' = Settled \cup {Head(Queue)}
    BY <1>1, <1>m, <2>1, <2>3 DEF DispatchRefuse, Queue
  <2>5. Current = None /\ Current' = None /\ ~Halted /\ ~Halted' /\ Queue # <<>>
    BY <1>m, <2>1 DEF Current, Halted
  <2>6. Serial!Refuse
    BY <2>4, <2>5 DEF Serial!Refuse, Serial!Ready, Serial!None, Queue, Current, Settled, Halted, None
  <2> QED BY <2>6 DEF Serial!Next
<1>2. CASE DispatchWrite
  <2>1. /\ actor = "run" /\ pending = None /\ requests # <<>> /\ UNCHANGED <<actor, chan, answer>>
        /\ pending' = Head(requests) /\ requests' = Tail(requests)
    BY <1>2 DEF DispatchWrite, Dispatching
  <2>2. Queue' = Tail(Queue) /\ Current' = Head(Queue) /\ Settled' = Settled
    BY <1>m, <2>1 DEF Queue, Current, Settled
  <2>3. Current = None /\ ~Halted /\ ~Halted' /\ Queue # <<>>
    BY <1>m, <2>1 DEF Current, Halted
  <2>4. Serial!Start
    BY <2>2, <2>3 DEF Serial!Start, Serial!Ready, Serial!None, Queue, Current, Settled, Halted, None
  <2> QED BY <2>4 DEF Serial!Next
<1>3. CASE DispatchFail
  BY <1>3, <1>m, <1>t, StopImplements DEF DispatchFail, Dispatching
<1>4. CASE ReceiveSend
  <2>1. Queue' = Queue
    BY <1>4, <1>m, ConcatMove DEF ReceiveSend, Queue
  <2>2. Stutter
    BY <1>4, <2>1 DEF ReceiveSend, Stutter, Current, Settled, Halted
  <2> QED BY <2>2, StutterStep
<1>5. CASE ReceiveShutdown
  BY <1>5, <1>m, <1>t, StopImplements DEF ReceiveShutdown, Selecting
<1>6. CASE ReceiveDropped \/ StreamEnded
  BY <1>6, <1>t, StopImplements DEF ReceiveDropped, StreamEnded, Selecting
<1>7. CASE HandleFrame
  <2>1. actor = "run" /\ UNCHANGED <<requests, chan, actor, farewell>>
    BY <1>7 DEF HandleFrame, Selecting
  <2>2. CASE UNCHANGED <<answer, pending>>
    BY <2>1, <2>2, Untouched, StutterStep DEF Settled
  <2>3. ASSUME pending # None, pending' = None, NEW what, what.is # "none", Reply(pending, what)
        PROVE  [Serial!Next]_(Serial!vars)
    BY <1>t, <2>1, <2>3, FinishImplements
  <2>4. \/ UNCHANGED <<answer, pending>>
        \/ /\ pending # None /\ pending' = None
           /\ \/ Reply(pending, [is |-> "ok", of |-> Head(incoming).of])
              \/ Reply(pending, Outcome("undecodable"))
    BY <1>7 DEF HandleFrame, Confirm, Report
  <2> QED BY <2>2, <2>3, <2>4 DEF Outcome
<1>8. ASSUME NEW late \in Tickets \cup {None}, NEW over \in SUBSET SessionIds, Tick(late, over)
      PROVE  [Serial!Next]_(Serial!vars)
  <2>1. actor = "run" /\ UNCHANGED <<requests, chan, actor, farewell>>
    BY <1>8 DEF Tick, Selecting
  <2>2. CASE late = None
    BY <1>8, <2>1, <2>2, Untouched, StutterStep DEF Tick, Settled
  <2>3. CASE late # None
    <3>1. pending # None /\ pending' = None /\ Reply(pending, Outcome("timeout"))
      BY <1>8, <2>3 DEF Tick
    <3> QED BY <1>t, <2>1, <3>1, FinishImplements DEF Outcome
  <2> QED BY <2>2, <2>3
<1>9. ASSUME NEW what \in {"ok", "io"}, CloseStream(what) PROVE [Serial!Next]_(Serial!vars)
  <2>1. actor = "closing" /\ actor' = "closed" /\ requests = <<>> /\ UNCHANGED requests /\ chan' = <<>>
    BY <1>9 DEF CloseStream, Inv, Stopped
  <2>2. Queue = chan /\ Queue' = <<>>
    BY <1>m, <2>1, ConcatEmptySeq DEF Queue
  <2>3. Current = farewell /\ Current' = None /\ Halted /\ Halted'
    BY <2>1 DEF Current, Halted
  <2>4. \A t \in Tickets : answer'[t].is # "none" <=>
            (answer[t].is # "none" \/ t \in Elements(chan) \cup {farewell})
    BY <1>9 DEF CloseStream, Outcome
  <2>5. Settled' = Settled \cup ((Elements(chan) \cup {farewell}) \ {None})
    BY <1>t, <2>2, <2>4, MappingType DEF Settled
  <2>6. Serial!Close
    BY <2>2, <2>3, <2>5
       DEF Serial!Close, Serial!Members, Serial!None, Queue, Current, Settled, Halted, Elements, None
  <2> QED BY <2>6 DEF Serial!Next
<1> QED BY <1>1, <1>2, <1>3, <1>4, <1>5, <1>6, <1>7, <1>8, <1>9, ActorStep DEF ActorStep

\* The initial states of the connection are initial states of SerialCalls.
LEMMA InitImplements == Init => Serial!Init
<1> SUFFICES ASSUME Init PROVE Serial!Init
  OBVIOUS
<1>1. requests \o chan = <<>>
  BY DEF Init
<1>2. Settled = {}
  BY DEF Init, Settled, Unanswered
<1> QED BY <1>1, <1>2 DEF Serial!Init, Serial!None, Settled, Init, None

\* Every step of the connection is one of SerialCalls, or is not seen by it.
LEMMA NextImplements == Inv /\ [Next]_vars => [Serial!Next]_(Serial!vars)
<1> SUFFICES ASSUME Inv, [Next]_vars PROVE [Serial!Next]_(Serial!vars)
  OBVIOUS
<1>1. CASE GatewayStep
  <2>1. UNCHANGED <<answer, chan, requests, pending, actor, farewell>>
    BY <1>1, GatewayTouches DEF Inv, actorVars
  <2> QED BY <2>1, Untouched, StutterStep DEF Settled
<1>2. CASE DropClient \/ UNCHANGED vars
  <2>1. UNCHANGED <<answer, chan, requests, pending, actor, farewell>>
    BY <1>2 DEF DropClient, vars, actorVars
  <2> QED BY <2>1, Untouched, StutterStep DEF Settled
<1> QED BY <1>1, <1>2, ClientImplements, ActorImplements DEF Next

\* The connection actor with its callers implements SerialCalls: one queue, served in
\* order and one at a time, each request settled once and all of them by the stop.
THEOREM Implementation == Spec => ImplementsSerialCalls
  BY InitImplements, NextImplements, Invariant, PTL DEF Spec, ImplementsSerialCalls, Serial!Spec
=============================================================================
