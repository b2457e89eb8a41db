------------------------ MODULE KlfConnectionProofs ------------------------
(***************************************************************************)
(* Proofs about KlfConnection for every set of callers, of requests and of *)
(* sessions and for every bound.                                           *)
(*                                                                         *)
(* TypeOK and NoLostCall are not inductive by themselves.  The invariant   *)
(* below adds who holds the gate, which tickets each call has reserved,    *)
(* that a reserved ticket is untouched until its turn, and what is empty   *)
(* once the actor has stopped.                                             *)
(***************************************************************************)
EXTENDS KlfConnection, TLAPS

Calling(c) == pc[c] # "idle"

\* Commands that the call still has to issue after the one in hand.
Left(op, cmd) ==
    IF op = "send" \/ cmd = "close" THEN 0
    ELSE IF op = "reboot" /\ cmd = "disable" THEN 2 ELSE 1
Last(c) == call[c].ticket + Left(call[c].op, asked[call[c].ticket].cmd)

\* A caller in a call is in the queue of the gate, and one that waits holds it.
GateHolds ==
    \A c \in Callers : Calling(c) =>
        /\ c \in Elements(gate)
        /\ pc[c] = "wait" => gate[1] = c

\* Where a call is, and that its remaining tickets are reserved.
Shape(op, request) ==
    \/ op = "send"
    \/ op = "shutdown" /\ request \in {Disable, CloseCommand}
    \/ op = "reboot" /\ request \in {Disable, Reboot, CloseCommand}
CallShape ==
    \A c \in Callers : Calling(c) =>
        /\ call[c].ticket \in Tickets
        /\ Shape(call[c].op, asked[call[c].ticket])
        /\ Last(c) <= issued

\* Two calls never share a ticket.
Disjoint ==
    \A c, d \in Callers :
        (Calling(c) /\ Calling(d) /\ c # d) =>
            Last(c) < call[d].ticket \/ Last(d) < call[c].ticket

\* A ticket whose turn has not come has no answer and is nowhere in the actor.
Awaits(c, t) ==
    /\ Calling(c) /\ call[c].ticket <= t /\ t <= Last(c)
    /\ pc[c] = "wait" => call[c].ticket < t
Future(t) == t > issued \/ \E c \in Callers : Awaits(c, t)
FutureFree == \A t \in Tickets : Future(t) => answer[t].is = "none" /\ t \notin Held

\* The channel of a call in progress is not hung up.
Listening == \A c \in Callers : Calling(c) => answer[call[c].ticket].is # "gone"

\* What is empty when.
Stopped ==
    /\ actor = "run" => farewell = None
    /\ actor # "run" => requests = <<>> /\ pending = None
    /\ actor = "closed" => chan = <<>>

Inv == TypeOK /\ GateHolds /\ CallShape /\ Disjoint /\ FutureFree /\ Listening /\ Stopped /\ NoLostCall
-----------------------------------------------------------------------------
(***************************************************************************)
(* Sequences.                                                              *)
(***************************************************************************)
\* The members of a sequence are of its type.
LEMMA ElementsType ==
    ASSUME NEW S, NEW s \in Seq(S)
    PROVE  Elements(s) \subseteq S
  BY DEF Elements

\* An empty queue holds nothing.
LEMMA ElementsEmpty == Elements(<<>>) = {}
  BY DEF Elements

\* Appending adds one member to a queue.
LEMMA ElementsAppend ==
    ASSUME NEW S, NEW s \in Seq(S), NEW x \in S
    PROVE  Append(s, x) \in Seq(S) /\ Elements(Append(s, x)) = Elements(s) \cup {x}
<1>1. Append(s, x) \in Seq(S) /\ Len(Append(s, x)) = Len(s) + 1
  OBVIOUS
<1>2. \A i \in 1..Len(s) : Append(s, x)[i] = s[i]
  OBVIOUS
<1>3. Append(s, x)[Len(s) + 1] = x
  OBVIOUS
<1>4. 1..(Len(s) + 1) = (1..Len(s)) \cup {Len(s) + 1}
  BY Len(s) \in Nat
<1> QED BY <1>1, <1>2, <1>3, <1>4 DEF Elements

\* Taking the head out of a queue leaves the other members.
LEMMA ElementsTail ==
    ASSUME NEW S, NEW s \in Seq(S), s # <<>>
    PROVE  /\ Head(s) \in S /\ Head(s) = s[1] /\ Tail(s) \in Seq(S)
           /\ Elements(s) = {Head(s)} \cup Elements(Tail(s))
<1>1. Head(s) \in S /\ Head(s) = s[1] /\ Tail(s) \in Seq(S) /\ Len(Tail(s)) = Len(s) - 1
  OBVIOUS
<1>2. Len(s) \in Nat /\ Len(s) >= 1
  OBVIOUS
<1>3. \A i \in 1..(Len(s) - 1) : Tail(s)[i] = s[i + 1]
  OBVIOUS
<1>4. ASSUME NEW i \in 1..Len(s) PROVE s[i] \in {Head(s)} \cup Elements(Tail(s))
  <2>1. CASE i = 1
    BY <2>1, <1>1
  <2>2. CASE i # 1
    <3>1. i - 1 \in 1..(Len(s) - 1) /\ (i - 1) + 1 = i
      BY <2>2, <1>2
    <3>2. Tail(s)[i - 1] = s[i]
      BY <3>1, <1>3
    <3> QED BY <3>1, <3>2, <1>1 DEF Elements
  <2> QED BY <2>1, <2>2
<1>5. ASSUME NEW i \in 1..Len(Tail(s)) PROVE Tail(s)[i] \in Elements(s)
  <2>1. i + 1 \in 1..Len(s) /\ Tail(s)[i] = s[i + 1]
    BY <1>1, <1>2, <1>3
  <2> QED BY <2>1 DEF Elements
<1>6. s[1] \in Elements(s)
  BY <1>2 DEF Elements
<1> QED BY <1>1, <1>4, <1>5, <1>6 DEF Elements

\* Taking one place out of a queue keeps the others, and the first unless it is the one.
LEMMA RemoveAtKeeps ==
    ASSUME NEW S, NEW s \in Seq(S), NEW i \in 1..Len(s)
    PROVE  /\ RemoveAt(s, i) \in Seq(S)
           /\ \A x \in Elements(s) : x # s[i] => x \in Elements(RemoveAt(s, i))
           /\ (Len(s) > 1 /\ i # 1) => RemoveAt(s, i)[1] = s[1]
<1> DEFINE r == RemoveAt(s, i)
<1>1. Len(s) \in Nat /\ Len(s) >= 1 /\ Len(s) - 1 \in Nat
  OBVIOUS
<1>2. \A j \in 1..(Len(s) - 1) : (IF j < i THEN s[j] ELSE s[j + 1]) \in S
  BY <1>1
<1>3. r \in Seq(S) /\ Len(r) = Len(s) - 1
  BY <1>1, <1>2 DEF RemoveAt
<1>4. ASSUME NEW k \in 1..Len(s), s[k] # s[i] PROVE s[k] \in Elements(r)
  <2>1. CASE k < i
    <3>1. k \in 1..(Len(s) - 1) /\ r[k] = s[k]
      BY <2>1, <1>1 DEF RemoveAt
    <3> QED BY <3>1, <1>3 DEF Elements
  <2>2. CASE ~(k < i)
    <3>1. k - 1 \in 1..(Len(s) - 1) /\ ~(k - 1 < i) /\ (k - 1) + 1 = k
      BY <2>2, <1>1, <1>4
    <3>2. r[k - 1] = s[k]
      BY <3>1 DEF RemoveAt
    <3> QED BY <3>1, <3>2, <1>3 DEF Elements
  <2> QED BY <2>1, <2>2
<1>5. ASSUME Len(s) > 1, i # 1 PROVE r[1] = s[1]
  BY <1>5, <1>1 DEF RemoveAt
<1> QED BY <1>3, <1>4, <1>5 DEF Elements

-----------------------------------------------------------------------------
(***************************************************************************)
(* Types.                                                                  *)
(***************************************************************************)
\* The initial state is well typed.
LEMMA TypeInit == Init => TypeOK
<1> SUFFICES ASSUME Init PROVE TypeOK
  OBVIOUS
<1> USE BoundsAssumption DEF Init
<1>1. gate \in Seq(Callers) /\ chan \in Seq(Tickets) /\ requests \in Seq(Tickets)
        /\ incoming \in Seq(Frame) /\ toGateway \in Seq(Tickets)
  OBVIOUS
<1>2. pc \in [Callers -> {"idle", "submit", "wait"}]
  OBVIOUS
<1>3. call \in [Callers -> Call] /\ result \in [Callers -> Results]
  BY DEF Call, NoCall, Results
<1>4. asked \in [Tickets -> Request \cup {NoRequest, CloseCommand}]
  OBVIOUS
<1>5. answer \in [Tickets -> Answer]
  BY DEF Answer, Unanswered
<1>6. /\ issued \in 0..MaxRequests /\ pending \in Tickets \cup {None}
      /\ farewell \in Tickets \cup {None} /\ sessions \in SUBSET SessionIds
      /\ published \in SUBSET Event /\ handles \in {"held", "dropped"}
      /\ reason \in {"none", "lost"} /\ actor \in {"run", "closing", "closed"}
  OBVIOUS
<1>7. gateway \in [link : {"up", "down"}, monitor : {"on", "off"},
                   sessions : SUBSET SessionIds, noise : 0..MaxNoise]
  OBVIOUS
<1> QED BY <1>1, <1>2, <1>3, <1>4, <1>5, <1>6, <1>7 DEF TypeOK

\* What the outcomes and replies of the code are.
LEMMA OutcomeType ==
    \A what \in Failures \cup {"none", "ok", "gone"} : Outcome(what) \in Answer
  BY DEF Outcome, Answer

\* A reply keeps the type of the oneshot channels.
LEMMA ReplyType ==
    ASSUME TypeOK, NEW tickets, NEW what \in Answer, ReplyAll(tickets, what)
    PROVE  answer' \in [Tickets -> Answer]
  BY DEF TypeOK, ReplyAll

\* Every event the actor publishes is an Event.
LEMMA EventType ==
    ASSUME NEW kind \in {"notification", "unexpected", "finished", "timedOut",
                         "protocolError", "disconnected"},
           NEW s \in SessionIds \cup {NoSession}
    PROVE  Happened(kind, s) \in SUBSET Event
  BY DEF Happened, Event

\* What is asked with a ticket is a request, nothing yet, or the closing command.
LEMMA AskedType ==
    ASSUME TypeOK, NEW t \in Tickets
    PROVE  /\ asked[t].session \in SessionIds \cup {NoSession}
           /\ asked[t].cmd \in SessionCommands => asked[t].session \in SessionIds
<1>1. asked[t] \in Request \cup {NoRequest, CloseCommand}
  BY DEF TypeOK
<1> QED BY <1>1 DEF Request, NoRequest, CloseCommand, SessionCommands, PlainCommands

\* Beginning a call keeps the types.
LEMMA TypeBegin ==
    ASSUME TypeOK, NEW c \in Callers, NEW op \in {"send", "shutdown", "reboot"},
           NEW request \in Request, Begin(c, op, request)
    PROVE  TypeOK'
<1> USE BoundsAssumption DEF TypeOK, Begin, actorVars, wireVars
<1>1. TicketsOf(op) \in Nat /\ TicketsOf(op) >= 1
  BY DEF TicketsOf
<1>2. issued' \in 0..MaxRequests /\ issued + 1 \in Tickets
  BY <1>1 DEF Tickets
<1>3. call'[c] \in Call
  BY <1>2 DEF Call, Results
<1>4. call' \in [Callers -> Call] /\ result' \in [Callers -> Results]
  BY <1>3 DEF Results
<1>5. asked' \in [Tickets -> Request \cup {NoRequest, CloseCommand}]
  OBVIOUS
<1>6. gate' \in Seq(Callers) /\ pc' \in [Callers -> {"idle", "submit", "wait"}]
  OBVIOUS
<1> QED BY <1>2, <1>4, <1>5, <1>6

\* Leaving the loop of run_actor keeps the types.
LEMMA TypeStop ==
    ASSUME TypeOK, NEW also, NEW t \in Tickets \cup {None}, NEW why \in {"none", "lost"},
           Stop(also, t, why)
    PROVE  TypeOK'
<1> USE DEF TypeOK, Stop, clientVars
<1>1. answer' \in [Tickets -> Answer]
  BY OutcomeType, ReplyType DEF Failures
<1> QED BY <1>1

\* What a step of the caller c hands on when its request has the outcome `what`.
LEMMA TypeContinue ==
    ASSUME TypeOK, NEW c \in Callers, NEW what \in Results, Continue(c, what),
           call[c].ticket \in Tickets, gate # <<>>,
           call[c].op # "send" /\ asked[call[c].ticket].cmd # "close"
               => call[c].ticket + 1 \in Tickets
    PROVE  /\ gate' \in Seq(Callers) /\ pc' \in [Callers -> {"idle", "submit", "wait"}]
           /\ call' \in [Callers -> Call] /\ result' \in [Callers -> Results]
           /\ asked' \in [Tickets -> Request \cup {NoRequest, CloseCommand}]
<1> USE DEF TypeOK
<1>0. /\ call[c] \in Call /\ NoCall \in Call
      /\ Disable \in Request /\ Reboot \in Request
  BY DEF Call, NoCall, Results, Disable, Reboot, Request, PlainCommands
<1>1. CASE ReturnSend(c)
  <2>1. Tail(gate) \in Seq(Callers)
    OBVIOUS
  <2> QED BY <1>1, <1>0, <2>1 DEF ReturnSend
<1>2. ASSUME NEW outcome \in Results, ReturnShutdown(c, outcome)
      PROVE  /\ gate' \in Seq(Callers) /\ pc' \in [Callers -> {"idle", "submit", "wait"}]
             /\ call' \in [Callers -> Call] /\ result' \in [Callers -> Results]
             /\ asked' \in [Tickets -> Request \cup {NoRequest, CloseCommand}]
  <2>1. Tail(gate) \in Seq(Callers)
    OBVIOUS
  <2> QED BY <1>2, <2>1 DEF ReturnShutdown
<1>3. ASSUME NEW noted \in Call, NEW request \in Request \cup {CloseCommand},
             NextCommand(c, noted, request), call[c].ticket + 1 \in Tickets
      PROVE  /\ gate' \in Seq(Callers) /\ pc' \in [Callers -> {"idle", "submit", "wait"}]
             /\ call' \in [Callers -> Call] /\ result' \in [Callers -> Results]
             /\ asked' \in [Tickets -> Request \cup {NoRequest, CloseCommand}]
  <2>1. [noted EXCEPT !.ticket = call[c].ticket + 1] \in Call
    BY <1>3 DEF Call
  <2> QED BY <1>3, <2>1 DEF NextCommand
<1>4. [call[c] EXCEPT !.monitor = what] \in Call /\ [call[c] EXCEPT !.reboot = what] \in Call
  BY <1>0 DEF Call
<1>5. call[c].reboot \in Results /\ call[c].monitor \in Results
  BY <1>0 DEF Call
<1> QED BY <1>0, <1>1, <1>2, <1>3, <1>4, <1>5 DEF Continue

\* A caller in a call queues at the gate, so the gate is not empty, and what its
\* next command needs is reserved.
LEMMA CallerFacts ==
    ASSUME Inv, NEW c \in Callers, Calling(c)
    PROVE  /\ gate # <<>> /\ call[c].ticket \in Tickets
           /\ call[c].op # "send" /\ asked[call[c].ticket].cmd # "close"
                  => call[c].ticket + 1 \in Tickets
           /\ answer[call[c].ticket].is \in Failures \cup {"none", "ok"}
<1>1. c \in Elements(gate) /\ gate \in Seq(Callers)
  BY DEF Inv, GateHolds, TypeOK
<1>2. gate # <<>>
  BY <1>1, ElementsEmpty
<1>3. call[c].ticket \in Tickets /\ Last(c) <= issued /\ issued \in 0..MaxRequests
  BY DEF Inv, CallShape, TypeOK
<1>4. call[c].op # "send" /\ asked[call[c].ticket].cmd # "close"
          => call[c].ticket + 1 \in Tickets
  BY <1>3, BoundsAssumption DEF Last, Left, Tickets
<1>5. answer[call[c].ticket] \in Answer /\ answer[call[c].ticket].is # "gone"
  BY <1>3 DEF Inv, TypeOK, Listening
<1> QED BY <1>2, <1>3, <1>4, <1>5 DEF Answer

\* The steps of a caller keep the types.
LEMMA TypeClient ==
    ASSUME Inv, NEW c \in Callers, ClientStep(c)
    PROVE  TypeOK'
<1>t. TypeOK
  BY DEF Inv
<1>0. Disable \in Request
  BY DEF Disable, Request, PlainCommands
<1>1. ASSUME NEW request \in Sends, Send(c, request) PROVE TypeOK'
  BY <1>1, <1>t, TypeBegin, SendsAssumption DEF Send
<1>2. CASE Shutdown(c)
  BY <1>2, <1>0, <1>t, TypeBegin DEF Shutdown
<1>3. CASE ShutdownAndReboot(c)
  BY <1>3, <1>0, <1>t, TypeBegin DEF ShutdownAndReboot
<1>4. CASE Submit(c)
  <2>1. call[c].ticket \in Tickets
    BY <1>4, CallerFacts DEF Submit, Calling
  <2>2. Append(chan, call[c].ticket) \in Seq(Tickets)
    BY <2>1, <1>t DEF TypeOK
  <2> QED BY <1>4, <1>t, <2>2 DEF Submit, TypeOK, actorVars, wireVars
<1>5. CASE SubmitRefused(c)
  <2> DEFINE Typed == /\ gate' \in Seq(Callers) /\ pc' \in [Callers -> {"idle", "submit", "wait"}]
                      /\ call' \in [Callers -> Call] /\ result' \in [Callers -> Results]
                      /\ asked' \in [Tickets -> Request \cup {NoRequest, CloseCommand}]
  <2>1. Calling(c)
    BY <1>5 DEF SubmitRefused, Calling
  <2>2. ASSUME NEW what \in Results, Continue(c, what) PROVE Typed
    BY <2>1, <2>2, <1>t, CallerFacts, TypeContinue
  <2>3. ASSUME NEW what \in Results, ReturnShutdown(c, what) PROVE Typed
    <3>1. Tail(gate) \in Seq(Callers)
      BY <2>1, CallerFacts, <1>t DEF TypeOK
    <3> QED BY <2>3, <3>1, <1>t DEF ReturnShutdown, TypeOK
  <2>4. /\ FirstFailure(call[c].reboot, call[c].monitor, "clientClosed") \in Results
        /\ "closed" \in Results
    BY <1>t DEF FirstFailure, TypeOK, Call, Results, Failures
  <2>5. Typed
    BY <1>5, <2>2, <2>3, <2>4 DEF SubmitRefused
  <2> QED BY <1>5, <1>t, <2>5 DEF SubmitRefused, TypeOK, actorVars, wireVars
<1>6. CASE Resume(c)
  <2>1. Calling(c)
    BY <1>6 DEF Resume, Calling
  <2>2. answer[call[c].ticket].is \in Results
    BY <2>1, CallerFacts DEF Results
  <2>3. answer' \in [Tickets -> Answer]
    <3>1. Outcome("gone") \in Answer
      BY OutcomeType
    <3> QED BY <3>1, <1>6, <1>t DEF Resume, HangUp, TypeOK
  <2> QED BY <1>6, <1>t, <2>1, <2>2, <2>3, CallerFacts, TypeContinue
          DEF Resume, TypeOK, actorVars, wireVars
<1>7. CASE Cancel(c)
  <2>1. gate' \in Seq(Callers)
    BY <1>7, <1>t, RemoveAtKeeps DEF Cancel, TypeOK
  <2>2. Outcome("gone") \in Answer /\ NoCall \in Call
    BY OutcomeType DEF NoCall, Call, Results
  <2> QED BY <1>7, <1>t, <2>1, <2>2 DEF Cancel, HangUp, TypeOK, actorVars, wireVars
<1> QED BY <1>1, <1>2, <1>3, <1>4, <1>5, <1>6, <1>7 DEF ClientStep

\* The first ticket of a queue is a ticket.
LEMMA HeadType ==
    ASSUME NEW s \in Seq(Tickets), s # <<>>
    PROVE  Head(s) \in Tickets /\ Tail(s) \in Seq(Tickets)
  BY ElementsTail

\* handle_frame keeps the types of what it changes.
LEMMA TypeFrame ==
    ASSUME TypeOK, Selecting, incoming # <<>>, HandleFrame
    PROVE  TypeOK'
<1> USE DEF TypeOK
<1>0. Head(incoming) \in Frame /\ Tail(incoming) \in Seq(Frame)
  OBVIOUS
<1> DEFINE frame == Head(incoming)
<1>1. /\ frame.kind = "confirmation" => frame.of \in Tickets
      /\ frame.session \in SessionIds \cup {NoSession}
  BY <1>0 DEF Frame
<1> DEFINE Typed == /\ answer' \in [Tickets -> Answer] /\ pending' \in Tickets \cup {None}
                    /\ sessions' \in SUBSET SessionIds /\ published' \in SUBSET Event
<1>2. ASSUME Confirm(frame) PROVE Typed
  <2>1. pending \in Tickets /\ frame.of \in Tickets
    BY <1>1, <1>2 DEF Confirm
  <2>2. /\ asked[frame.of].session \in SessionIds \cup {NoSession}
        /\ asked[pending].session \in SessionIds \cup {NoSession}
    BY <2>1, AskedType
  <2>3. /\ [is |-> "ok", of |-> frame.of] \in Answer /\ Outcome("undecodable") \in Answer
        /\ SessionsAfter(asked[pending].session, frame.status) \in SUBSET SessionIds
        /\ Happened("unexpected", asked[frame.of].session) \in SUBSET Event
    BY <2>1, <2>2, OutcomeType, EventType DEF Answer, SessionsAfter, Failures
  <2> QED BY <1>2, <2>3, ReplyType DEF Confirm, Reply
<1>3. ASSUME Report(frame) PROVE Typed
  <2>1. Happened("finished", frame.session) \in SUBSET Event
    BY <1>1, EventType
  <2>2. Happened("notification", NoSession) \in SUBSET Event
    BY EventType
  <2>3. Happened("protocolError", NoSession) \in SUBSET Event
    BY EventType
  <2>4. frame.kind = "confirmation" =>
            Happened("unexpected", asked[frame.of].session) \in SUBSET Event
    BY <1>1, AskedType, EventType
  <2> QED BY <1>3, <2>1, <2>2, <2>3, <2>4 DEF Report
<1>4. Typed
  BY <1>2, <1>3 DEF HandleFrame
<1> QED BY <1>0, <1>4 DEF HandleFrame, clientVars

\* A timeout tick keeps the types.
LEMMA TypeTick ==
    ASSUME TypeOK, NEW late \in Tickets \cup {None}, NEW over \in SUBSET SessionIds,
           Tick(late, over)
    PROVE  TypeOK'
<1> USE DEF TypeOK
<1>1. answer' \in [Tickets -> Answer]
  BY OutcomeType, ReplyType DEF Tick, Reply, Failures
<1>2. published' \in SUBSET Event
  BY EventType DEF Tick
<1> QED BY <1>1, <1>2 DEF Tick, clientVars, wireVars

\* The steps of the actor keep the types.
LEMMA TypeActor ==
    ASSUME TypeOK, ActorStep
    PROVE  TypeOK'
<1> USE DEF TypeOK
<1>r. requests # <<>> => Head(requests) \in Tickets /\ Tail(requests) \in Seq(Tickets)
  BY HeadType
<1>c. chan # <<>> => Head(chan) \in Tickets /\ Tail(chan) \in Seq(Tickets)
  BY HeadType
<1>1. CASE DispatchRefuse
  <2>1. answer' \in [Tickets -> Answer]
    BY <1>1, OutcomeType, ReplyType DEF DispatchRefuse, Reply, Failures
  <2> QED BY <1>1, <1>r, <2>1 DEF DispatchRefuse, Dispatching, clientVars, wireVars
<1>2. CASE DispatchWrite
  <2>1. toGateway' \in Seq(Tickets)
    BY <1>2, <1>r DEF DispatchWrite, Dispatching
  <2> QED BY <1>2, <1>r, <2>1 DEF DispatchWrite, Dispatching, clientVars
<1>3. CASE DispatchFail
  BY <1>3, TypeStop DEF DispatchFail
<1>4. CASE ReceiveSend
  <2>1. Append(requests, Head(chan)) \in Seq(Tickets)
    BY <1>4, <1>c DEF ReceiveSend
  <2> QED BY <1>4, <1>c, <2>1 DEF ReceiveSend, clientVars, wireVars
<1>5. CASE ReceiveShutdown
  BY <1>5, <1>c, TypeStop DEF ReceiveShutdown
<1>6. CASE ReceiveDropped
  BY <1>6, TypeStop DEF ReceiveDropped
<1>7. CASE HandleFrame
  BY <1>7, TypeFrame DEF HandleFrame
<1>8. CASE StreamEnded
  BY <1>8, TypeStop DEF StreamEnded
<1>9. ASSUME NEW late \in Tickets \cup {None}, NEW over \in SUBSET SessionIds, Tick(late, over)
      PROVE  TypeOK'
  BY <1>9, TypeTick
<1>10. ASSUME NEW what \in {"ok", "io"}, CloseStream(what) PROVE TypeOK'
  <2>1. Outcome(what) \in Answer /\ Outcome("closed") \in Answer
    BY OutcomeType DEF Failures
  <2>2. Happened("disconnected", NoSession) \in SUBSET Event
    BY EventType
  <2>3. answer' \in [Tickets -> Answer]
    BY <1>10, <2>1 DEF CloseStream
  <2> QED BY <1>10, <2>2, <2>3 DEF CloseStream, clientVars, wireVars
<1> QED BY <1>1, <1>2, <1>3, <1>4, <1>5, <1>6, <1>7, <1>8, <1>9, <1>10, ActorStep DEF ActorStep

\* The steps of the gateway keep the types.
LEMMA TypeGateway ==
    ASSUME TypeOK, GatewayStep
    PROVE  TypeOK'
<1> USE BoundsAssumption DEF TypeOK
<1> DEFINE Peer == [link : {"up", "down"}, monitor : {"on", "off"},
                    sessions : SUBSET SessionIds, noise : 0..MaxNoise]
<1>d. ASSUME NEW f \in Frame, Deliver(f) PROVE incoming' \in Seq(Frame)
  BY <1>d DEF Deliver
<1>1. ASSUME NEW done \in BOOLEAN, NEW reply, GatewayReads(done, reply) PROVE TypeOK'
  <2> DEFINE t == Head(toGateway)
             after == IF done THEN Carried(t) ELSE gateway
  <2>1. t \in Tickets /\ Tail(toGateway) \in Seq(Tickets)
    BY <1>1, HeadType DEF GatewayReads
  <2>2. Carried(t) \in Peer
    BY <2>1, AskedType, ZenonT(60) DEF Carried
  <2>3. after \in Peer
    BY <2>2
  <2>4. gateway.noise > 0 => [after EXCEPT !.noise = after.noise - 1] \in Peer
    <3>1. gateway \in Peer /\ Carried(t).noise = gateway.noise
      BY DEF Carried
    <3>2. after.noise = gateway.noise
      BY <3>1
    <3>3. gateway.noise > 0 => after.noise - 1 \in 0..MaxNoise
      BY <3>1, <3>2
    <3> QED BY <2>3, <3>3
  <2>5. /\ Confirmation(t, "accepted") \in Frame /\ Confirmation(t, "rejected") \in Frame
        /\ Confirmation(t, "undecodable") \in Frame
    BY <2>1 DEF Confirmation, Frame
  <2>6. gateway' \in Peer /\ incoming' \in Seq(Frame)
    BY <1>1, <1>d, <2>3, <2>4, <2>5 DEF GatewayReads
  <2> QED BY <1>1, <2>1, <2>6 DEF GatewayReads, clientVars, actorVars
<1>2. ASSUME NEW s \in SessionIds, GatewayFinishes(s) PROVE TypeOK'
  <2>1. [kind |-> "finished", of |-> None, session |-> s, status |-> "accepted"] \in Frame
    BY DEF Frame
  <2> QED BY <1>2, <1>d, <2>1 DEF GatewayFinishes, clientVars, actorVars
<1>3. ASSUME NEW kind \in {"notification", "malformed"}, GatewayNoise(kind) PROVE TypeOK'
  <2>1. [kind |-> kind, of |-> None, session |-> NoSession, status |-> "accepted"] \in Frame
    BY DEF Frame
  <2>2. gateway.noise - 1 \in 0..MaxNoise
    BY <1>3 DEF GatewayNoise
  <2>3. gateway' \in Peer
    BY <1>3, <2>2 DEF GatewayNoise
  <2> QED BY <1>3, <1>d, <2>1, <2>3 DEF GatewayNoise, clientVars, actorVars
<1>4. CASE LinkLost
  <2>1. [kind |-> "closed", of |-> None, session |-> NoSession, status |-> "accepted"] \in Frame
    BY DEF Frame
  <2>2. gateway' \in Peer
    BY <1>4 DEF LinkLost
  <2>3. toGateway' \in Seq(Tickets)
    BY <1>4 DEF LinkLost
  <2> QED BY <1>4, <1>d, <2>1, <2>2, <2>3 DEF LinkLost, clientVars, actorVars
<1> QED BY <1>1, <1>2, <1>3, <1>4 DEF GatewayStep

-----------------------------------------------------------------------------
(***************************************************************************)
(* The other conjuncts, for steps of the actor and of the gateway.  What   *)
(* such a step does to the reply channels is one fact: it leaves the calls *)
(* alone, it answers only tickets that it holds and that have no answer,   *)
(* it acquires no ticket, and a ticket it no longer holds has its answer.  *)
(***************************************************************************)
Serves ==
    /\ UNCHANGED clientVars
    /\ \A t \in Tickets : t \in Held' => t \in Held
    /\ \A t \in Tickets :
           \/ answer'[t] = answer[t]
           \/ answer[t].is = "none" /\ t \in Held /\ answer'[t].is \notin {"none", "gone"}
    /\ \A t \in Tickets :
           (t \in Held /\ actor # "closed") =>
               answer'[t].is # "none" \/ (t \in Held' /\ actor' # "closed")

\* A step that serves tickets keeps the facts about calls, gate and tickets.
LEMMA ServesKeeps ==
    ASSUME Inv, Serves
    PROVE  GateHolds' /\ CallShape' /\ Disjoint' /\ FutureFree' /\ Listening'
<1> USE DEF Inv, Serves, clientVars
<1>1. GateHolds'
  BY DEF GateHolds, Calling
<1>2. CallShape'
  BY DEF CallShape, Calling, Last
<1>3. Disjoint'
  BY DEF Disjoint, Calling, Last
<1>4. ASSUME NEW t \in Tickets, Future(t)' PROVE (answer[t].is = "none" /\ t \notin Held)'
  <2>1. Future(t)
    BY <1>4 DEF Future, Awaits, Calling, Last
  <2>2. answer[t].is = "none" /\ t \notin Held
    BY <2>1 DEF FutureFree
  <2> QED BY <2>2
<1>5. FutureFree'
  BY <1>4 DEF FutureFree
<1>6. Listening'
  <2> SUFFICES ASSUME NEW c \in Callers, Calling(c)' PROVE (answer[call[c].ticket].is # "gone")'
    BY DEF Listening
  <2>1. Calling(c) /\ call[c].ticket \in Tickets
    BY DEF Calling, CallShape
  <2> QED BY <2>1 DEF Listening
<1> QED BY <1>1, <1>2, <1>3, <1>5, <1>6

\* A step that serves tickets leaves no caller waiting for nothing.
LEMMA ServesLosesNoCall ==
    ASSUME Inv, Serves
    PROVE  NoLostCall'
<1> SUFFICES ASSUME NEW c \in Callers, (pc[c] = "wait")'
             PROVE  (\/ answer[call[c].ticket].is # "none"
                     \/ call[c].ticket \in Held /\ actor # "closed")'
  BY DEF NoLostCall
<1> DEFINE t == call[c].ticket
<1>1. pc[c] = "wait" /\ t \in Tickets /\ t = t'
  BY DEF Serves, clientVars, Inv, CallShape, Calling
<1>2. answer[t].is # "none" \/ (t \in Held /\ actor # "closed")
  BY <1>1 DEF Inv, NoLostCall
<1>3. CASE answer[t].is # "none"
  BY <1>1, <1>3 DEF Serves
<1>4. CASE t \in Held /\ actor # "closed"
  BY <1>1, <1>4 DEF Serves
<1> QED BY <1>2, <1>3, <1>4

\* The first of a queue leaves it, the last joins it.
LEMMA QueueFacts ==
    ASSUME TypeOK
    PROVE  /\ requests # <<>> => Elements(requests) = {Head(requests)} \cup Elements(Tail(requests))
           /\ chan # <<>> => /\ Elements(chan) = {Head(chan)} \cup Elements(Tail(chan))
                             /\ Elements(Append(requests, Head(chan)))
                                    = Elements(requests) \cup {Head(chan)}
  BY ElementsTail, ElementsAppend DEF TypeOK

\* Leaving the loop answers every ticket that leaves the hands of the actor.
LEMMA StopServes ==
    ASSUME Inv, actor = "run", NEW also, NEW t, NEW why, Stop(also, t, why),
           also \in Elements(requests) \cup {None}, t \in Elements(chan) \cup {None}
    PROVE  Serves /\ Stopped'
<1>1. answer \in [Tickets -> Answer] /\ None \notin Tickets
  BY DEF Inv, TypeOK, Tickets, None
<1>2. Held' = {None, t}
  BY ElementsEmpty DEF Stop, Held
<1>3. Outcome("closed").is = "closed"
  BY DEF Outcome
<1>4. ASSUME NEW u \in Tickets
      PROVE  \/ answer'[u] = answer[u]
             \/ answer[u].is = "none" /\ u \in Held /\ answer'[u].is \notin {"none", "gone"}
  BY <1>1, <1>3, <1>4 DEF Stop, ReplyAll, Held
<1>5. ASSUME NEW u \in Tickets, u \in Held
      PROVE  answer'[u].is # "none" \/ (u \in Held' /\ actor' # "closed")
  BY <1>1, <1>2, <1>3, <1>5 DEF Stop, ReplyAll, Held, Inv, Stopped
<1>6. \A u \in Tickets : u \in Held' => u \in Held
  BY <1>1, <1>2 DEF Held
<1>7. Serves
  BY <1>4, <1>5, <1>6 DEF Serves, Stop
<1>8. Stopped'
  BY DEF Stop, Stopped
<1> QED BY <1>7, <1>8

\* A reply to the one ticket that leaves the actor's hands.
LEMMA ReplyServes ==
    ASSUME Inv, UNCHANGED clientVars, UNCHANGED actor, actor # "closed",
           NEW t \in Tickets, t \in Held,
           NEW what \in Answer, what.is \notin {"none", "gone"},
           Reply(t, what), Held \subseteq Held' \cup {t}, Held' \subseteq Held \cup {None}
    PROVE  Serves
<1>1. answer \in [Tickets -> Answer] /\ None \notin Tickets
  BY DEF Inv, TypeOK, Tickets, None
<1>2. \A u \in Tickets : answer'[u] = IF u = t /\ answer[u].is = "none" THEN what ELSE answer[u]
  BY <1>1 DEF Reply, ReplyAll
<1> QED BY <1>1, <1>2 DEF Serves

\* Nothing is answered and nothing leaves the actor's hands.
LEMMA IdleServes ==
    ASSUME Inv, UNCHANGED clientVars, UNCHANGED actor, UNCHANGED answer, Held' = Held
    PROVE  Serves
  BY DEF Serves

\* Every step of the actor answers the tickets that leave its hands.
LEMMA ActorServes ==
    ASSUME Inv, ActorStep
    PROVE  Serves /\ Stopped'
<1>t. TypeOK /\ Stopped
  BY DEF Inv
<1>n. None \notin Tickets
  BY DEF Tickets, None
<1>o. \A what \in Failures : Outcome(what) \in Answer /\ Outcome(what).is = what
  BY OutcomeType DEF Outcome
<1>q. /\ requests # <<>> => /\ Head(requests) \in Tickets
                            /\ Elements(requests) = {Head(requests)} \cup Elements(Tail(requests))
      /\ chan # <<>> => /\ Head(chan) \in Tickets
                        /\ Elements(chan) = {Head(chan)} \cup Elements(Tail(chan))
                        /\ Elements(Append(requests, Head(chan))) = Elements(requests) \cup {Head(chan)}
  BY <1>t, QueueFacts, HeadType DEF TypeOK
<1>1. CASE DispatchRefuse
  <2>1. /\ Head(requests) \in Tickets /\ Head(requests) \in Held
        /\ Held \subseteq Held' \cup {Head(requests)} /\ Held' \subseteq Held
    BY <1>1, <1>q DEF DispatchRefuse, Dispatching, Held
  <2>2. PICK why \in {"inUse", "invalid"} : Reply(Head(requests), Outcome(why))
    BY <1>1 DEF DispatchRefuse
  <2>3. Outcome(why) \in Answer /\ Outcome(why).is \notin {"none", "gone"}
    BY <1>o DEF Failures
  <2>4. Serves
    BY <1>1, <2>1, <2>2, <2>3, ReplyServes DEF DispatchRefuse, Dispatching
  <2>5. Stopped'
    BY <1>1, <1>t DEF DispatchRefuse, Dispatching, Stopped
  <2> QED BY <2>4, <2>5
<1>2. CASE DispatchWrite
  <2>1. \A t \in Tickets : t \in Held' <=> t \in Held
    BY <1>2, <1>q, <1>n DEF DispatchWrite, Dispatching, Held
  <2> QED BY <1>2, <1>t, <2>1 DEF DispatchWrite, Dispatching, Serves, Stopped
<1>3. CASE DispatchFail
  BY <1>3, <1>q, StopServes DEF DispatchFail, Dispatching
<1>4. CASE ReceiveSend
  <2>1. Held' = Held
    BY <1>4, <1>q DEF ReceiveSend, Held
  <2> QED BY <1>4, <1>t, <2>1, IdleServes DEF ReceiveSend, Selecting, Stopped
<1>5. CASE ReceiveShutdown
  BY <1>5, <1>q, StopServes DEF ReceiveShutdown, Selecting
<1>6. CASE ReceiveDropped
  BY <1>6, StopServes DEF ReceiveDropped, Selecting
<1>7. CASE HandleFrame
  <2> DEFINE frame == Head(incoming)
  <2>1. Stopped'
    BY <1>7, <1>t DEF HandleFrame, Selecting, Stopped
  <2>2. CASE UNCHANGED <<answer, pending>>
    <3>1. Held' = Held
      BY <1>7, <2>2 DEF HandleFrame, Held
    <3> QED BY <1>7, <2>1, <2>2, <3>1, IdleServes DEF HandleFrame
  <2>3. CASE ~UNCHANGED <<answer, pending>>
    <3>1. Confirm(frame)
      BY <1>7, <2>3 DEF HandleFrame, Report
    <3>2. pending \in Tickets /\ frame.of \in Tickets
      <4>1. frame \in Frame /\ frame.kind = "confirmation"
        BY <1>7, <1>t, <3>1 DEF HandleFrame, TypeOK, Confirm
      <4> QED BY <3>1, <4>1, <1>t DEF Confirm, TypeOK, Frame
    <3>3. pending' = None /\ \E what \in {Outcome("undecodable"), [is |-> "ok", of |-> frame.of]} :
                                 Reply(pending, what)
      BY <3>1, <2>3 DEF Confirm
    <3>4. /\ Outcome("undecodable") \in Answer /\ [is |-> "ok", of |-> frame.of] \in Answer
          /\ Outcome("undecodable").is = "undecodable"
      BY <3>2, <1>o DEF Failures, Answer
    <3>5. pending \in Held /\ Held \subseteq Held' \cup {pending} /\ Held' \subseteq Held \cup {None}
      BY <1>7, <3>3 DEF HandleFrame, Held
    <3>6. Serves
      BY <1>7, <3>2, <3>3, <3>4, <3>5, ReplyServes DEF HandleFrame, Selecting
    <3> QED BY <2>1, <3>6
  <2> QED BY <2>2, <2>3
<1>8. CASE StreamEnded
  BY <1>8, StopServes DEF StreamEnded, Selecting
<1>9. ASSUME NEW late \in Tickets \cup {None}, NEW over \in SUBSET SessionIds, Tick(late, over)
      PROVE  Serves /\ Stopped'
  <2>1. Stopped'
    BY <1>9, <1>t DEF Tick, Selecting, Stopped
  <2>2. CASE late = None
    <3>1. Held' = Held
      BY <1>9, <2>2 DEF Tick, Held
    <3> QED BY <1>9, <2>1, <2>2, <3>1, IdleServes DEF Tick
  <2>3. CASE late # None
    <3>1. late = pending /\ late \in Tickets /\ Reply(late, Outcome("timeout"))
      BY <1>9, <2>3 DEF Tick
    <3>2. late \in Held /\ Held \subseteq Held' \cup {late} /\ Held' \subseteq Held \cup {None}
      BY <1>9, <2>3, <3>1 DEF Tick, Held
    <3>3. Outcome("timeout") \in Answer /\ Outcome("timeout").is = "timeout"
      BY <1>o DEF Failures
    <3>4. Serves
      BY <1>9, <3>1, <3>2, <3>3, ReplyServes DEF Tick, Selecting
    <3> QED BY <2>1, <3>4
  <2> QED BY <2>2, <2>3
<1>10. ASSUME NEW what \in {"ok", "io"}, CloseStream(what) PROVE Serves /\ Stopped'
  <2>1. requests = <<>> /\ pending = None /\ actor = "closing"
    BY <1>10, <1>t DEF CloseStream, Stopped
  <2>2. \A t \in Tickets : t \in Held' => t \in Held
    BY <1>10, ElementsEmpty DEF CloseStream, Held
  <2>3. answer \in [Tickets -> Answer] /\ Outcome(what).is = what /\ Outcome("closed").is = "closed"
    BY <1>t DEF TypeOK, Outcome
  <2>4. ASSUME NEW t \in Tickets
        PROVE  \/ answer'[t] = answer[t]
               \/ answer[t].is = "none" /\ t \in Held /\ answer'[t].is \notin {"none", "gone"}
    BY <1>10, <2>3 DEF CloseStream, Held
  <2>5. ASSUME NEW t \in Tickets, t \in Held PROVE answer'[t].is # "none"
    BY <1>10, <2>1, <2>3, <2>5, <1>n, ElementsEmpty DEF CloseStream, Held
  <2>6. Serves
    BY <1>10, <2>2, <2>4, <2>5 DEF CloseStream, Serves
  <2>7. Stopped'
    BY <1>10, <2>1 DEF CloseStream, Stopped
  <2> QED BY <2>6, <2>7
<1> QED BY <1>1, <1>2, <1>3, <1>4, <1>5, <1>6, <1>7, <1>8, <1>9, <1>10, ActorStep DEF ActorStep

\* The gateway answers no caller and takes nothing from the actor.
LEMMA GatewayServes ==
    ASSUME Inv, GatewayStep
    PROVE  Serves /\ Stopped'
<1>1. UNCHANGED <<clientVars, answer, chan, actorVars>>
  BY DEF GatewayStep, GatewayReads, GatewayFinishes, GatewayNoise, LinkLost
<1>2. Held' = Held
  BY <1>1 DEF Held, actorVars
<1> QED BY <1>1, <1>2, IdleServes DEF actorVars, Inv, Stopped

-----------------------------------------------------------------------------
(***************************************************************************)
(* The other conjuncts, for steps of a caller c: it begins a call, submits *)
(* a command, goes on to its next command or leaves.                       *)
(***************************************************************************)
\* What is asked with a ticket is fixed before its turn, which comes only once.
PastFixed == \A t \in Tickets : ~Future(t) => ~Future(t)' /\ asked'[t] = asked[t]

Kept ==
    /\ GateHolds' /\ CallShape' /\ Disjoint' /\ FutureFree' /\ Listening' /\ Stopped' /\ NoLostCall'
    /\ PastFixed

\* The tickets of a call in progress.
LEMMA TicketFacts ==
    ASSUME Inv, NEW c \in Callers, Calling(c)
    PROVE  /\ call[c].ticket \in Tickets /\ call[c].ticket \in Nat
           /\ Last(c) \in Nat /\ call[c].ticket <= Last(c) /\ Last(c) <= issued
           /\ issued \in Nat /\ issued <= MaxRequests
<1>1. call[c].ticket \in Tickets /\ Last(c) <= issued /\ issued \in 0..MaxRequests
  BY DEF Inv, CallShape, TypeOK
<1>2. Left(call[c].op, asked[call[c].ticket].cmd) \in 0..2
  BY DEF Left
<1> QED BY <1>1, <1>2, BoundsAssumption DEF Tickets, Last

\* A new call takes tickets that nobody has used.
LEMMA BeginKeeps ==
    ASSUME Inv, NEW c \in Callers, NEW op \in {"send", "shutdown", "reboot"}, NEW request \in Request,
           Begin(c, op, request), op # "send" => request = Disable
    PROVE  Kept
<1> USE DEF Begin
<1>t. TypeOK
  BY DEF Inv
<1>n. issued \in Nat /\ MaxRequests \in Nat /\ issued + 1 \in Tickets /\ issued <= MaxRequests
  BY <1>t, BoundsAssumption DEF TypeOK, TicketsOf, Tickets
<1>h. Held' = Held /\ UNCHANGED <<answer, chan, actorVars>>
  BY DEF Held, actorVars
<1>d. ASSUME NEW d \in Callers, d # c, Calling(d)'
      PROVE  /\ Calling(d) /\ call'[d] = call[d] /\ pc'[d] = pc[d]
             /\ call[d].ticket # issued + 1 /\ asked'[call[d].ticket] = asked[call[d].ticket]
             /\ Last(d)' = Last(d) /\ Last(d) <= issued /\ call[d].ticket <= issued
  <2>1. Calling(d) /\ call'[d] = call[d] /\ pc'[d] = pc[d]
    BY <1>d, <1>t DEF Calling, TypeOK
  <2>2. call[d].ticket \in Tickets /\ call[d].ticket <= issued /\ Last(d) <= issued
    BY <2>1, <1>n, TicketFacts
  <2>3. call[d].ticket # issued + 1 /\ asked'[call[d].ticket] = asked[call[d].ticket]
    BY <2>2, <1>n, <1>t DEF TypeOK, Tickets
  <2> QED BY <2>1, <2>2, <2>3 DEF Last
<1>c. /\ call'[c].op = op /\ call'[c].ticket = issued + 1 /\ asked'[issued + 1] = request
      /\ pc'[c] = "submit"
  BY <1>t, <1>n DEF TypeOK
<1>l. Last(c)' = issued' /\ issued' \in Nat
  BY <1>c, <1>n DEF Last, Left, TicketsOf, Disable
<1>m. issued + 1 <= issued'
  BY <1>n DEF TicketsOf
<1>1. GateHolds'
  <2>1. gate \in Seq(Callers) /\ Elements(Append(gate, c)) = Elements(gate) \cup {c}
    BY <1>t, ElementsAppend DEF TypeOK
  <2>2. ASSUME NEW d \in Callers, d # c, Calling(d)'
        PROVE  d \in Elements(gate') /\ (pc'[d] = "wait" => gate'[1] = d)
    <3>1. d \in Elements(gate) /\ (pc[d] = "wait" => gate[1] = d)
      BY <2>2, <1>d DEF Inv, GateHolds
    <3>2. gate # <<>>
      BY <3>1, ElementsEmpty
    <3>3. gate'[1] = gate[1]
      BY <2>1, <3>2
    <3> QED BY <2>1, <2>2, <3>1, <3>3, <1>d
  <2> QED BY <2>1, <2>2, <1>c DEF GateHolds
<1>2. CallShape'
  <2>1. ASSUME NEW d \in Callers, d # c, Calling(d)'
        PROVE  /\ call'[d].ticket \in Tickets /\ Shape(call'[d].op, asked'[call'[d].ticket])
               /\ Last(d)' <= issued'
    <3>1. call[d].ticket \in Tickets /\ Shape(call[d].op, asked[call[d].ticket])
      BY <2>1, <1>d DEF Inv, CallShape
    <3>2. Last(d) \in Nat
      BY <2>1, <1>d, TicketFacts
    <3> QED BY <2>1, <3>1, <3>2, <1>d, <1>l, <1>m, <1>n DEF Shape
  <2>2. Shape(op, request)
    BY DEF Shape
  <2> QED BY <2>1, <2>2, <1>c, <1>l, <1>n DEF CallShape, Tickets
<1>3. Disjoint'
  <2>1. ASSUME NEW d \in Callers, d # c, Calling(d)' PROVE Last(d)' < call'[c].ticket
    <3>1. Last(d) \in Nat
      BY <2>1, <1>d, TicketFacts
    <3> QED BY <2>1, <3>1, <1>d, <1>c, <1>n
  <2>2. ASSUME NEW d \in Callers, NEW e \in Callers, d # c, e # c, d # e, Calling(d)', Calling(e)'
        PROVE  Last(d)' < call'[e].ticket \/ Last(e)' < call'[d].ticket
    BY <2>2, <1>d DEF Inv, Disjoint
  <2> QED BY <2>1, <2>2 DEF Disjoint
<1>f. ASSUME NEW t \in Tickets, Future(t)' PROVE Future(t)
  <2>0. t \in Nat
    BY DEF Tickets
  <2>1. CASE t > issued'
    BY <2>0, <2>1, <1>l, <1>m, <1>n DEF Future
  <2>2. CASE Awaits(c, t)'
    BY <2>0, <2>2, <1>c, <1>n DEF Future, Awaits
  <2>3. ASSUME NEW d \in Callers, d # c, Awaits(d, t)' PROVE Future(t)
    BY <2>3, <1>d DEF Future, Awaits
  <2> QED BY <2>1, <2>2, <2>3, <1>f DEF Future
<1>4. FutureFree'
  BY <1>f, <1>h DEF Inv, FutureFree
<1>8. PastFixed
  <2>1. Future(issued + 1)
    BY <1>n DEF Future
  <2> QED BY <2>1, <1>f, <1>n, <1>t DEF PastFixed, TypeOK
<1>5. Listening'
  <2>1. answer[issued + 1].is = "none"
    BY <1>n DEF Inv, FutureFree, Future
  <2> QED BY <2>1, <1>c, <1>d, <1>h DEF Inv, Listening
<1>6. Stopped'
  BY <1>h DEF Inv, Stopped, actorVars
<1>7. NoLostCall'
  <2>1. ASSUME NEW d \in Callers, pc'[d] = "wait" PROVE d # c /\ Calling(d)' /\ pc[d] = "wait"
    BY <2>1, <1>c, <1>t DEF Calling, TypeOK
  <2> QED BY <2>1, <1>d, <1>h DEF Inv, NoLostCall, actorVars
<1> QED BY <1>1, <1>2, <1>3, <1>4, <1>5, <1>6, <1>7, <1>8 DEF Kept

\* A submitted request is in the hands of the actor.
LEMMA SubmitKeeps ==
    ASSUME Inv, NEW c \in Callers, Submit(c)
    PROVE  Kept
<1> USE DEF Submit
<1>t. TypeOK /\ Calling(c)
  BY DEF Inv, Calling
<1>n. call[c].ticket \in Tickets /\ call[c].ticket \in Nat /\ Last(c) \in Nat
        /\ call[c].ticket <= Last(c) /\ Last(c) <= issued /\ issued \in Nat
  BY <1>t, TicketFacts
<1>p. pc' = [pc EXCEPT ![c] = "wait"] /\ \A d \in Callers : Calling(d)' <=> Calling(d)
  BY <1>t DEF Calling, TypeOK
<1>l. UNCHANGED <<call, asked, issued, gate>> /\ \A d \in Callers : Last(d)' = Last(d)
  BY DEF Last
<1>h. Held' = Held \cup {call[c].ticket}
  BY <1>t, <1>n, ElementsAppend DEF TypeOK, Held, actorVars
<1>1. GateHolds'
  <2>1. c \in Elements(gate) /\ gate \in Seq(Callers)
    BY <1>t DEF Inv, GateHolds, TypeOK
  <2>2. gate[1] = c
    BY <2>1, ElementsEmpty, ElementsTail
  <2> QED BY <2>1, <2>2, <1>p, <1>l, <1>t DEF Inv, GateHolds, TypeOK
<1>2. CallShape' /\ Disjoint'
  BY <1>p, <1>l DEF Inv, CallShape, Disjoint
<1>f. ASSUME NEW t \in Tickets, Future(t)' PROVE Future(t) /\ t # call[c].ticket
  <2>0. t \in Nat
    BY DEF Tickets
  <2>1. CASE t > issued'
    BY <2>0, <2>1, <1>n, <1>l DEF Future
  <2>2. CASE Awaits(c, t)'
    BY <2>0, <2>2, <1>n, <1>p, <1>l, <1>t DEF Future, Awaits, TypeOK
  <2>3. ASSUME NEW d \in Callers, d # c, Awaits(d, t)' PROVE Future(t) /\ t # call[c].ticket
    <3>1. Awaits(d, t)
      BY <2>3, <1>p, <1>l, <1>t DEF Awaits, TypeOK
    <3>2. call[d].ticket \in Nat /\ Last(d) \in Nat /\ call[d].ticket <= t /\ t <= Last(d)
      BY <3>1, TicketFacts DEF Awaits
    <3>3. Last(c) < call[d].ticket \/ Last(d) < call[c].ticket
      BY <2>3, <3>1, <1>t DEF Inv, Disjoint, Awaits
    <3> QED BY <2>0, <3>1, <3>2, <3>3, <1>n DEF Future
  <2> QED BY <2>1, <2>2, <2>3, <1>f DEF Future
<1>3. FutureFree'
  BY <1>f, <1>h DEF Inv, FutureFree
<1>7. PastFixed
  BY <1>f, <1>l DEF PastFixed
<1>4. Listening'
  BY <1>p, <1>l DEF Inv, Listening
<1>5. Stopped'
  BY DEF Inv, Stopped, actorVars
<1>6. NoLostCall'
  <2>1. \A d \in Callers : d # c => pc'[d] = pc[d]
    BY <1>t DEF TypeOK
  <2> QED BY <2>1, <1>h, <1>l DEF Inv, NoLostCall, actorVars
<1> QED BY <1>1, <1>2, <1>3, <1>4, <1>5, <1>6, <1>7 DEF Kept

\* The channel of the command in hand is hung up, or left as it is.
Drops(c) == HangUp(call[c].ticket) \/ UNCHANGED answer

\* What hanging up the channel of c means for the other tickets.
LEMMA DropsFacts ==
    ASSUME Inv, NEW c \in Callers, Calling(c), Drops(c)
    PROVE  /\ \A t \in Tickets : t # call[c].ticket => answer'[t] = answer[t]
           /\ \A t \in Tickets : answer[t].is # "none" => answer'[t].is # "none"
           /\ \A d \in Callers : (d # c /\ Calling(d)) => call[d].ticket # call[c].ticket
           /\ \A t \in Tickets : t > issued => t # call[c].ticket
           /\ \A t \in Tickets, d \in Callers : (d # c /\ Awaits(d, t)) => t # call[c].ticket
<1>1. answer \in [Tickets -> Answer] /\ Outcome("gone").is = "gone"
  BY DEF Inv, TypeOK, Outcome
<1>2. /\ \A t \in Tickets : t # call[c].ticket => answer'[t] = answer[t]
      /\ \A t \in Tickets : answer[t].is # "none" => answer'[t].is # "none"
  BY <1>1 DEF Drops, HangUp
<1>3. call[c].ticket \in Nat /\ Last(c) \in Nat /\ issued \in Nat /\ call[c].ticket <= Last(c)
        /\ Last(c) <= issued
  BY TicketFacts
<1>4. ASSUME NEW d \in Callers, d # c, Calling(d)
      PROVE  /\ call[d].ticket \in Nat /\ Last(d) \in Nat /\ call[d].ticket <= Last(d)
             /\ Last(c) < call[d].ticket \/ Last(d) < call[c].ticket
  BY <1>4, TicketFacts DEF Inv, Disjoint
<1>5. \A d \in Callers : (d # c /\ Calling(d)) => call[d].ticket # call[c].ticket
  BY <1>3, <1>4
<1>6. \A t \in Tickets : t > issued => t # call[c].ticket
  BY <1>3 DEF Tickets
<1>7. ASSUME NEW t \in Tickets, NEW d \in Callers, d # c, Awaits(d, t) PROVE t # call[c].ticket
  <2>1. call[d].ticket <= t /\ t <= Last(d) /\ t \in Nat /\ Calling(d)
    BY <1>7 DEF Awaits, Tickets
  <2> QED BY <2>1, <1>3, <1>4, <1>7
<1> QED BY <1>2, <1>5, <1>6, <1>7

\* A call ends: it returns from the head of the gate or is cancelled anywhere in it.
LEMMA LeaveKeeps ==
    ASSUME Inv, NEW c \in Callers, Calling(c), Drops(c),
           pc' = [pc EXCEPT ![c] = "idle"],
           \A d \in Callers : d # c => call'[d] = call[d],
           \A d \in Elements(gate) : d # c => d \in Elements(gate'),
           gate[1] # c => gate'[1] = gate[1],
           UNCHANGED <<issued, asked, chan, actorVars>>
    PROVE  Kept
<1>t. TypeOK
  BY DEF Inv
<1>p. /\ ~Calling(c)' /\ \A d \in Callers : d # c => pc'[d] = pc[d] /\ (Calling(d)' <=> Calling(d))
  BY <1>t DEF Calling, TypeOK
<1>l. \A d \in Callers : d # c => Last(d)' = Last(d)
  BY DEF Last
<1>h. Held' = Held
  BY DEF Held, actorVars
<1>1. GateHolds'
  BY <1>p DEF Inv, GateHolds
<1>2. CallShape' /\ Disjoint'
  BY <1>p, <1>l DEF Inv, CallShape, Disjoint
<1>f. ASSUME NEW t \in Tickets, Future(t)' PROVE Future(t) /\ t # call[c].ticket
  <2>1. CASE t > issued'
    BY <2>1, DropsFacts DEF Future
  <2>2. ASSUME NEW d \in Callers, Awaits(d, t)' PROVE Future(t) /\ t # call[c].ticket
    <3>1. d # c /\ Awaits(d, t)
      BY <2>2, <1>p, <1>l DEF Awaits
    <3> QED BY <3>1, DropsFacts DEF Future
  <2> QED BY <2>1, <2>2, <1>f DEF Future
<1>3. FutureFree'
  BY <1>f, <1>h, DropsFacts DEF Inv, FutureFree
<1>7. PastFixed
  BY <1>f DEF PastFixed
<1>4. Listening'
  <2> SUFFICES ASSUME NEW d \in Callers, Calling(d)' PROVE (answer[call[d].ticket].is # "gone")'
    BY DEF Listening
  <2>1. d # c /\ Calling(d) /\ call'[d] = call[d] /\ call[d].ticket \in Tickets
    BY <1>p, TicketFacts
  <2> QED BY <2>1, DropsFacts DEF Inv, Listening
<1>5. Stopped'
  BY DEF Inv, Stopped, actorVars
<1>6. NoLostCall'
  <2> SUFFICES ASSUME NEW d \in Callers, pc'[d] = "wait"
               PROVE  (\/ answer[call[d].ticket].is # "none"
                       \/ call[d].ticket \in Held /\ actor # "closed")'
    BY DEF NoLostCall
  <2>1. d # c /\ pc[d] = "wait" /\ call'[d] = call[d] /\ Calling(d)
    BY <1>p, <1>t DEF Calling, TypeOK
  <2>2. call[d].ticket \in Tickets
    BY <2>1, TicketFacts
  <2> QED BY <2>1, <2>2, <1>h, DropsFacts DEF Inv, NoLostCall, actorVars
<1> QED BY <1>1, <1>2, <1>3, <1>4, <1>5, <1>6, <1>7 DEF Kept

\* A shutdown goes on to its next command.
LEMMA NextKeeps ==
    ASSUME Inv, NEW c \in Callers, Calling(c), Drops(c),
           NEW noted \in Call, noted.op = call[c].op,
           NEW request \in Request \cup {CloseCommand}, NextCommand(c, noted, request),
           Shape(call[c].op, request),
           Left(call[c].op, asked[call[c].ticket].cmd) = Left(call[c].op, request.cmd) + 1,
           UNCHANGED <<issued, chan, actorVars>>
    PROVE  Kept
<1> USE DEF NextCommand
<1>t. TypeOK
  BY DEF Inv
<1> DEFINE next == call[c].ticket + 1
<1>n. call[c].ticket \in Tickets /\ call[c].ticket \in Nat /\ Last(c) \in Nat /\ issued \in Nat
        /\ Last(c) <= issued /\ issued <= MaxRequests /\ MaxRequests \in Nat
  BY TicketFacts, BoundsAssumption
<1>m. next <= Last(c) /\ next \in Tickets /\ Left(call[c].op, request.cmd) \in 0..2
  <2>1. Left(call[c].op, request.cmd) \in 0..2
    BY DEF Left
  <2> QED BY <2>1, <1>n DEF Last, Tickets
<1>c. /\ call'[c].ticket = next /\ call'[c].op = call[c].op /\ asked'[next] = request
      /\ pc'[c] = "submit"
  BY <1>t, <1>m DEF TypeOK, Call
<1>l. Last(c)' = Last(c)
  BY <1>c, <1>n, <1>m DEF Last
<1>d. ASSUME NEW d \in Callers, d # c, Calling(d)'
      PROVE  /\ Calling(d) /\ call'[d] = call[d] /\ pc'[d] = pc[d] /\ call[d].ticket \in Tickets
             /\ asked'[call[d].ticket] = asked[call[d].ticket] /\ Last(d)' = Last(d)
  <2>1. Calling(d) /\ call'[d] = call[d] /\ pc'[d] = pc[d]
    BY <1>d, <1>t DEF Calling, TypeOK
  <2>2. /\ call[d].ticket \in Tickets /\ call[d].ticket \in Nat /\ Last(d) \in Nat
        /\ call[d].ticket <= Last(d)
    BY <2>1, TicketFacts
  <2>3. Last(c) < call[d].ticket \/ Last(d) < call[c].ticket
    BY <1>d, <2>1 DEF Inv, Disjoint
  <2>4. call[d].ticket # next
    BY <2>2, <2>3, <1>n, <1>m
  <2>5. asked'[call[d].ticket] = asked[call[d].ticket]
    BY <2>2, <2>4, <1>t DEF TypeOK
  <2> QED BY <2>1, <2>2, <2>5 DEF Last
<1>h. Held' = Held
  BY DEF Held, actorVars
<1>1. GateHolds'
  BY <1>c, <1>d DEF Inv, GateHolds, Calling
<1>2. CallShape'
  BY <1>c, <1>d, <1>l, <1>n, <1>m DEF Inv, CallShape
<1>3. Disjoint'
  <2>1. ASSUME NEW d \in Callers, d # c, Calling(d)'
        PROVE  Last(c)' < call'[d].ticket \/ Last(d)' < call'[c].ticket
    <3>1. Last(c) < call[d].ticket \/ Last(d) < call[c].ticket
      BY <2>1, <1>d DEF Inv, Disjoint
    <3>2. Last(d) \in Nat
      BY <2>1, <1>d, TicketFacts
    <3> QED BY <3>1, <3>2, <2>1, <1>c, <1>d, <1>l, <1>n
  <2>2. ASSUME NEW d \in Callers, NEW e \in Callers, d # c, e # c, d # e, Calling(d)', Calling(e)'
        PROVE  Last(d)' < call'[e].ticket \/ Last(e)' < call'[d].ticket
    BY <2>2, <1>d DEF Inv, Disjoint
  <2> QED BY <2>1, <2>2 DEF Disjoint
<1>f. ASSUME NEW t \in Tickets, Future(t)' PROVE Future(t) /\ t # call[c].ticket
  <2>1. CASE t > issued'
    BY <2>1, DropsFacts DEF Future
  <2>2. CASE Awaits(c, t)'
    BY <2>2, <1>c, <1>l, <1>n DEF Future, Awaits, Tickets
  <2>3. ASSUME NEW d \in Callers, d # c, Awaits(d, t)' PROVE Future(t) /\ t # call[c].ticket
    <3>1. Awaits(d, t)
      BY <2>3, <1>d DEF Awaits
    <3> QED BY <2>3, <3>1, DropsFacts DEF Future
  <2> QED BY <2>1, <2>2, <2>3, <1>f DEF Future
<1>4. FutureFree'
  BY <1>f, <1>h, DropsFacts DEF Inv, FutureFree
<1>8. PastFixed
  <2>1. Future(next)
    BY <1>n, <1>m DEF Future, Awaits, Calling
  <2> QED BY <2>1, <1>f, <1>m, <1>t DEF PastFixed, TypeOK
<1>5. Listening'
  <2> SUFFICES ASSUME NEW d \in Callers, Calling(d)' PROVE (answer[call[d].ticket].is # "gone")'
    BY DEF Listening
  <2>1. CASE d = c
    <3>1. Future(next) /\ next # call[c].ticket
      BY <1>n, <1>m DEF Future, Awaits, Calling
    <3>2. answer[next].is = "none"
      BY <3>1, <1>m DEF Inv, FutureFree
    <3> QED BY <2>1, <3>1, <3>2, <1>c, <1>m, DropsFacts
  <2>2. CASE d # c
    BY <2>2, <1>d, DropsFacts DEF Inv, Listening
  <2> QED BY <2>1, <2>2
<1>6. Stopped'
  BY DEF Inv, Stopped, actorVars
<1>7. NoLostCall'
  <2> SUFFICES ASSUME NEW d \in Callers, pc'[d] = "wait"
               PROVE  (\/ answer[call[d].ticket].is # "none"
                       \/ call[d].ticket \in Held /\ actor # "closed")'
    BY DEF NoLostCall
  <2>1. d # c /\ Calling(d)'
    BY <1>c DEF Calling
  <2> QED BY <2>1, <1>d, <1>h, DropsFacts DEF Inv, NoLostCall, actorVars
<1> QED BY <1>1, <1>2, <1>3, <1>4, <1>5, <1>6, <1>7, <1>8 DEF Kept

\* Popping the head of the gate, where c is, keeps everybody else in it.
LEMMA ReturnKeeps ==
    ASSUME Inv, NEW c \in Callers, Calling(c), gate[1] = c, gate' = Tail(gate), Drops(c),
           pc' = [pc EXCEPT ![c] = "idle"],
           \A d \in Callers : d # c => call'[d] = call[d],
           UNCHANGED <<issued, asked, chan, actorVars>>
    PROVE  Kept
<1>1. gate \in Seq(Callers) /\ gate # <<>>
  BY CallerFacts DEF Inv, TypeOK
<1>2. Elements(gate) = {c} \cup Elements(gate')
  BY <1>1, ElementsTail
<1> QED BY <1>2, LeaveKeeps

\* The outcome of a request ends the call or starts the next command of a shutdown.
LEMMA ContinueKeeps ==
    ASSUME Inv, NEW c \in Callers, Calling(c), gate[1] = c, Drops(c),
           NEW what \in Results, Continue(c, what),
           UNCHANGED <<issued, chan, actorVars>>
    PROVE  Kept
<1>t. call[c] \in Call /\ call \in [Callers -> Call]
  BY DEF Inv, TypeOK
<1>s. Shape(call[c].op, asked[call[c].ticket])
  BY DEF Inv, CallShape
<1>m. /\ [call[c] EXCEPT !.monitor = what] \in Call /\ [call[c] EXCEPT !.monitor = what].op = call[c].op
      /\ [call[c] EXCEPT !.reboot = what] \in Call /\ [call[c] EXCEPT !.reboot = what].op = call[c].op
  BY <1>t DEF Call
<1>1. CASE ReturnSend(c)
  BY <1>1, <1>t, ReturnKeeps DEF ReturnSend
<1>2. ASSUME NEW w, ReturnShutdown(c, w) PROVE Kept
  BY <1>2, ReturnKeeps DEF ReturnShutdown
<1>3. ASSUME call[c].op = "shutdown", asked[call[c].ticket].cmd = "disable",
             NextCommand(c, [call[c] EXCEPT !.monitor = what], CloseCommand)
      PROVE  Kept
  <2>1. CloseCommand \in Request \cup {CloseCommand}
    OBVIOUS
  <2>2. Shape(call[c].op, CloseCommand)
    BY <1>3 DEF Shape, CloseCommand
  <2>3. Left(call[c].op, asked[call[c].ticket].cmd) = Left(call[c].op, CloseCommand.cmd) + 1
    BY <1>3 DEF Left, CloseCommand
  <2> DEFINE noted == [call[c] EXCEPT !.monitor = what]
  <2>4. noted \in Call /\ noted.op = call[c].op /\ NextCommand(c, noted, CloseCommand)
    BY <1>3, <1>m
  <2> HIDE DEF noted
  <2> QED BY <2>1, <2>2, <2>3, <2>4, NextKeeps
<1>4. ASSUME call[c].op = "reboot", asked[call[c].ticket].cmd = "disable",
             NextCommand(c, [call[c] EXCEPT !.monitor = what], Reboot)
      PROVE  Kept
  <2>1. Reboot \in Request \cup {CloseCommand}
    BY DEF Reboot, Request, PlainCommands
  <2>2. Shape(call[c].op, Reboot)
    BY <1>4 DEF Shape, Reboot
  <2>3. Left(call[c].op, asked[call[c].ticket].cmd) = Left(call[c].op, Reboot.cmd) + 1
    BY <1>4 DEF Left, Reboot
  <2> DEFINE noted == [call[c] EXCEPT !.monitor = what]
  <2>4. noted \in Call /\ noted.op = call[c].op /\ NextCommand(c, noted, Reboot)
    BY <1>4, <1>m
  <2> HIDE DEF noted
  <2> QED BY <2>1, <2>2, <2>3, <2>4, NextKeeps
<1>5. ASSUME call[c].op = "reboot", asked[call[c].ticket].cmd = "reboot",
             NextCommand(c, [call[c] EXCEPT !.reboot = what], CloseCommand)
      PROVE  Kept
  <2>1. CloseCommand \in Request \cup {CloseCommand}
    OBVIOUS
  <2>2. Shape(call[c].op, CloseCommand)
    BY <1>5 DEF Shape, CloseCommand
  <2>3. Left(call[c].op, asked[call[c].ticket].cmd) = Left(call[c].op, CloseCommand.cmd) + 1
    BY <1>5 DEF Left, CloseCommand
  <2> DEFINE noted == [call[c] EXCEPT !.reboot = what]
  <2>4. noted \in Call /\ noted.op = call[c].op /\ NextCommand(c, noted, CloseCommand)
    BY <1>5, <1>m
  <2> HIDE DEF noted
  <2> QED BY <2>1, <2>2, <2>3, <2>4, NextKeeps
<1> QED BY <1>1, <1>2, <1>3, <1>4, <1>5 DEF Continue

\* Every step of a caller keeps the facts about calls, gate and tickets.
LEMMA ClientKeeps ==
    ASSUME Inv, NEW c \in Callers, ClientStep(c)
    PROVE  Kept
<1>t. TypeOK
  BY DEF Inv
<1>0. Disable \in Request
  BY DEF Disable, Request, PlainCommands
<1>h. (pc[c] = "submit" /\ Head(gate) = c) => gate[1] = c
  BY CallerFacts, ElementsTail, <1>t DEF Calling, TypeOK
<1>1. ASSUME NEW request \in Sends, Send(c, request) PROVE Kept
  BY <1>1, BeginKeeps, SendsAssumption DEF Send
<1>2. CASE Shutdown(c)
  BY <1>2, <1>0, BeginKeeps DEF Shutdown
<1>3. CASE ShutdownAndReboot(c)
  BY <1>3, <1>0, BeginKeeps DEF ShutdownAndReboot
<1>4. CASE Submit(c)
  BY <1>4, SubmitKeeps
<1>5. CASE SubmitRefused(c)
  <2>1. Calling(c) /\ gate[1] = c /\ Drops(c)
    BY <1>5, <1>h DEF SubmitRefused, Calling, Drops
  <2>2. ASSUME NEW w, ReturnShutdown(c, w) PROVE Kept
    BY <1>5, <2>1, <2>2, ReturnKeeps DEF ReturnShutdown, SubmitRefused
  <2>3. ASSUME Continue(c, "closed") PROVE Kept
    BY <1>5, <2>1, <2>3, ContinueKeeps DEF SubmitRefused, Results, Failures
  <2> QED BY <1>5, <2>2, <2>3 DEF SubmitRefused
<1>6. CASE Resume(c)
  <2>1. Calling(c) /\ Drops(c)
    BY <1>6 DEF Resume, Calling, Drops
  <2>2. gate[1] = c
    BY <1>6, <2>1 DEF Resume, Inv, GateHolds
  <2>3. answer[call[c].ticket].is \in Results
    BY <2>1, CallerFacts DEF Results
  <2> QED BY <1>6, <2>1, <2>2, <2>3, ContinueKeeps DEF Resume
<1>7. CASE Cancel(c)
  <2>1. Calling(c) /\ Drops(c)
    BY <1>7 DEF Cancel, Calling, Drops
  <2>2. PICK i \in 1..Len(gate) : gate[i] = c /\ gate' = RemoveAt(gate, i)
    BY <1>7 DEF Cancel
  <2>3. gate \in Seq(Callers)
    BY <1>t DEF TypeOK
  <2>4. \A d \in Elements(gate) : d # c => d \in Elements(gate')
    BY <2>2, <2>3, RemoveAtKeeps
  <2>5. gate[1] # c => gate'[1] = gate[1]
    BY <2>2, <2>3, RemoveAtKeeps
  <2>6. \A d \in Callers : d # c => call'[d] = call[d]
    BY <1>7, <1>t DEF Cancel, TypeOK
  <2> QED BY <1>7, <2>1, <2>4, <2>5, <2>6, LeaveKeeps DEF Cancel
<1> QED BY <1>1, <1>2, <1>3, <1>4, <1>5, <1>6, <1>7 DEF ClientStep

-----------------------------------------------------------------------------
\* The invariant holds initially.
LEMMA InvInit == Init => Inv
<1> SUFFICES ASSUME Init PROVE Inv
  OBVIOUS
<1>1. TypeOK
  BY TypeInit
<1>2. \A c \in Callers : ~Calling(c) /\ pc[c] # "wait"
  BY DEF Init, Calling
<1>3. GateHolds /\ CallShape /\ Disjoint /\ Listening /\ NoLostCall
  BY <1>2 DEF GateHolds, CallShape, Disjoint, Listening, NoLostCall
<1>4. FutureFree
  BY ElementsEmpty DEF Init, FutureFree, Unanswered, Held, Tickets, None
<1>5. Stopped
  BY DEF Init, Stopped
<1> QED BY <1>1, <1>3, <1>4, <1>5 DEF Inv

\* Every step keeps the invariant.
LEMMA InvNext == Inv /\ [Next]_vars => Inv'
<1> SUFFICES ASSUME Inv, [Next]_vars PROVE Inv'
  OBVIOUS
<1>1. ASSUME NEW c \in Callers, ClientStep(c) PROVE Inv'
  BY <1>1, TypeClient, ClientKeeps DEF Kept, Inv
<1>2. CASE ActorStep
  BY <1>2, TypeActor, ActorServes, ServesKeeps, ServesLosesNoCall DEF Inv
<1>3. CASE GatewayStep
  BY <1>3, TypeGateway, GatewayServes, ServesKeeps, ServesLosesNoCall DEF Inv
<1>4. ASSUME DropClient \/ UNCHANGED vars PROVE Inv'
  <2>1. /\ UNCHANGED <<gate, pc, call, result, issued, asked, answer, chan, actorVars, wireVars>>
        /\ handles' \in {handles, "dropped"} /\ published' \in {published, {}}
    BY <1>4 DEF DropClient, vars, clientVars
  <2>2. TypeOK'
    BY <2>1 DEF Inv, TypeOK, actorVars, wireVars
  <2>3. Held' = Held /\ \A c \in Callers : Last(c)' = Last(c)
    BY <2>1 DEF Held, Last, actorVars
  <2>4. GateHolds' /\ CallShape' /\ Disjoint' /\ Listening' /\ NoLostCall'
    BY <2>1, <2>3 DEF Inv, GateHolds, CallShape, Disjoint, Listening, NoLostCall, Calling, actorVars
  <2>5. FutureFree'
    BY <2>1, <2>3 DEF Inv, FutureFree, Future, Awaits, Calling
  <2>6. Stopped'
    BY <2>1 DEF Inv, Stopped, actorVars
  <2> QED BY <2>2, <2>4, <2>5, <2>6 DEF Inv
<1> QED BY <1>1, <1>2, <1>3, <1>4 DEF Next

\* The inductive invariant, for every number of callers, requests and sessions.
THEOREM Invariant == Spec => []Inv
  BY InvInit, InvNext, PTL DEF Spec

\* Every variable keeps its type.
THEOREM TypeCorrect == Spec => []TypeOK
<1>1. Inv => TypeOK
  BY DEF Inv
<1> QED BY <1>1, Invariant, PTL

\* No caller ever waits for a reply that nobody is left to give.
THEOREM NoCallIsLost == Spec => []NoLostCall
<1>1. Inv => NoLostCall
  BY DEF Inv
<1> QED BY <1>1, Invariant, PTL
=============================================================================
