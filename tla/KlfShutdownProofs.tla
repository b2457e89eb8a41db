------------------------- MODULE KlfShutdownProofs -------------------------
(***************************************************************************)
(* A shutdown that returns Ok leaves the house monitor of the gateway off. *)
(* A confirmation names no request, only a command, so that this rests on  *)
(* an assumption about the other tasks: they submit no request to switch   *)
(* the monitor on while one to switch it off, or its confirmation, is      *)
(* underway.  initialize_gateway keeps it, for it awaits the confirmation  *)
(* of its disable before anything else; and a client whose only requests   *)
(* to switch the monitor off are those of its shutdowns keeps it as well,  *)
(* which is proved.                                                        *)
(***************************************************************************)
EXTENDS KlfConnectionSafety

Offs == {"disable", "reboot"}
OffFrame(f) == f.kind = "confirmation" /\ f.status # "undecodable" /\ asked[f.of].cmd \in Offs
OffUnderway ==
    \/ \E t \in Underway \ {None} : asked[t].cmd \in Offs
    \/ \E f \in Elements(incoming) : OffFrame(f)

\* The step submits no enable while a request to switch the monitor off is underway.
EnablesWhenQuiet ==
    \A c \in Callers :
        (Submit(c) /\ actor = "run" /\ asked[call[c].ticket].cmd = "enable") => ~OffUnderway

\* A shutdown holds the gate.
Closer(c) == Calling(c) /\ call[c].op # "send"
GateShut == \E c \in Callers : Closer(c) /\ gate[1] = c

\* Where the commands of a call come from, and that close is the last one served.
SendsAsked == \A c \in Callers : (Calling(c) /\ call[c].op = "send") => asked[call[c].ticket] \in Sends
CloserGated ==
    \A c \in Callers : (Closer(c) /\ asked[call[c].ticket].cmd # "disable") => gate[1] = c
CloseLast ==
    /\ farewell # None => asked[farewell] = CloseCommand
    /\ \A t \in Tickets : asked[t] = CloseCommand =>
           /\ t \notin Elements(requests) \cup {pending}
           /\ answer[t].is # "none" => actor # "run"
           /\ answer[t].is = "ok" => actor = "closed"
CallInv == SendsAsked /\ CloserGated /\ CloseLast

\* The monitor is off and nothing on its way to the gateway switches it on; nor will
\* anything, for the gate is shut until the actor has stopped.
Coming == Elements(toGateway) \cup Elements(requests) \cup (IF actor = "run" THEN Elements(chan) ELSE {})
Quiet == gateway.monitor = "off" /\ \A t \in Coming : asked[t].cmd # "enable"
Sealed == Quiet /\ (actor = "run" => GateShut)

\* The call has noted the confirmation that decides its result.
Noted(c) ==
    \/ call[c].op = "shutdown" /\ call[c].monitor = "ok"
    \/ call[c].op = "reboot" /\ call[c].reboot = "ok"

OffThenNoneOn == \A t, u \in Coming : (asked[t].cmd \in Offs /\ t < u) => asked[u].cmd # "enable"
OffFrames == (\E f \in Elements(incoming) : OffFrame(f)) => Quiet
OffAnswers ==
    \A c \in Callers :
        (Closer(c) /\ asked[call[c].ticket].cmd \in Offs /\ answer[call[c].ticket].is = "ok") => Sealed
OffNoted == \A c \in Callers : Noted(c) => Sealed
OffReturned == \A c \in Callers : ShutdownSucceeded(c) => actor = "closed" /\ Noted(c)
OffInv == OffThenNoneOn /\ OffFrames /\ OffAnswers /\ OffNoted /\ OffReturned

-----------------------------------------------------------------------------
(***************************************************************************)
(* The steps of a caller, with what they do to the call.                   *)
(***************************************************************************)
StartsCall(c) ==
    /\ Begins(c) /\ ~Noted(c)' /\ asked'[issued + 1] = asked'[call'[c].ticket]
    /\ IF call'[c].op = "send" THEN asked'[issued + 1] \in Sends ELSE asked'[issued + 1] = Disable
GoesOn(c) ==
    /\ Advances(c) /\ call[c].op # "send" /\ call'[c].op = call[c].op
    /\ Noted(c)' => \/ Noted(c)
                    \/ asked[call[c].ticket].cmd \in Offs /\ answer[call[c].ticket].is = "ok"
EndsSend(c) == Leaves(c) /\ call[c].op = "send" /\ call'[c] = NoCall
EndsClose(c) ==
    /\ Leaves(c) /\ call[c].op # "send" /\ call'[c] = call[c] /\ actor # "run"
    /\ result'[c] = "ok" => actor = "closed" /\ Noted(c)

\* The step takes at most its own reply, and only a send gives up without one.
TakesReply(c) ==
    \A t \in Tickets :
        \/ answer'[t] = answer[t]
        \/ /\ t = call[c].ticket /\ answer'[t] = Outcome("gone")
           /\ answer[t].is # "none" \/ (Calling(c) /\ call[c].op = "send" /\ UNCHANGED asked)

\* A close command is no request that a send may carry.
LEMMA CloseNotSent == CloseCommand \notin Sends
  BY SendsAssumption DEF CloseCommand, Request, SessionCommands, PlainCommands

\* Going on with a call that got an answer, or was refused, in detail.
LEMMA ContinueDetail ==
    ASSUME Inv, CallInv, NEW c \in Callers, Calling(c), gate[1] = c, NEW what \in Results,
           Continue(c, what), UNCHANGED <<chan, actor>>,
           \/ actor = "closed" /\ what # "ok"
           \/ what = answer[call[c].ticket].is /\ what # "none"
    PROVE  GoesOn(c) \/ EndsSend(c) \/ EndsClose(c)
<1>t. /\ call \in [Callers -> Call] /\ call[c] \in Call /\ result \in [Callers -> Results]
      /\ asked \in [Tickets -> Request \cup {NoRequest, CloseCommand}]
  BY DEF Inv, TypeOK
<1>k. call[c].ticket \in Tickets /\ Shape(call[c].op, asked[call[c].ticket])
  BY DEF Inv, CallShape
<1>1. Advances(c) \/ Leaves(c)
  BY ContinueCases
<1>n. (Leaves(c) => pc'[c] = "idle") /\ (Advances(c) => pc'[c] # "idle")
  BY DEF Leaves, Advances, Calling
<1>2. CASE call[c].op = "send" /\ ReturnSend(c)
  <2>1. pc'[c] = "idle" /\ call'[c] = NoCall
    BY <1>2, <1>t DEF ReturnSend, Inv, TypeOK
  <2> QED BY <1>1, <1>2, <1>n, <2>1 DEF EndsSend
<1>3. ASSUME NEW noted \in Call, noted.op = call[c].op, call[c].op # "send", NEW request,
             NextCommand(c, noted, request),
             call[c].op = "shutdown" => (noted.monitor = "ok" => what = "ok"),
             call[c].op = "reboot" => noted.reboot = call[c].reboot \/ (noted.reboot = "ok" => what = "ok"),
             asked[call[c].ticket].cmd \in Offs
      PROVE  GoesOn(c)
  <2>1. /\ pc'[c] = "submit" /\ call'[c].op = call[c].op
        /\ call'[c].monitor = noted.monitor /\ call'[c].reboot = noted.reboot
    BY <1>3, <1>t DEF NextCommand, Call, Inv, TypeOK
  <2>2. Advances(c)
    BY <1>1, <1>n, <2>1
  <2> QED BY <1>3, <2>1, <2>2 DEF GoesOn, Noted, Inv, Stopped
<1>4. CASE /\ call[c].op = "shutdown" /\ asked[call[c].ticket].cmd = "disable"
           /\ NextCommand(c, [call[c] EXCEPT !.monitor = what], CloseCommand)
  <2> DEFINE noted == [call[c] EXCEPT !.monitor = what]
  <2>1. noted \in Call /\ noted.op = call[c].op /\ noted.monitor = what
    BY <1>t DEF Call
  <2>2. NextCommand(c, noted, CloseCommand)
    BY <1>4
  <2> HIDE DEF noted
  <2> QED BY <1>3, <1>4, <2>1, <2>2 DEF Offs
<1>5. CASE /\ call[c].op = "reboot" /\ asked[call[c].ticket].cmd = "disable"
           /\ NextCommand(c, [call[c] EXCEPT !.monitor = what], Reboot)
  <2> DEFINE noted == [call[c] EXCEPT !.monitor = what]
  <2>1. noted \in Call /\ noted.op = call[c].op /\ noted.reboot = call[c].reboot
    BY <1>t DEF Call
  <2>2. NextCommand(c, noted, Reboot)
    BY <1>5
  <2> HIDE DEF noted
  <2> QED BY <1>3, <1>5, <2>1, <2>2 DEF Offs
<1>6. CASE /\ call[c].op = "reboot" /\ asked[call[c].ticket].cmd = "reboot"
           /\ NextCommand(c, [call[c] EXCEPT !.reboot = what], CloseCommand)
  <2> DEFINE noted == [call[c] EXCEPT !.reboot = what]
  <2>1. noted \in Call /\ noted.op = call[c].op /\ noted.reboot = what
    BY <1>t DEF Call
  <2>2. NextCommand(c, noted, CloseCommand)
    BY <1>6
  <2> HIDE DEF noted
  <2> QED BY <1>3, <1>6, <2>1, <2>2 DEF Offs
<1>7. CASE /\ call[c].op # "send" /\ asked[call[c].ticket].cmd = "close"
           /\ ReturnShutdown(c, IF what # "ok" THEN what
                                ELSE IF call[c].op = "reboot" THEN call[c].reboot
                                ELSE call[c].monitor)
  <2>1. asked[call[c].ticket] = CloseCommand /\ call[c].op \in {"shutdown", "reboot"}
    BY <1>7, <1>k, <1>t DEF Shape, Disable, Reboot, Call
  <2>2. actor # "run" /\ (what = "ok" => actor = "closed")
    BY <1>k, <2>1 DEF CallInv, CloseLast
  <2>3. /\ pc'[c] = "idle" /\ call'[c] = call[c]
        /\ result'[c] = IF what # "ok" THEN what
                        ELSE IF call[c].op = "reboot" THEN call[c].reboot ELSE call[c].monitor
    BY <1>7, <1>t DEF ReturnShutdown, Inv, TypeOK
  <2> QED BY <1>1, <1>7, <1>n, <2>1, <2>2, <2>3 DEF EndsClose, Noted
<1> QED BY <1>2, <1>4, <1>5, <1>6, <1>7 DEF Continue

\* Every step of a caller starts, submits, goes on with or ends its call.
LEMMA ClientDetail ==
    ASSUME Inv, CallInv, NEW c \in Callers, ClientStep(c)
    PROVE  /\ StartsCall(c) \/ Submit(c) \/ GoesOn(c) \/ EndsSend(c) \/ EndsClose(c)
           /\ TakesReply(c) /\ \A d \in Callers : d # c => result'[d] = result[d]
<1> DEFINE Kinds == StartsCall(c) \/ Submit(c) \/ GoesOn(c) \/ EndsSend(c) \/ EndsClose(c)
           Alone == \A d \in Callers : d # c => result'[d] = result[d]
<1>t. /\ call \in [Callers -> Call] /\ call[c] \in Call /\ result \in [Callers -> Results]
      /\ asked \in [Tickets -> Request \cup {NoRequest, CloseCommand}] /\ answer \in [Tickets -> Answer]
      /\ issued \in Nat /\ pc \in [Callers -> {"idle", "submit", "wait"}] /\ gate \in Seq(Callers)
  BY DEF Inv, TypeOK
<1>c. OthersStay(c) /\ (Begins(c) \/ Submit(c) \/ Advances(c) \/ Leaves(c)) /\ UNCHANGED actor
  BY ClientCases, ClientTouches DEF actorVars
<1>h. ASSUME HangUp(call[c].ticket), Calling(c)
      PROVE  \A t \in Tickets : \/ answer'[t] = answer[t]
                                \/ t = call[c].ticket /\ answer'[t] = Outcome("gone")
  BY <1>h, <1>t DEF HangUp
<1>r. ASSUME NEW w, Continue(c, w) PROVE Alone
  BY <1>r, <1>t DEF Continue, ReturnSend, ReturnShutdown, NextCommand
<1>1. ASSUME NEW op \in {"send", "shutdown", "reboot"}, NEW request, Begin(c, op, request),
             IF op = "send" THEN request \in Sends ELSE request = Disable
      PROVE  Kinds /\ TakesReply(c) /\ Alone
  <2>1. TakesReply(c) /\ Alone
    BY <1>1, <1>t DEF Begin, TakesReply
  <2>2. issued + 1 \in Tickets
    BY <1>1, <1>t, BoundsAssumption DEF Begin, TicketsOf, Tickets
  <2>3. /\ call'[c] = [op |-> op, ticket |-> issued + 1, monitor |-> "none",
                       reboot |-> IF op = "shutdown" THEN "ok" ELSE "none"]
        /\ asked'[issued + 1] = request /\ pc'[c] = "submit" /\ pc[c] = "idle"
    BY <1>1, <1>t, <2>2 DEF Begin
  <2>4. ~Noted(c)'
    BY <2>3 DEF Noted
  <2>5. Begins(c)
    BY <1>1, <2>3 DEF Begin, Begins, Calling
  <2>6. StartsCall(c)
    BY <1>1, <2>3, <2>4, <2>5 DEF StartsCall
  <2> QED BY <2>1, <2>6
<1>2. ASSUME NEW request \in Sends, Send(c, request) PROVE Kinds /\ TakesReply(c) /\ Alone
  BY <1>1, <1>2 DEF Send
<1>3. CASE Shutdown(c) \/ ShutdownAndReboot(c)
  BY <1>1, <1>3 DEF Shutdown, ShutdownAndReboot
<1>4. CASE Submit(c)
  BY <1>4 DEF Submit, TakesReply
<1>5. CASE SubmitRefused(c)
  <2>1. Calling(c) /\ actor = "closed" /\ UNCHANGED <<answer, chan>> /\ gate[1] = c
    BY <1>5, <1>t, CallerFacts, ElementsTail DEF SubmitRefused, Calling
  <2>2. TakesReply(c)
    BY <2>1 DEF TakesReply
  <2>3. ASSUME Continue(c, "closed") PROVE Kinds /\ Alone
    <3>1. GoesOn(c) \/ EndsSend(c) \/ EndsClose(c)
      BY <1>c, <2>1, <2>3, ContinueDetail DEF Results, Failures
    <3> QED BY <1>r, <2>3, <3>1
  <2>4. ASSUME asked[call[c].ticket] = CloseCommand,
               ReturnShutdown(c, FirstFailure(call[c].reboot, call[c].monitor, "clientClosed"))
        PROVE  Kinds /\ Alone
    <3>1. call[c].op # "send"
      BY <2>1, <2>4, CloseNotSent DEF CallInv, SendsAsked
    <3>2. pc'[c] = "idle" /\ call'[c] = call[c] /\ result'[c] # "ok" /\ Alone
      BY <2>4, <1>t DEF ReturnShutdown, FirstFailure
    <3>3. Leaves(c)
      BY <1>5, <1>c, <2>1, <3>2 DEF Begins, Advances, Submit, Calling
    <3> QED BY <2>1, <3>1, <3>2, <3>3 DEF EndsClose
  <2> QED BY <1>5, <2>2, <2>3, <2>4 DEF SubmitRefused
<1>6. CASE Resume(c)
  <2>1. Calling(c) /\ answer[call[c].ticket].is # "none" /\ UNCHANGED chan
    BY <1>6 DEF Resume, Calling
  <2>2. gate[1] = c
    BY <1>6, <2>1 DEF Resume, Inv, GateHolds
  <2>3. answer[call[c].ticket].is \in Results
    BY <2>1, CallerFacts DEF Results
  <2>4. GoesOn(c) \/ EndsSend(c) \/ EndsClose(c)
    BY <1>6, <1>c, <2>1, <2>2, <2>3, ContinueDetail DEF Resume
  <2>5. TakesReply(c)
    BY <1>6, <1>h, <2>1 DEF Resume, TakesReply
  <2> QED BY <1>6, <1>r, <2>4, <2>5 DEF Resume
<1>7. CASE Cancel(c)
  <2>1. Calling(c) /\ call[c].op = "send" /\ pc'[c] = "idle" /\ call'[c] = NoCall /\ UNCHANGED <<asked, result>>
    BY <1>7, <1>t DEF Cancel, Calling
  <2>2. TakesReply(c)
    BY <1>7, <1>h, <2>1 DEF Cancel, TakesReply
  <2>3. Leaves(c)
    BY <1>7, <1>c, <1>t, <2>1 DEF Begins, Advances, Submit, Calling
  <2> QED BY <2>1, <2>2, <2>3 DEF EndsSend
<1> QED BY <1>2, <1>3, <1>4, <1>5, <1>6, <1>7 DEF ClientStep

\* A caller that leaves does not change who holds the gate, unless it held it.
LEMMA HolderStays ==
    ASSUME Inv, OrderInv, NEW c \in Callers, NEW d \in Callers, d # c, gate[1] = d, Calling(d),
           Begins(c) \/ Submit(c) \/ Advances(c) \/ Leaves(c)
    PROVE  gate'[1] = d
<1>t. gate \in Seq(Callers) /\ gate # <<>> /\ Len(gate) \in Nat /\ Len(gate) >= 1
  BY CallerFacts DEF Inv, TypeOK
<1>1. CASE Begins(c)
  BY <1>1, <1>t DEF Begins
<1>2. CASE Submit(c) \/ Advances(c)
  BY <1>2 DEF Submit, Advances
<1>3. CASE Leaves(c)
  <2>1. PICK k \in 1..Len(gate) : gate[k] = c /\ gate' = RemoveAt(gate, k)
    BY <1>3 DEF Leaves
  <2>2. k # 1 /\ Len(gate) > 1
    BY <1>t, <2>1
  <2> QED BY <1>t, <2>1, <2>2, RemoveAtKeeps
<1> QED BY <1>1, <1>2, <1>3

-----------------------------------------------------------------------------
(***************************************************************************)
(* Where commands come from, and that close is the last one served.        *)
(***************************************************************************)
\* Tickets that are held or answered have had their turn.
LEMMA ServedPast ==
    ASSUME Inv, ConfirmInv
    PROVE  /\ Coming \subseteq Past /\ Coming \subseteq Underway /\ Past \subseteq Tickets
           /\ Underway \ {None} \subseteq Past
           /\ \A t \in Tickets : answer[t].is # "none" => t \in Past
           /\ \A t \in Elements(requests) \cup ({pending, farewell} \ {None}) : t \in Past
           /\ \A f \in Elements(incoming) : f.kind = "confirmation" => f.of \in Past
<1>1. farewell # None => farewell \in Past
  BY DEF Inv, TypeOK, FutureFree, Held, Past
<1> QED BY <1>1, PastTickets DEF ConfirmInv, TracesPast, Coming, Underway, Past

\* The ticket of a call that starts or goes on has not been answered.
LEMMA NextUnanswered ==
    ASSUME Inv', NEW c \in Callers, Calling(c)', pc'[c] = "submit"
    PROVE  call'[c].ticket \in Tickets /\ answer'[call'[c].ticket].is = "none"
<1>1. /\ call'[c].ticket \in Tickets /\ call'[c].ticket \in Nat /\ Last(c)' \in Nat
      /\ call'[c].ticket <= Last(c)'
  <2>1. (call[c].ticket \in Tickets)' /\ call'[c].op \in {"send", "shutdown", "reboot"}
    BY DEF Inv, CallShape, TypeOK, Call
  <2>2. call'[c].ticket \in Nat
    BY <2>1, BoundsAssumption DEF Tickets
  <2>3. Left(call'[c].op, asked'[call'[c].ticket].cmd) \in 0..2
    BY DEF Left
  <2> QED BY <2>1, <2>2, <2>3 DEF Last
<1>2. PICK t \in Tickets : t = call'[c].ticket
  BY <1>1
<1>3. Future(t)'
  BY <1>1, <1>2 DEF Future, Awaits
<1>4. (answer[t].is = "none")'
  BY <1>3 DEF Inv, FutureFree
<1> QED BY <1>2, <1>4

\* A step of a caller keeps where commands come from.
LEMMA CallClient ==
    ASSUME Inv, ConfirmInv, OrderInv, CallInv, NEW c \in Callers, ClientStep(c), [Next]_vars
    PROVE  CallInv'
<1>p. Past \subseteq Past' /\ \A t \in Past : asked'[t] = asked[t]
  BY PastStays
<1>a. UNCHANGED <<actor, requests, pending, farewell>>
  BY ClientTouches DEF actorVars
<1>o. OthersStay(c)
  BY ClientCases
<1>k. /\ StartsCall(c) \/ Submit(c) \/ GoesOn(c) \/ EndsSend(c) \/ EndsClose(c)
      /\ TakesReply(c)
  BY ClientDetail
<1>t. call \in [Callers -> Call] /\ pc \in [Callers -> {"idle", "submit", "wait"}] /\ gate \in Seq(Callers)
  BY DEF Inv, TypeOK
<1>s. Submit(c) => gate[1] = c /\ gate' = gate /\ call' = call /\ asked' = asked /\ Calling(c)
  BY <1>t, CallerFacts, ElementsTail DEF Submit, Calling
<1>1. SendsAsked'
  <2> SUFFICES ASSUME NEW d \in Callers, Calling(d)', call'[d].op = "send"
               PROVE  asked'[call'[d].ticket] \in Sends
    BY DEF SendsAsked
  <2>1. CASE d # c
    BY <2>1, <1>o DEF OthersStay, CallInv, SendsAsked
  <2>2. CASE d = c
    BY <2>2, <1>k, <1>s DEF StartsCall, GoesOn, EndsSend, EndsClose, Leaves, CallInv, SendsAsked
  <2> QED BY <2>1, <2>2
<1>2. CloserGated'
  <2> SUFFICES ASSUME NEW d \in Callers, Calling(d)', call'[d].op # "send",
                      asked'[call'[d].ticket].cmd # "disable"
               PROVE  gate'[1] = d
    BY DEF CloserGated, Closer
  <2>1. CASE d # c
    <3>1. Calling(d) /\ gate[1] = d
      BY <2>1, <1>o DEF OthersStay, CallInv, CloserGated, Closer
    <3> QED BY <2>1, <3>1, <1>k, HolderStays DEF StartsCall, GoesOn, EndsSend, EndsClose
  <2>2. CASE d = c
    BY <2>2, <1>k, <1>s DEF StartsCall, Disable, GoesOn, Advances, EndsSend, EndsClose, Leaves
  <2> QED BY <2>1, <2>2
<1>3. CloseLast'
  <2>1. farewell' # None => asked'[farewell'] = CloseCommand
    BY <1>a, <1>p, ServedPast DEF CallInv, CloseLast
  <2>2. ASSUME NEW t \in Tickets, asked'[t] = CloseCommand
        PROVE  /\ t \notin Elements(requests') \cup {pending'}
               /\ answer'[t].is # "none" => actor' # "run"
               /\ answer'[t].is = "ok" => actor' = "closed"
    <3>1. \/ answer'[t] = answer[t]
          \/ answer'[t] = Outcome("gone") /\ answer[t].is # "none"
      <4>1. CASE t = call[c].ticket /\ Calling(c) /\ call[c].op = "send" /\ UNCHANGED asked
        BY <2>2, <4>1, CloseNotSent DEF CallInv, SendsAsked
      <4> QED BY <1>k, <4>1 DEF TakesReply
    <3>2. t \in Past => asked[t] = CloseCommand
      BY <1>p, <2>2
    <3>3. t \in Elements(requests) \cup {pending} => t \in Past
      BY ServedPast DEF Tickets, None
    <3>4. answer'[t].is # "none" => t \in Past
      BY <3>1, ServedPast
    <3>5. answer'[t].is = "ok" => answer[t].is = "ok"
      BY <3>1 DEF Outcome
    <3> QED BY <1>a, <3>1, <3>2, <3>3, <3>4, <3>5 DEF CallInv, CloseLast
  <2> QED BY <2>1, <2>2 DEF CloseLast
<1> QED BY <1>1, <1>2, <1>3 DEF CallInv

\* How a step of the actor answers the ticket t.
Answers(t) ==
    \/ answer'[t] = answer[t]
    \/ actor' # "run" /\ answer'[t].is = "closed"
    \/ t = farewell /\ actor' = "closed"
    \/ /\ t \in Elements(requests) \cup {pending}
       /\ answer'[t].is = "ok" =>
              t = pending /\ \E f \in Elements(incoming) :
                                 /\ f.kind = "confirmation" /\ f.status # "undecodable"
                                 /\ asked[f.of].cmd = asked[t].cmd

\* What a step of the actor takes up, keeps and answers.
LEMMA ActorDetail ==
    ASSUME TypeOK, ActorStep
    PROVE  /\ UNCHANGED <<clientVars, gateway>> /\ actor # "closed" /\ (actor' = "run" => actor = "run")
           /\ \A t \in Tickets : Answers(t)
           /\ \A t \in Elements(requests') \cup {pending'} :
                  t \in Elements(requests) \cup {pending, None} \/ asked[t] # CloseCommand
           /\ farewell' \in {farewell, None} \/ asked[farewell'] = CloseCommand
           /\ Coming' \subseteq Coming
<1> DEFINE Same == UNCHANGED <<clientVars, gateway>> /\ actor # "closed" /\ (actor' = "run" => actor = "run")
           Answered == \A t \in Tickets : Answers(t)
           Taken == \A t \in Elements(requests') \cup {pending'} :
                        t \in Elements(requests) \cup {pending, None} \/ asked[t] # CloseCommand
           Farewell == farewell' \in {farewell, None} \/ asked[farewell'] = CloseCommand
           Ahead == Coming' \subseteq Coming
           Goal == Same /\ Answered /\ Taken /\ Farewell /\ Ahead
<1>t. /\ requests \in Seq(Tickets) /\ incoming \in Seq(Frame) /\ toGateway \in Seq(Tickets)
      /\ chan \in Seq(Tickets) /\ answer \in [Tickets -> Answer]
  BY DEF TypeOK
<1>q. /\ requests # <<>> => /\ Elements(requests) = {Head(requests)} \cup Elements(Tail(requests))
                            /\ Head(requests) \in Tickets
      /\ chan # <<>> => /\ Elements(chan) = {Head(chan)} \cup Elements(Tail(chan))
                        /\ Elements(Append(requests, Head(chan))) = Elements(requests) \cup {Head(chan)}
  BY <1>t, QueueFacts, HeadType
<1>e. Elements(<<>>) = {}
  BY ElementsEmpty
<1>s. ASSUME NEW also, NEW t, NEW why, Stop(also, t, why), actor = "run",
             t = None \/ asked[t] = CloseCommand
      PROVE  Goal
  <2>1. Answered
    BY <1>s DEF Stop, ReplyAll, Outcome, Answers
  <2>2. Taken /\ Ahead
    BY <1>s, <1>e DEF Stop, Coming
  <2> QED BY <1>s, <2>1, <2>2 DEF Stop
<1>1. CASE DispatchRefuse
  <2>1. actor = "run" /\ UNCHANGED <<clientVars, gateway, actor, pending, farewell, chan, toGateway>>
        /\ requests' = Tail(requests) /\ requests # <<>>
    BY <1>1 DEF DispatchRefuse, Dispatching, wireVars
  <2>2. \A t \in Tickets : answer'[t] = answer[t] \/ (t = Head(requests) /\ answer'[t].is # "ok")
    BY <1>1 DEF DispatchRefuse, Reply, ReplyAll, Outcome
  <2>3. Answered
    BY <1>q, <2>1, <2>2 DEF Answers
  <2>4. Taken /\ Ahead
    BY <1>q, <2>1 DEF Coming
  <2> QED BY <2>1, <2>3, <2>4
<1>2. CASE DispatchWrite
  <2>1. /\ actor = "run" /\ UNCHANGED <<clientVars, gateway, actor, farewell, chan, answer>>
        /\ requests' = Tail(requests) /\ requests # <<>> /\ pending' = Head(requests)
        /\ toGateway' \in {toGateway, Append(toGateway, Head(requests))}
    BY <1>2 DEF DispatchWrite, Dispatching
  <2>2. Elements(toGateway') \subseteq Elements(toGateway) \cup {Head(requests)}
    <3>1. Elements(Append(toGateway, Head(requests))) = Elements(toGateway) \cup {Head(requests)}
      BY <1>q, <1>t, <2>1, ElementsAppend
    <3> QED BY <2>1, <3>1
  <2>3. Taken /\ Ahead
    BY <1>q, <2>1, <2>2 DEF Coming
  <2> QED BY <2>1, <2>3 DEF Answers
<1>3. CASE DispatchFail
  BY <1>3, <1>s DEF DispatchFail, Dispatching
<1>4. CASE ReceiveSend
  <2>1. /\ actor = "run" /\ UNCHANGED <<clientVars, gateway, actor, farewell, pending, answer, toGateway>>
        /\ requests' = Append(requests, Head(chan)) /\ chan' = Tail(chan) /\ chan # <<>>
        /\ asked[Head(chan)] # CloseCommand
    BY <1>4 DEF ReceiveSend, Selecting, wireVars
  <2>2. Taken /\ Ahead
    BY <1>q, <2>1 DEF Coming
  <2> QED BY <2>1, <2>2 DEF Answers
<1>5. CASE ReceiveShutdown
  BY <1>5, <1>s DEF ReceiveShutdown, Selecting
<1>6. CASE ReceiveDropped \/ StreamEnded
  BY <1>6, <1>s DEF ReceiveDropped, StreamEnded, Selecting
<1>7. CASE HandleFrame
  <2> DEFINE f == Head(incoming)
  <2>1. /\ actor = "run" /\ UNCHANGED <<clientVars, gateway, actor, farewell, requests, chan, toGateway>>
        /\ incoming # <<>> /\ (Confirm(f) \/ Report(f))
    BY <1>7 DEF HandleFrame, Selecting
  <2>2. f \in Elements(incoming)
    BY <1>t, <2>1, ElementsTail
  <2>3. pending' \in {pending, None}
    BY <2>1 DEF Confirm, Report
  <2>4. Answered
    <3>1. CASE UNCHANGED answer
      BY <3>1 DEF Answers
    <3>2. CASE /\ f.kind = "confirmation" /\ ConfirmationOf(f.of) = ConfirmationOf(pending)
               /\ f.status # "undecodable" /\ Reply(pending, [is |-> "ok", of |-> f.of])
      BY <2>2, <3>2 DEF Reply, ReplyAll, Answers, ConfirmationOf
    <3>3. CASE Reply(pending, Outcome("undecodable"))
      BY <3>3 DEF Reply, ReplyAll, Answers, Outcome
    <3> QED BY <2>1, <3>1, <3>2, <3>3 DEF Confirm, Report
  <2>5. Taken /\ Ahead
    BY <2>1, <2>3 DEF Coming
  <2> QED BY <2>1, <2>4, <2>5
<1>8. ASSUME NEW late \in Tickets \cup {None}, NEW over \in SUBSET SessionIds, Tick(late, over)
      PROVE  Goal
  <2>1. /\ actor = "run" /\ UNCHANGED <<clientVars, gateway, actor, farewell, requests, chan, toGateway>>
        /\ pending' \in {pending, None}
        /\ UNCHANGED answer \/ Reply(pending, Outcome("timeout"))
    BY <1>8 DEF Tick, Selecting, wireVars
  <2>2. Answered
    BY <2>1 DEF Reply, ReplyAll, Answers, Outcome
  <2>3. Taken /\ Ahead
    BY <2>1 DEF Coming
  <2> QED BY <2>1, <2>2, <2>3
<1>9. ASSUME NEW what \in {"ok", "io"}, CloseStream(what) PROVE Goal
  <2>1. /\ actor = "closing" /\ actor' = "closed" /\ chan' = <<>>
        /\ UNCHANGED <<clientVars, gateway, farewell, requests, pending, toGateway>>
    BY <1>9 DEF CloseStream, wireVars
  <2>2. Answered
    BY <1>9 DEF CloseStream, Answers, Outcome
  <2>3. Taken /\ Ahead
    BY <2>1 DEF Coming
  <2> QED BY <2>1, <2>2, <2>3
<1> QED BY <1>1, <1>2, <1>3, <1>4, <1>5, <1>6, <1>7, <1>8, <1>9, ActorStep DEF ActorStep

\* A step of the actor keeps where commands come from.
LEMMA CallActor ==
    ASSUME Inv, CallInv, ActorStep
    PROVE  CallInv'
<1>1. TypeOK /\ None \notin Tickets
  BY UnderwayType DEF Inv
<1>2. /\ UNCHANGED <<pc, call, gate, asked>> /\ actor # "closed" /\ (actor' = "run" => actor = "run")
      /\ \A t \in Tickets : Answers(t)
      /\ \A t \in Elements(requests') \cup {pending'} :
             t \in Elements(requests) \cup {pending, None} \/ asked[t] # CloseCommand
      /\ farewell' \in {farewell, None} \/ asked[farewell'] = CloseCommand
  BY <1>1, ActorDetail DEF clientVars
<1>3. SendsAsked' /\ CloserGated'
  BY <1>2 DEF CallInv, SendsAsked, CloserGated, Closer, Calling
<1>4. CloseLast'
  BY <1>1, <1>2 DEF CallInv, CloseLast, Answers
<1> QED BY <1>3, <1>4 DEF CallInv

\* No call has begun and nothing is asked.
LEMMA CallInit == Init => CallInv
<1> SUFFICES ASSUME Init PROVE CallInv
  OBVIOUS
<1>1. \A t \in Tickets : asked[t] # CloseCommand
  BY DEF Init, NoRequest, CloseCommand
<1> QED BY <1>1 DEF Init, CallInv, SendsAsked, CloserGated, CloseLast, Closer, Calling

\* Every step keeps where commands come from.
LEMMA CallNext == Inv /\ ConfirmInv /\ OrderInv /\ CallInv /\ [Next]_vars => CallInv'
<1> SUFFICES ASSUME Inv, ConfirmInv, OrderInv, CallInv, [Next]_vars PROVE CallInv'
  OBVIOUS
<1>1. ASSUME UNCHANGED <<gate, pc, call, asked, answer, actor, requests, pending, farewell>> PROVE CallInv'
  BY <1>1 DEF CallInv, SendsAsked, CloserGated, CloseLast, Closer, Calling
<1>2. CASE GatewayStep
  BY <1>1, <1>2, GatewayTouches DEF Inv, clientVars, actorVars
<1>3. CASE DropClient \/ UNCHANGED vars
  BY <1>1, <1>3 DEF DropClient, vars, clientVars, actorVars
<1> QED BY <1>2, <1>3, CallClient, CallActor DEF Next

\* Sends carry only what a send may carry, a shutdown holds the gate from its first
\* confirmation on, and its close is the last command the actor serves.
THEOREM CloseServedLast == Spec => []CallInv
  BY CallInit, CallNext, Invariant, Confirmations, OrderKept, PTL DEF Spec

-----------------------------------------------------------------------------
(***************************************************************************)
(* The monitor.                                                            *)
(***************************************************************************)
\* Once a shutdown holds the gate, it holds it until the actor has stopped.
LEMMA GateStaysShut ==
    ASSUME Inv, OrderInv, CallInv, GateShut, [Next]_vars
    PROVE  GateShut' \/ actor' # "run"
<1>0. PICK h \in Callers : Closer(h) /\ gate[1] = h
  BY DEF GateShut
<1>1. ASSUME NEW c \in Callers, ClientStep(c) PROVE GateShut' \/ actor' # "run"
  <2>1. StartsCall(c) \/ Submit(c) \/ GoesOn(c) \/ EndsSend(c) \/ EndsClose(c)
    BY <1>1, ClientDetail
  <2>2. OthersStay(c) /\ UNCHANGED actor
    BY <1>1, ClientCases, ClientTouches DEF actorVars
  <2>3. CASE h # c
    <3>1. Closer(h)'
      BY <1>0, <2>2, <2>3 DEF OthersStay, Closer
    <3>2. gate'[1] = h
      BY <1>0, <2>1, <2>3, HolderStays DEF StartsCall, GoesOn, EndsSend, EndsClose, Closer
    <3> QED BY <3>1, <3>2 DEF GateShut
  <2>4. CASE h = c
    <3>1. CASE Submit(c)
      <4>1. call' = call /\ gate' = gate /\ Calling(c)'
        BY <3>1 DEF Submit, Calling, Inv, TypeOK
      <4> QED BY <1>0, <2>4, <4>1 DEF GateShut, Closer
    <3>2. CASE GoesOn(c)
      BY <1>0, <2>4, <3>2 DEF GoesOn, Advances, GateShut, Closer
    <3>3. CASE StartsCall(c) \/ EndsSend(c)
      BY <1>0, <2>4, <3>3 DEF StartsCall, Begins, EndsSend, Closer
    <3>4. CASE EndsClose(c)
      BY <2>2, <3>4 DEF EndsClose
    <3> QED BY <2>1, <3>1, <3>2, <3>3, <3>4
  <2> QED BY <2>3, <2>4
<1>2. ASSUME UNCHANGED <<gate, pc, call>> PROVE GateShut'
  BY <1>0, <1>2 DEF GateShut, Closer, Calling
<1>3. CASE ActorStep
  BY <1>2, <1>3, ActorMoves DEF clientVars
<1>4. CASE GatewayStep
  BY <1>2, <1>4, GatewayTouches DEF Inv, clientVars
<1>5. CASE DropClient \/ UNCHANGED vars
  BY <1>2, <1>5 DEF DropClient, vars, clientVars
<1> QED BY <1>1, <1>3, <1>4, <1>5 DEF Next

\* A caller that holds the gate to shut down submits no enable.
LEMMA CloserSubmits ==
    ASSUME Inv, NEW c \in Callers, Submit(c), GateShut
    PROVE  Closer(c) /\ asked[call[c].ticket].cmd # "enable"
<1>1. Calling(c) /\ gate[1] = c
  BY CallerFacts, ElementsTail DEF Submit, Calling, Inv, TypeOK
<1>2. Closer(c)
  BY <1>1 DEF GateShut
<1>3. Shape(call[c].op, asked[call[c].ticket])
  BY <1>1 DEF Inv, CallShape
<1> QED BY <1>2, <1>3 DEF Closer, Shape, Disable, Reboot, CloseCommand

\* What a caller's step adds to what is coming.
LEMMA ClientComing ==
    ASSUME Inv, NEW c \in Callers, ClientStep(c)
    PROVE  /\ UNCHANGED <<gateway, incoming, actor>>
           /\ \/ Coming' = Coming
              \/ Submit(c) /\ actor = "run" /\ Coming' = Coming \cup {call[c].ticket}
<1>1. UNCHANGED <<gateway, incoming, toGateway, requests, actor>>
  BY ClientTouches DEF actorVars, wireVars
<1>2. CASE Submit(c)
  <2>1. call[c].ticket \in Tickets /\ chan \in Seq(Tickets)
    BY <1>2, TicketFacts DEF Submit, Calling, Inv, TypeOK
  <2>2. Elements(chan') = Elements(chan) \cup {call[c].ticket}
    BY <1>2, <2>1, ElementsAppend DEF Submit
  <2> QED BY <1>1, <1>2, <2>2 DEF Coming
<1>3. CASE ~Submit(c)
  <2>1. UNCHANGED chan
    BY <1>3, ClientCases DEF Begins, Advances, Leaves
  <2> QED BY <1>1, <2>1 DEF Coming
<1> QED BY <1>1, <1>2, <1>3

\* The gateway switches its monitor on only for an enable, and confirms only what it did.
LEMMA GatewayMonitor ==
    ASSUME TypeOK, Ordered, OffThenNoneOn, GatewayStep
    PROVE  /\ Coming' \subseteq Coming
           /\ Quiet => Quiet'
           /\ \A f \in Elements(incoming') : f \in Elements(incoming) \/ ~OffFrame(f) \/ Quiet'
<1>t. /\ incoming \in Seq(Frame) /\ toGateway \in Seq(Tickets) /\ asked' = asked
      /\ gateway \in [link : {"up", "down"}, monitor : {"on", "off"},
                      sessions : SUBSET SessionIds, noise : 0..MaxNoise]
  BY GatewayTouches DEF TypeOK, clientVars
<1>c. UNCHANGED <<requests, chan, actor>> /\ Elements(toGateway') \subseteq Elements(toGateway)
  BY GatewayTouches DEF actorVars
<1>1. Coming' \subseteq Coming
  BY <1>c DEF Coming
<1>q. (Quiet /\ gateway'.monitor = "off") => Quiet'
  BY <1>t, <1>1 DEF Quiet
<1>d. ASSUME NEW f \in Frame, Deliver(f) PROVE Elements(incoming') \subseteq Elements(incoming) \cup {f}
  BY <1>d, <1>t, ElementsAppend DEF Deliver
<1>2. ASSUME NEW done \in BOOLEAN, NEW reply, GatewayReads(done, reply)
      PROVE  /\ Quiet => Quiet'
             /\ \A f \in Elements(incoming') : f \in Elements(incoming) \/ ~OffFrame(f) \/ Quiet'
  <2> DEFINE t == Head(toGateway)
  <2>1. toGateway # <<>> /\ toGateway' = Tail(toGateway) /\ t \in Tickets
        /\ Elements(toGateway) = {t} \cup Elements(Tail(toGateway)) /\ t \in Coming
    BY <1>2, <1>t, ElementsTail DEF GatewayReads, Coming
  <2>2. gateway'.monitor = IF done THEN Carried(t).monitor ELSE gateway.monitor
    BY <1>2, <1>t DEF GatewayReads, Carried
  <2>3. Carried(t).monitor = IF asked[t].cmd = "enable" THEN "on"
                             ELSE IF asked[t].cmd \in Offs THEN "off" ELSE gateway.monitor
    BY <1>t DEF Carried, Offs
  <2>4. Quiet => Quiet'
    BY <1>q, <2>1, <2>2, <2>3 DEF Quiet
  <2>5. ASSUME asked[t].cmd \in Offs, done PROVE Quiet'
    <3>1. gateway'.monitor = "off"
      BY <2>2, <2>3, <2>5 DEF Offs
    <3>2. Before({t}, Elements(Tail(toGateway)))
      BY <2>1, UnderwayType, IncreasingTail DEF Ordered
    <3>3. \A u \in Elements(requests) \cup Elements(chan) : t < u
      BY <2>1 DEF Ordered, Before
    <3>4. \A u \in Coming' : t < u /\ u \in Coming
      BY <1>1, <1>c, <2>1, <3>2, <3>3 DEF Coming, Before
    <3>5. \A u \in Coming' : asked[u].cmd # "enable"
      BY <2>1, <2>5, <3>4 DEF OffThenNoneOn
    <3> QED BY <1>t, <3>1, <3>5 DEF Quiet
  <2>6. asked[t].cmd \in Offs => asked[t].session = NoSession
    <3>1. \A r \in Request \cup {NoRequest, CloseCommand} : r.cmd \in Offs => r.session = NoSession
      BY DEF Request, NoRequest, CloseCommand, Offs, SessionCommands
    <3>2. asked[t] \in Request \cup {NoRequest, CloseCommand}
      BY <2>1 DEF TypeOK
    <3> QED BY <3>1, <3>2
  <2>7. \A status \in {"accepted", "rejected", "undecodable"} :
            /\ Confirmation(t, status) \in Frame
            /\ Confirmation(t, status).of = t /\ Confirmation(t, status).status = status
    BY <2>1 DEF Confirmation, Frame
  <2>8. \/ UNCHANGED incoming
        \/ done /\ Deliver(Confirmation(t, "accepted"))
        \/ asked[t].session # NoSession /\ Deliver(Confirmation(t, "rejected"))
        \/ Deliver(Confirmation(t, "undecodable"))
    BY <1>2 DEF GatewayReads
  <2>9. ASSUME NEW f \in Elements(incoming'), OffFrame(f), f \notin Elements(incoming) PROVE Quiet'
    <3>1. f.status # "undecodable" /\ asked[f.of].cmd \in Offs
      BY <2>9 DEF OffFrame
    <3> QED BY <1>d, <2>5, <2>6, <2>7, <2>8, <2>9, <3>1
  <2> QED BY <2>4, <2>9
<1>3. ASSUME NEW f \in Frame, f.kind # "confirmation", Deliver(f), gateway'.monitor = gateway.monitor
      PROVE  /\ Quiet => Quiet'
             /\ \A g \in Elements(incoming') : g \in Elements(incoming) \/ ~OffFrame(g) \/ Quiet'
  BY <1>3, <1>d, <1>q DEF Quiet, OffFrame
<1>4. ASSUME NEW s \in SessionIds, GatewayFinishes(s)
      PROVE  /\ Quiet => Quiet'
             /\ \A g \in Elements(incoming') : g \in Elements(incoming) \/ ~OffFrame(g) \/ Quiet'
  <2> DEFINE f == [kind |-> "finished", of |-> None, session |-> s, status |-> "accepted"]
  <2>1. f \in Frame /\ f.kind # "confirmation"
    BY DEF Frame
  <2>2. Deliver(f) /\ gateway'.monitor = gateway.monitor
    BY <1>4, <1>t DEF GatewayFinishes
  <2> HIDE DEF f
  <2> QED BY <1>3, <2>1, <2>2
<1>5. ASSUME NEW kind \in {"notification", "malformed"}, GatewayNoise(kind)
      PROVE  /\ Quiet => Quiet'
             /\ \A g \in Elements(incoming') : g \in Elements(incoming) \/ ~OffFrame(g) \/ Quiet'
  <2> DEFINE f == [kind |-> kind, of |-> None, session |-> NoSession, status |-> "accepted"]
  <2>1. f \in Frame /\ f.kind # "confirmation"
    BY DEF Frame
  <2>2. Deliver(f) /\ gateway'.monitor = gateway.monitor
    BY <1>5, <1>t DEF GatewayNoise
  <2> HIDE DEF f
  <2> QED BY <1>3, <2>1, <2>2
<1>6. CASE LinkLost
  <2> DEFINE f == [kind |-> "closed", of |-> None, session |-> NoSession, status |-> "accepted"]
  <2>1. f \in Frame /\ f.kind # "confirmation"
    BY DEF Frame
  <2>2. Deliver(f) /\ gateway'.monitor = gateway.monitor
    BY <1>6, <1>t DEF LinkLost
  <2> HIDE DEF f
  <2> QED BY <1>1, <1>3, <2>1, <2>2
<1> QED BY <1>1, <1>2, <1>4, <1>5, <1>6, GatewayStep DEF GatewayStep

\* While the monitor is off, only the submission of an enable can change that.
LEMMA QuietStays ==
    ASSUME Inv, ConfirmInv, OrderInv, OffThenNoneOn, Quiet, [Next]_vars,
           \A c \in Callers : (Submit(c) /\ actor = "run") => asked[call[c].ticket].cmd # "enable"
    PROVE  Quiet'
<1>p. \A t \in Coming : asked'[t] = asked[t]
  BY PastStays, ServedPast
<1>0. ASSUME gateway' = gateway, Coming' \subseteq Coming PROVE Quiet'
  BY <1>0, <1>p DEF Quiet
<1>1. ASSUME NEW c \in Callers, ClientStep(c) PROVE Quiet'
  <2>1. CASE Coming' = Coming
    BY <1>0, <1>1, <2>1, ClientComing
  <2>2. CASE Submit(c) /\ actor = "run" /\ Coming' = Coming \cup {call[c].ticket}
    <3>1. asked' = asked /\ gateway' = gateway
      BY <2>2 DEF Submit, wireVars
    <3> QED BY <2>2, <3>1 DEF Quiet
  <2> QED BY <1>1, <2>1, <2>2, ClientComing
<1>2. CASE ActorStep
  BY <1>0, <1>2, ActorDetail DEF Inv
<1>3. CASE GatewayStep
  BY <1>3, GatewayMonitor DEF Inv, OrderInv
<1>4. CASE DropClient \/ UNCHANGED vars
  <2>1. UNCHANGED <<gateway, toGateway, requests, chan, actor>>
    BY <1>4 DEF DropClient, vars, actorVars, wireVars
  <2> QED BY <1>0, <2>1 DEF Coming
<1> QED BY <1>1, <1>2, <1>3, <1>4 DEF Next

\* Once the actor has stopped, or a shutdown holds the gate, it stays off.
LEMMA SealedStays ==
    ASSUME Inv, ConfirmInv, OrderInv, CallInv, OffThenNoneOn, Sealed, [Next]_vars
    PROVE  Sealed'
<1>1. \A c \in Callers : (Submit(c) /\ actor = "run") => asked[call[c].ticket].cmd # "enable"
  BY CloserSubmits DEF Sealed
<1>2. Quiet'
  BY <1>1, QuietStays DEF Sealed
<1>3. actor' = "run" => actor = "run"
  <2>1. \A c \in Callers : ClientStep(c) => UNCHANGED actor
    BY ClientTouches DEF actorVars
  <2>2. GatewayStep => UNCHANGED actor
    BY GatewayTouches DEF Inv, actorVars
  <2>3. ActorStep => (actor' = "run" => actor = "run")
    BY ActorDetail DEF Inv
  <2>4. (DropClient \/ UNCHANGED vars) => UNCHANGED actor
    BY DEF DropClient, vars, actorVars
  <2> QED BY <2>1, <2>2, <2>3, <2>4 DEF Next
<1>4. actor' = "run" => GateShut'
  BY <1>3, GateStaysShut DEF Sealed
<1> QED BY <1>2, <1>4 DEF Sealed

\* A step of a caller keeps what is known of the monitor.
LEMMA OffClient ==
    ASSUME Inv, Inv', ConfirmInv, OrderInv, CallInv, OffInv, EnablesWhenQuiet,
           NEW c \in Callers, ClientStep(c), [Next]_vars
    PROVE  OffInv'
<1>p. /\ \A t \in Coming : asked'[t] = asked[t] /\ t \in Underway \ {None}
      /\ \A f \in Elements(incoming) : f.kind = "confirmation" => asked'[f.of] = asked[f.of]
  BY PastStays, ServedPast, UnderwayType DEF Inv
<1>s. Sealed => Sealed'
  BY SealedStays DEF OffInv
<1>o. OthersStay(c)
  BY ClientCases
<1>k. /\ StartsCall(c) \/ Submit(c) \/ GoesOn(c) \/ EndsSend(c) \/ EndsClose(c)
      /\ TakesReply(c) /\ \A d \in Callers : d # c => result'[d] = result[d]
  BY ClientDetail
<1>c. /\ UNCHANGED <<gateway, incoming, actor>>
      /\ \/ Coming' = Coming
         \/ Submit(c) /\ actor = "run" /\ Coming' = Coming \cup {call[c].ticket}
  BY ClientComing
<1>b. Submit(c) => /\ asked' = asked /\ call' = call /\ Calling(c)' /\ Calling(c) /\ pc[c] = "submit"
                   /\ UNCHANGED answer
  BY DEF Submit, Calling, Inv, TypeOK
<1>1. OffThenNoneOn'
  <2>1. CASE Coming' = Coming
    BY <1>p, <2>1 DEF OffInv, OffThenNoneOn
  <2>2. CASE Submit(c) /\ actor = "run" /\ Coming' = Coming \cup {call[c].ticket}
    <3> DEFINE new == call[c].ticket
    <3>1. \A t \in Coming : t < new /\ t \in Nat
      BY <1>b, <1>p, <2>2, UnderwayIssued DEF OrderInv, Trails
    <3>2. new \in Nat /\ ~(new < new)
      BY <1>b, <2>2, TicketFacts
    <3>3. asked[new].cmd = "enable" => \A t \in Coming : asked[t].cmd \notin Offs
      BY <1>p, <2>2 DEF EnablesWhenQuiet, OffUnderway
    <3>4. \A t \in Coming : ~(new < t)
      BY <3>1, <3>2
    <3>5. asked' = asked
      BY <1>b, <2>2
    <3> QED BY <2>2, <3>2, <3>3, <3>4, <3>5 DEF OffInv, OffThenNoneOn
  <2> QED BY <1>c, <2>1, <2>2
<1>2. OffFrames'
  <2> SUFFICES ASSUME NEW f \in Elements(incoming'), OffFrame(f)' PROVE Quiet'
    BY DEF OffFrames
  <2>1. f \in Elements(incoming) /\ OffFrame(f)
    BY <1>c, <1>p DEF OffFrame
  <2>2. Quiet
    BY <2>1 DEF OffInv, OffFrames
  <2>3. \A d \in Callers : (Submit(d) /\ actor = "run") => asked[call[d].ticket].cmd # "enable"
    BY <2>1 DEF EnablesWhenQuiet, OffUnderway
  <2> QED BY <2>2, <2>3, QuietStays DEF OffInv
<1>3. OffAnswers'
  <2> SUFFICES ASSUME NEW d \in Callers, Calling(d)', call'[d].op # "send",
                      asked'[call'[d].ticket].cmd \in Offs, answer'[call'[d].ticket].is = "ok"
               PROVE  Sealed'
    BY DEF OffAnswers, Closer
  <2>1. CASE d # c
    <3>1. Calling(d) /\ call'[d] = call[d] /\ asked'[call[d].ticket] = asked[call[d].ticket]
      BY <2>1, <1>o DEF OthersStay
    <3>2. answer[call[d].ticket].is = "ok"
      <4>1. call[d].ticket \in Tickets
        BY <3>1, TicketFacts
      <4> QED BY <1>k, <3>1, <4>1 DEF TakesReply, Outcome
    <3> QED BY <1>s, <3>1, <3>2 DEF OffInv, OffAnswers, Closer
  <2>2. CASE d = c /\ Submit(c)
    BY <1>b, <1>s, <2>2 DEF OffInv, OffAnswers, Closer
  <2>3. CASE d = c /\ (StartsCall(c) \/ GoesOn(c))
    <3>1. pc'[c] = "submit"
      BY <2>3 DEF StartsCall, Begins, GoesOn, Advances
    <3> QED BY <2>3, <3>1, NextUnanswered
  <2>4. CASE d = c /\ (EndsSend(c) \/ EndsClose(c))
    BY <2>4 DEF EndsSend, EndsClose, Leaves
  <2> QED BY <1>k, <2>1, <2>2, <2>3, <2>4
<1>4. OffNoted'
  <2> SUFFICES ASSUME NEW d \in Callers, Noted(d)' PROVE Sealed'
    BY DEF OffNoted
  <2>1. CASE d # c
    BY <1>o, <1>s, <2>1 DEF OthersStay, OffInv, OffNoted, Noted
  <2>2. CASE d = c
    <3>1. CASE Submit(c) \/ EndsClose(c)
      BY <1>b, <1>s, <2>2, <3>1 DEF EndsClose, OffInv, OffNoted, Noted
    <3>2. CASE StartsCall(c) \/ EndsSend(c)
      BY <2>2, <3>2 DEF StartsCall, EndsSend, NoCall, Noted
    <3>3. CASE GoesOn(c)
      BY <1>s, <2>2, <3>3 DEF GoesOn, Advances, OffInv, OffNoted, OffAnswers, Closer
    <3> QED BY <1>k, <3>1, <3>2, <3>3
  <2> QED BY <2>1, <2>2
<1>5. OffReturned'
  <2> SUFFICES ASSUME NEW d \in Callers, ShutdownSucceeded(d)' PROVE actor' = "closed" /\ Noted(d)'
    BY DEF OffReturned
  <2>1. CASE d # c
    BY <1>c, <1>k, <1>o, <2>1 DEF OthersStay, OffInv, OffReturned, ShutdownSucceeded, Noted
  <2>2. CASE d = c
    <3>1. ~Calling(c)' /\ call'[c].op # "send" /\ result'[c] = "ok"
      BY <2>2 DEF ShutdownSucceeded, Calling
    <3>2. EndsClose(c)
      BY <1>b, <1>k, <3>1 DEF StartsCall, Begins, GoesOn, Advances, EndsSend, NoCall
    <3> QED BY <1>c, <2>2, <3>1, <3>2 DEF EndsClose, Noted
  <2> QED BY <2>1, <2>2
<1> QED BY <1>1, <1>2, <1>3, <1>4, <1>5 DEF OffInv

\* A step of the actor keeps what is known of the monitor.
LEMMA OffActor ==
    ASSUME Inv, ConfirmInv, OrderInv, CallInv, OffInv, ActorStep, [Next]_vars
    PROVE  OffInv'
<1>t. TypeOK /\ None \notin Tickets
  BY UnderwayType DEF Inv
<1>d. /\ UNCHANGED <<clientVars, gateway>> /\ actor # "closed" /\ (actor' = "run" => actor = "run")
      /\ \A t \in Tickets : Answers(t)
      /\ Coming' \subseteq Coming
  BY <1>t, ActorDetail
<1>u. UNCHANGED <<gate, pc, call, result, asked>>
  BY <1>d DEF clientVars
<1>i. Elements(incoming') \subseteq Elements(incoming)
  BY <1>t, ActorTouches
<1>q. Quiet => Quiet'
  BY <1>d, <1>u DEF Quiet
<1>s. Sealed => Sealed'
  BY SealedStays DEF OffInv
<1>1. OffThenNoneOn'
  BY <1>d, <1>u DEF OffInv, OffThenNoneOn
<1>2. OffFrames'
  BY <1>i, <1>q, <1>u DEF OffInv, OffFrames, OffFrame
<1>3. OffAnswers'
  <2> SUFFICES ASSUME NEW c \in Callers, Closer(c), asked[call[c].ticket].cmd \in Offs,
                      answer'[call[c].ticket].is = "ok"
               PROVE  Sealed'
    BY <1>u DEF OffAnswers, Closer, Calling
  <2> DEFINE t == call[c].ticket
  <2>1. t \in Tickets /\ Answers(t) /\ Calling(c)
    BY <1>d, TicketFacts DEF Closer
  <2>2. CASE answer'[t] = answer[t]
    BY <1>s, <2>2 DEF OffInv, OffAnswers
  <2>3. t # farewell
    BY <2>1, <1>t DEF CallInv, CloseLast, CloseCommand, Offs
  <2>4. CASE t = pending /\ \E f \in Elements(incoming) :
                                /\ f.kind = "confirmation" /\ f.status # "undecodable"
                                /\ asked[f.of].cmd = asked[t].cmd
    <3>1. Quiet
      BY <2>4 DEF OffInv, OffFrames, OffFrame
    <3>2. pc[c] = "wait"
      <4>1. t \in Held /\ ~Future(t)
        BY <2>1, <2>4 DEF Held, Inv, FutureFree
      <4>2. t \in Nat /\ t <= Last(c) /\ pc[c] \in {"submit", "wait"}
        BY <2>1, TicketFacts DEF Inv, TypeOK, Calling
      <4> QED BY <2>1, <4>1, <4>2 DEF Future, Awaits
    <3>3. gate[1] = c
      BY <2>1, <3>2 DEF Inv, GateHolds
    <3>4. Sealed
      BY <3>1, <3>3 DEF Sealed, GateShut
    <3> QED BY <1>s, <3>4
  <2> QED BY <2>1, <2>2, <2>3, <2>4 DEF Answers
<1>4. OffNoted'
  BY <1>s, <1>u DEF OffInv, OffNoted, Noted
<1>5. OffReturned'
  BY <1>d, <1>u DEF OffInv, OffReturned, ShutdownSucceeded
<1> QED BY <1>1, <1>2, <1>3, <1>4, <1>5 DEF OffInv

\* Nothing is underway initially and no shutdown has returned.
LEMMA OffInit == Init => OffInv
<1> SUFFICES ASSUME Init PROVE OffInv
  OBVIOUS
<1>1. Coming = {} /\ Elements(incoming) = {}
  BY ElementsEmpty DEF Init, Coming
<1>2. \A c \in Callers : ~Noted(c) /\ ~Closer(c) /\ ~ShutdownSucceeded(c)
  BY DEF Init, NoCall, Noted, Closer, Calling, ShutdownSucceeded
<1> QED BY <1>1, <1>2 DEF OffInv, OffThenNoneOn, OffFrames, OffAnswers, OffNoted, OffReturned

\* Every step under the assumption keeps what is known of the monitor.
LEMMA OffNext ==
    /\ Inv /\ Inv' /\ ConfirmInv /\ OrderInv /\ CallInv /\ OffInv
    /\ [Next]_vars /\ [EnablesWhenQuiet]_vars
    => OffInv'
<1> SUFFICES ASSUME Inv, Inv', ConfirmInv, OrderInv, CallInv, OffInv,
                    [Next]_vars, [EnablesWhenQuiet]_vars
             PROVE  OffInv'
  OBVIOUS
<1>s. Sealed => Sealed'
  BY SealedStays DEF OffInv
<1>1. ASSUME NEW c \in Callers, ClientStep(c), ~UNCHANGED vars PROVE OffInv'
  BY <1>1, OffClient
<1>2. CASE GatewayStep
  <2>1. UNCHANGED <<gate, pc, call, result, asked, answer, actor>>
    BY <1>2, GatewayTouches DEF Inv, clientVars, actorVars
  <2>2. /\ Coming' \subseteq Coming
        /\ Quiet => Quiet'
        /\ \A f \in Elements(incoming') : f \in Elements(incoming) \/ ~OffFrame(f) \/ Quiet'
    BY <1>2, GatewayMonitor DEF Inv, OrderInv, OffInv
  <2>3. OffThenNoneOn' /\ OffFrames'
    BY <2>1, <2>2 DEF OffInv, OffThenNoneOn, OffFrames, OffFrame
  <2>4. OffAnswers' /\ OffNoted' /\ OffReturned'
    BY <1>s, <2>1 DEF OffInv, OffAnswers, OffNoted, OffReturned, Noted, Closer, Calling, ShutdownSucceeded
  <2> QED BY <2>3, <2>4 DEF OffInv
<1>3. CASE DropClient \/ UNCHANGED vars
  <2>1. UNCHANGED <<gate, pc, call, result, asked, answer, actor, toGateway, requests, chan, incoming, gateway>>
    BY <1>3 DEF DropClient, vars, clientVars, actorVars, wireVars
  <2>2. Coming' = Coming /\ (Quiet' <=> Quiet)
    BY <2>1 DEF Coming, Quiet
  <2>3. OffThenNoneOn' /\ OffFrames'
    BY <2>1, <2>2 DEF OffInv, OffThenNoneOn, OffFrames, OffFrame
  <2>4. OffAnswers' /\ OffNoted' /\ OffReturned'
    BY <1>s, <2>1 DEF OffInv, OffAnswers, OffNoted, OffReturned, Noted, Closer, Calling, ShutdownSucceeded
  <2> QED BY <2>3, <2>4 DEF OffInv
<1> QED BY <1>1, <1>2, <1>3, OffActor DEF Next

\* What is known of the monitor gives the property.
LEMMA OffIsClean == OffInv => ShutdownIsClean
  BY DEF OffInv, OffReturned, OffNoted, Sealed, Quiet, ShutdownIsClean

\* A shutdown, or shutdown_and_reboot, that returns Ok has closed the stream and left
\* the monitor off, if no task submits an enable while a request to switch the monitor
\* off or its confirmation is underway.
THEOREM ShutdownsAreClean == Spec /\ [][EnablesWhenQuiet]_vars => []ShutdownIsClean
<1>1. Spec /\ [][EnablesWhenQuiet]_vars => []OffInv
  BY OffInit, OffNext, Invariant, Confirmations, OrderKept, CloseServedLast, PTL DEF Spec
<1> QED BY <1>1, OffIsClean, PTL

-----------------------------------------------------------------------------
(***************************************************************************)
(* A client that switches the monitor off by its shutdowns only keeps the  *)
(* assumption: while such a request is underway the gate is shut.          *)
(***************************************************************************)
OffHeld == (actor = "run" /\ OffUnderway) => GateShut

\* A step brings a request underway only by submitting it.
LEMMA OffComes ==
    ASSUME Inv, ConfirmInv, OrderInv, [Next]_vars, OffUnderway'
    PROVE  \/ OffUnderway
           \/ \E c \in Callers : Submit(c) /\ asked[call[c].ticket].cmd \in Offs
<1>p. /\ \A t \in Underway \ {None} : asked'[t] = asked[t]
      /\ \A f \in Elements(incoming) : f.kind = "confirmation" => asked'[f.of] = asked[f.of]
  BY PastStays, ServedPast
<1>0. ASSUME Underway' \subseteq Underway \cup {None},
             \A f \in Elements(incoming') :
                 f \in Elements(incoming) \/ f.kind # "confirmation" \/ f.of \in Underway \ {None}
      PROVE  OffUnderway
  <2>1. CASE \E t \in Underway' \ {None} : asked'[t].cmd \in Offs
    BY <1>0, <1>p, <2>1 DEF OffUnderway
  <2>2. ASSUME NEW f \in Elements(incoming'), OffFrame(f)' PROVE OffUnderway
    <3>1. f.kind = "confirmation" /\ f.status # "undecodable" /\ asked'[f.of].cmd \in Offs
      BY <2>2 DEF OffFrame
    <3> QED BY <1>0, <1>p, <2>2, <3>1 DEF OffUnderway, OffFrame
  <2> QED BY <2>1, <2>2 DEF OffUnderway
<1>1. ASSUME NEW c \in Callers, ClientStep(c)
      PROVE  OffUnderway \/ (Submit(c) /\ asked[call[c].ticket].cmd \in Offs)
  <2>1. UNCHANGED <<toGateway, requests, pending, incoming>>
    BY <1>1, ClientTouches DEF actorVars, wireVars
  <2>2. CASE ~Submit(c)
    <3>1. UNCHANGED chan
      BY <1>1, <2>2, ClientCases DEF Begins, Advances, Leaves
    <3> QED BY <1>0, <2>1, <3>1 DEF Underway
  <2>3. CASE Submit(c) /\ asked[call[c].ticket].cmd \notin Offs
    <3>1. call[c].ticket \in Tickets /\ chan \in Seq(Tickets) /\ asked' = asked
      BY <2>3, TicketFacts DEF Submit, Calling, Inv, TypeOK
    <3>2. Elements(chan') = Elements(chan) \cup {call[c].ticket}
      BY <2>3, <3>1, ElementsAppend DEF Submit
    <3>3. Underway' = Underway \cup {call[c].ticket}
      BY <2>1, <3>2 DEF Underway
    <3> QED BY <2>1, <2>3, <3>1, <3>3 DEF OffUnderway, OffFrame
  <2> QED BY <2>2, <2>3
<1>2. CASE ActorStep
  <2>1. Underway' \subseteq Underway \cup {None}
    BY <1>2, ActorMoves, MovesOrdered DEF Inv, OrderInv
  <2>2. Elements(incoming') \subseteq Elements(incoming)
    BY <1>2, ActorTouches DEF Inv
  <2> QED BY <1>0, <2>1, <2>2
<1>3. CASE GatewayStep
  <2>1. Underway' \subseteq Underway
    BY <1>3, GatewayOrdered DEF Inv, OrderInv
  <2>2. \A f \in Elements(incoming') :
            f \in Elements(incoming) \/ f.kind # "confirmation" \/ f.of \in Elements(toGateway)
    BY <1>3, GatewayTouches DEF Inv
  <2>3. Elements(toGateway) \subseteq Underway \ {None}
    BY UnderwayType DEF Underway, Inv
  <2> QED BY <1>0, <2>1, <2>2, <2>3
<1>4. CASE DropClient \/ UNCHANGED vars
  <2>1. UNCHANGED <<toGateway, requests, chan, pending, incoming>>
    BY <1>4 DEF DropClient, vars, actorVars, wireVars
  <2> QED BY <1>0, <2>1 DEF Underway
<1> QED BY <1>1, <1>2, <1>3, <1>4 DEF Next

\* The gate is shut while a request to switch the monitor off is underway.
LEMMA OffHeldNext ==
    ASSUME Disable \notin Sends, Reboot \notin Sends
    PROVE  Inv /\ ConfirmInv /\ OrderInv /\ CallInv /\ OffHeld /\ [Next]_vars => OffHeld'
<1> SUFFICES ASSUME Inv, ConfirmInv, OrderInv, CallInv, OffHeld, [Next]_vars,
                    actor' = "run", OffUnderway'
             PROVE  GateShut'
  BY DEF OffHeld
<1>1. actor = "run"
  <2>1. \A c \in Callers : ClientStep(c) => UNCHANGED actor
    BY ClientTouches DEF actorVars
  <2>2. GatewayStep => UNCHANGED actor
    BY GatewayTouches DEF Inv, actorVars
  <2>3. ActorStep => actor = "run"
    BY ActorDetail DEF Inv
  <2>4. (DropClient \/ UNCHANGED vars) => UNCHANGED actor
    BY DEF DropClient, vars, actorVars
  <2> QED BY <2>1, <2>2, <2>3, <2>4 DEF Next
<1>2. CASE OffUnderway
  BY <1>1, <1>2, GateStaysShut DEF OffHeld
<1>3. ASSUME NEW c \in Callers, Submit(c), asked[call[c].ticket].cmd \in Offs PROVE GateShut'
  <2>1. Calling(c) /\ gate[1] = c /\ call[c].ticket \in Tickets
    BY <1>3, CallerFacts, ElementsTail DEF Submit, Calling, Inv, TypeOK
  <2>2. asked[call[c].ticket] \in {Disable, Reboot}
    <3>1. asked[call[c].ticket] \in Request \cup {NoRequest, CloseCommand}
      BY <2>1 DEF Inv, TypeOK
    <3>2. \A r \in Request \cup {NoRequest, CloseCommand} : r.cmd \in Offs => r \in {Disable, Reboot}
      BY DEF Request, NoRequest, CloseCommand, Offs, SessionCommands, PlainCommands, Disable, Reboot
    <3> QED BY <1>3, <3>1, <3>2
  <2>3. GateShut
    BY <2>1, <2>2 DEF CallInv, SendsAsked, GateShut, Closer
  <2> QED BY <2>3, GateStaysShut
<1> QED BY <1>2, <1>3, OffComes

\* Such a client keeps the assumption.
LEMMA OffHeldQuiet == Inv /\ OffHeld => EnablesWhenQuiet
<1> SUFFICES ASSUME Inv, OffHeld, NEW c \in Callers, Submit(c), actor = "run",
                    asked[call[c].ticket].cmd = "enable", OffUnderway
             PROVE  FALSE
  BY DEF EnablesWhenQuiet
<1> QED BY CloserSubmits DEF OffHeld

\* A shutdown that returns Ok has closed the stream and left the monitor off, whatever
\* the callers send besides, if they switch the monitor off by shutdowns only.
THEOREM OnlyShutdownsDisable ==
    (Disable \notin Sends /\ Reboot \notin Sends) => (Spec => []ShutdownIsClean)
<1> SUFFICES ASSUME Disable \notin Sends, Reboot \notin Sends PROVE Spec => []ShutdownIsClean
  OBVIOUS
<1>1. Init => OffHeld
  BY ElementsEmpty DEF Init, OffHeld, OffUnderway, Underway
<1>2. Inv /\ ConfirmInv /\ OrderInv /\ CallInv /\ OffHeld /\ [Next]_vars => OffHeld'
  BY OffHeldNext
<1>3. Spec => []OffHeld
  BY <1>1, <1>2, Invariant, Confirmations, OrderKept, CloseServedLast, PTL DEF Spec
<1>4. Inv /\ OffHeld => [EnablesWhenQuiet]_vars
  BY OffHeldQuiet
<1>5. Spec => [][EnablesWhenQuiet]_vars
  BY <1>3, <1>4, Invariant, PTL
<1> QED BY <1>5, ShutdownsAreClean, PTL
=============================================================================
