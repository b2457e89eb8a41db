---------------------------- MODULE SerialCalls ----------------------------
(***************************************************************************)
(* What the connection actor promises its callers: submitted requests form *)
(* one queue, they are started one at a time and in order, each is settled *)
(* at most once, and a stop settles whatever is left; only the request to  *)
(* stop itself is settled last, and nothing starts after the stop.         *)
(***************************************************************************)
EXTENDS Integers, Sequences

CONSTANT Tickets    \* positive numbers

VARIABLES
    queue,      \* submitted requests that have not started
    current,    \* the request in progress, None if there is none
    settled,    \* requests whose caller has a reply, or no longer wants one
    stopped     \* the actor accepts nothing more to start

vars == <<queue, current, settled, stopped>>

None == 0
Members(s) == {s[i] : i \in 1..Len(s)}

Init ==
    /\ queue = <<>>
    /\ current = None
    /\ settled = {}
    /\ stopped = FALSE

Submit(t) ==
    /\ t \notin settled /\ t # current /\ t \notin Members(queue)
    /\ queue' = Append(queue, t)
    /\ UNCHANGED <<current, settled, stopped>>

GiveUp(t) ==
    /\ settled' = settled \cup {t}
    /\ UNCHANGED <<queue, current, stopped>>

Ready == ~stopped /\ current = None /\ queue # <<>>

Refuse ==
    /\ Ready
    /\ settled' = settled \cup {Head(queue)}
    /\ queue' = Tail(queue)
    /\ UNCHANGED <<current, stopped>>

Start ==
    /\ Ready
    /\ current' = Head(queue)
    /\ queue' = Tail(queue)
    /\ UNCHANGED <<settled, stopped>>

Finish ==
    /\ ~stopped /\ current # None
    /\ settled' = settled \cup {current}
    /\ current' = None
    /\ UNCHANGED <<queue, stopped>>

\* `last` is the request to stop, which is settled when the stop is complete.
Stop(last) ==
    /\ ~stopped /\ last \in Members(queue) \cup {None}
    /\ stopped' = TRUE
    /\ settled' = settled \cup ((Members(queue) \cup {current}) \ {last, None})
    /\ queue' = <<>>
    /\ current' = last

Close ==
    /\ stopped
    /\ settled' = settled \cup ((Members(queue) \cup {current}) \ {None})
    /\ queue' = <<>>
    /\ current' = None
    /\ UNCHANGED stopped

Next ==
    \/ \E t \in Tickets : Submit(t) \/ GiveUp(t)
    \/ Refuse \/ Start \/ Finish \/ Close
    \/ \E last \in Tickets \cup {None} : Stop(last)

Spec == Init /\ [][Next]_vars
=============================================================================
