------------------------------- MODULE IdPool -------------------------------
(***************************************************************************)
(* What a pool of session identifiers promises: an identifier is handed    *)
(* out only while nobody holds it, and a request for one is turned down    *)
(* only when every identifier is held.                                     *)
(***************************************************************************)
CONSTANT Ids

VARIABLES
    held,       \* identifiers that are handed out or reserved
    granted     \* the identifier of the last grant, Nothing after a refusal

vars == <<held, granted>>

Nothing == 0

Init == held = {} /\ granted = Nothing

Grant(s) == s \notin held /\ held' = held \cup {s} /\ granted' = s
Refuse == held = Ids /\ granted' = Nothing /\ UNCHANGED held
Return(s) == held' = held \ {s} /\ UNCHANGED granted

Next == (\E s \in Ids : Grant(s) \/ Return(s)) \/ Refuse

Spec == Init /\ [][Next]_vars
=============================================================================
