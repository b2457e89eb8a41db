-------------------------- MODULE MCKlfConnection --------------------------
(***************************************************************************)
(* Instances of KlfConnection for TLC.                                     *)
(***************************************************************************)
EXTENDS KlfConnection, TLC

CONSTANTS c1, c2, s1, s2

Ask(cmd, session) == [cmd |-> cmd, session |-> session]

\* One request without a session, which switches the monitor on, and two
\* sessions of the same command.
MCSends == {Ask("enable", NoSession), Ask("command", s1), Ask("command", s2)}

\* A request that is confirmed without a session, one with, one that is refused.
MCLiveSends == {Ask("state", NoSession), Ask("command", s1), Ask("invalid", NoSession)}

\* The heartbeat request alone.
MCStateSends == {Ask("state", NoSession)}

MCCallers == {c1, c2}
MCOneCaller == {c1}
MCSessions == {s1, s2}
MCSymmetry == Permutations(MCCallers) \cup Permutations(MCSessions)
=============================================================================
