------------------------- MODULE SessionIdAllocator -------------------------
(***************************************************************************)
(* SessionIdAllocator of src/klf200/types.rs: a cursor that goes round the *)
(* non-zero identifiers and the set of active ones.  allocate is a loop of *)
(* at most MaxId probes; each iteration is a step here (the allocator is   *)
(* exclusively borrowed, so nothing else happens in between).  MaxId is    *)
(* u16::MAX in the code.                                                   *)
(***************************************************************************)
EXTENDS Integers, FiniteSets

CONSTANT MaxId

ASSUME MaxIdAssumption == MaxId \in Nat \ {0}

VARIABLES
    next,       \* the next candidate
    active,     \* identifiers in use
    probes,     \* iterations the running allocate has done
    phase,      \* "scanning" while an allocate is running, else "idle"
    first,      \* history: the candidate with which the running allocate began
    outcome     \* the identifier of the last success of allocate or reserve, or Refused

vars == <<next, active, probes, phase, first, outcome>>

Ids == 1..MaxId
Refused == 0

\* new, default and starting_at.
Init ==
    /\ next \in Ids
    /\ active = {}
    /\ probes = 0 /\ phase = "idle" /\ first = next
    /\ outcome = Refused

Allocate ==
    /\ phase = "idle"
    /\ phase' = "scanning" /\ probes' = 0 /\ first' = next
    /\ UNCHANGED <<next, active, outcome>>

\* Mutant of After: the cursor wraps to zero.
AfterThroughZero(candidate) == IF candidate = MaxId THEN 0 ELSE candidate + 1

\* Mutant of After: the cursor wraps one early and never reaches MaxId.
AfterShort(candidate) == IF candidate >= MaxId - 1 THEN 1 ELSE candidate + 1

After(candidate) == IF candidate = MaxId THEN 1 ELSE candidate + 1

ProbeFree ==
    /\ phase = "scanning" /\ probes < MaxId
    /\ next \notin active
    /\ active' = active \cup {next}
    /\ outcome' = next
    /\ next' = After(next)
    /\ phase' = "idle" /\ probes' = 0
    /\ UNCHANGED first

ProbeTaken ==
    /\ phase = "scanning" /\ probes < MaxId
    /\ next \in active
    /\ next' = After(next)
    /\ probes' = probes + 1
    /\ UNCHANGED <<active, phase, first, outcome>>

\* Mutant of Exhausted: the loop gives up one probe early.
ExhaustedEarly ==
    /\ phase = "scanning" /\ probes = MaxId - 1
    /\ phase' = "idle" /\ probes' = 0
    /\ outcome' = Refused
    /\ UNCHANGED <<next, active, first>>

Exhausted ==
    /\ phase = "scanning" /\ probes = MaxId
    /\ phase' = "idle" /\ probes' = 0
    /\ outcome' = Refused
    /\ UNCHANGED <<next, active, first>>

\* reserve succeeds; when the identifier is active it fails and changes nothing.
Reserve(s) ==
    /\ phase = "idle" /\ s \notin active
    /\ active' = active \cup {s}
    /\ outcome' = s
    /\ UNCHANGED <<next, probes, phase, first>>

Release(s) ==
    /\ phase = "idle"
    /\ active' = active \ {s}
    /\ UNCHANGED <<next, probes, phase, first, outcome>>

Next ==
    \/ Allocate \/ ProbeFree \/ ProbeTaken \/ Exhausted
    \/ \E s \in Ids : Reserve(s) \/ Release(s)

Spec == Init /\ [][Next]_vars

-----------------------------------------------------------------------------
\* The cursor, the active identifiers and the outcome are never outside 1..MaxId
\* (zero only as the refusal): SessionId promises a non-zero 16-bit value.
TypeOK ==
    /\ next \in Ids
    /\ active \in SUBSET Ids
    /\ probes \in 0..MaxId
    /\ phase \in {"idle", "scanning"}
    /\ first \in Ids
    /\ outcome \in Ids \cup {Refused}

\* The identifiers a running allocate has found taken: a stretch of the circle.
Scanned ==
    IF first + probes <= MaxId + 1
    THEN first..(first + probes - 1)
    ELSE (first..MaxId) \cup (1..(first + probes - 1 - MaxId))

\* allocate passes over an identifier only if it is in use: what it has scanned
\* is active, so the identifier it returns is the first free one after the cursor
\* and it has been round the whole circle when it gives up.
ScanIsActive == phase = "scanning" => Scanned \subseteq active

\* The allocator is a pool of identifiers: allocate and reserve hand out only what
\* nobody holds, and allocate fails only when all MaxId identifiers are active.
Pool == INSTANCE IdPool WITH Ids <- Ids, held <- active, granted <- outcome
ImplementsIdPool == Pool!Spec
=============================================================================
