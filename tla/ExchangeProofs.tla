--------------------------- MODULE ExchangeProofs ---------------------------
(***************************************************************************)
(* Proofs about SessionIdAllocator, KlfFrame, KlfRequests, KlfResponses,   *)
(* Exchange and Discovery, for every number of identifiers, of frames in   *)
(* flight and of buffered events.                                          *)
(***************************************************************************)
EXTENDS Discovery, SequenceLemmas

(***************************************************************************)
(* The allocator.  The inductive invariant says where the cursor of a      *)
(* running allocate is: `probes` places after `first` on the circle, with  *)
(* everything between them active.                                         *)
(***************************************************************************)

\* Where `probes` steps lead from `first`.
Cursor == IF first + probes <= MaxId THEN first + probes ELSE first + probes - MaxId

Inv ==
    /\ TypeOK
    /\ phase = "scanning" => next = Cursor
    /\ ScanIsActive

\* The cursor stays on the circle.
LEMMA AfterInIds == \A s \in Ids : After(s) \in Ids
  BY MaxIdAssumption DEF Ids, After

\* A scan that has probed every place has seen every identifier.
LEMMA FullScan ==
    ASSUME first \in Ids, probes = MaxId
    PROVE  Ids \subseteq Scanned
  BY MaxIdAssumption DEF Ids, Scanned

\* The invariant holds initially.
LEMMA InvInit == Init => Inv
  BY MaxIdAssumption DEF Init, Inv, TypeOK, Ids, Refused, ScanIsActive

\* Every iteration of allocate, reserve and release keeps the invariant.
LEMMA InvNext == Inv /\ [Next]_vars => Inv'
<1> SUFFICES ASSUME Inv, [Next]_vars PROVE Inv'
  OBVIOUS
<1> USE MaxIdAssumption
<1>t. TypeOK
  BY DEF Inv
<1>1. CASE Allocate
  <2>1. TypeOK'
    BY <1>1, <1>t DEF Allocate, TypeOK
  <2>2. (phase = "scanning" => next = Cursor)'
    BY <1>1, <1>t DEF Allocate, TypeOK, Cursor, Ids
  <2>3. Scanned' = {}
    BY <1>1, <1>t DEF Allocate, TypeOK, Scanned, Ids
  <2> QED BY <2>1, <2>2, <2>3 DEF Inv, ScanIsActive
<1>2. CASE ProbeFree
  <2>1. After(next) \in Ids
    BY <1>t, AfterInIds DEF TypeOK
  <2> QED BY <1>2, <1>t, <2>1 DEF ProbeFree, TypeOK, Inv, ScanIsActive, Ids, Refused
<1>3. CASE ProbeTaken
  <2>1. TypeOK'
    BY <1>3, <1>t, AfterInIds DEF ProbeTaken, TypeOK
  <2>2. next = Cursor /\ Scanned \subseteq active
    BY <1>3 DEF Inv, ScanIsActive, ProbeTaken
  <2>3. (next = Cursor)'
    BY <1>3, <1>t, <2>2 DEF ProbeTaken, TypeOK, Cursor, After, Ids
  <2>4. Scanned' \subseteq Scanned \cup {next}
    BY <1>3, <1>t, <2>2 DEF ProbeTaken, TypeOK, Scanned, Cursor, Ids
  <2>5. ScanIsActive'
    BY <1>3, <2>2, <2>4 DEF ProbeTaken, ScanIsActive
  <2> QED BY <2>1, <2>3, <2>5 DEF Inv
<1>4. CASE Exhausted
  BY <1>4, <1>t DEF Exhausted, TypeOK, Inv, ScanIsActive, Ids, Refused
<1>5. ASSUME NEW s \in Ids, Reserve(s) PROVE Inv'
  BY <1>5, <1>t DEF Reserve, TypeOK, Inv, ScanIsActive, Ids, Refused
<1>6. ASSUME NEW s \in Ids, Release(s) PROVE Inv'
  BY <1>6, <1>t DEF Release, TypeOK, Inv, ScanIsActive, Ids, Refused
<1>7. CASE UNCHANGED vars
  BY <1>7 DEF vars, Inv, TypeOK, ScanIsActive, Scanned, Cursor
<1> QED BY <1>1, <1>2, <1>3, <1>4, <1>5, <1>6, <1>7 DEF Next

\* The inductive invariant, for every MaxId.
THEOREM Invariant == Spec => []Inv
  BY InvInit, InvNext, PTL DEF Spec

\* The cursor and every identifier are in 1..MaxId, for every MaxId.
THEOREM TypeCorrect == Spec => []TypeOK
<1>1. Inv => TypeOK
  BY DEF Inv
<1> QED BY <1>1, Invariant, PTL

\* allocate passes over active identifiers only, for every MaxId.
THEOREM ScanCorrect == Spec => []ScanIsActive
<1>1. Inv => ScanIsActive
  BY DEF Inv
<1> QED BY <1>1, Invariant, PTL

\* The allocator implements the pool: what it hands out was free, and it gives up
\* only when every identifier is active.
THEOREM Refinement == Spec => ImplementsIdPool
<1>1. Init => Pool!Init
  BY DEF Init, Pool!Init, Refused, Pool!Nothing
<1>2. Inv /\ [Next]_vars => [Pool!Next]_(Pool!vars)
  <2> SUFFICES ASSUME Inv, [Next]_vars PROVE [Pool!Next]_(Pool!vars)
    OBVIOUS
  <2> USE DEF Pool!vars
  <2>1. CASE Allocate
    BY <2>1 DEF Allocate
  <2>2. CASE ProbeFree
    <3>1. next \in Ids
      BY DEF Inv, TypeOK
    <3>2. Pool!Grant(next)
      BY <2>2 DEF ProbeFree, Pool!Grant
    <3> QED BY <3>1, <3>2 DEF Pool!Next
  <2>3. CASE ProbeTaken
    BY <2>3 DEF ProbeTaken
  <2>4. CASE Exhausted
    <3>1. Ids \subseteq Scanned
      BY <2>4, FullScan DEF Exhausted, Inv, TypeOK
    <3>2. active = Ids
      BY <2>4, <3>1 DEF Exhausted, Inv, TypeOK, ScanIsActive
    <3>3. Pool!Refuse
      BY <2>4, <3>2 DEF Exhausted, Pool!Refuse, Refused, Pool!Nothing
    <3> QED BY <3>3 DEF Pool!Next
  <2>5. ASSUME NEW s \in Ids, Reserve(s) PROVE Pool!Next
    <3>1. Pool!Grant(s)
      BY <2>5 DEF Reserve, Pool!Grant
    <3> QED BY <3>1 DEF Pool!Next
  <2>6. ASSUME NEW s \in Ids, Release(s) PROVE Pool!Next
    <3>1. Pool!Return(s)
      BY <2>6 DEF Release, Pool!Return
    <3> QED BY <3>1 DEF Pool!Next
  <2>7. CASE UNCHANGED vars
    BY <2>7 DEF vars
  <2> QED BY <2>1, <2>2, <2>3, <2>4, <2>5, <2>6, <2>7 DEF Next
<1> QED BY <1>1, <1>2, Invariant, PTL DEF Spec, ImplementsIdPool, Pool!Spec

-----------------------------------------------------------------------------
(***************************************************************************)
(* The allocator within the exchange.                                      *)
(***************************************************************************)

\* Every step of a discovery is a step of the allocator or leaves it alone.
LEMMA AllocatorSteps ==
    ASSUME [DiscoveryNext]_discoveryVars
    PROVE  [Next]_vars
<1> SUFFICES Next \/ UNCHANGED allocator
  BY DEF allocator, vars
<1>1. CASE ExchangeStep
  <2>1. CASE Send
    BY <2>1 DEF Send, Dispatch
  <2>2. CASE AllocatorStep
    BY <2>2 DEF AllocatorStep
  <2>3. CASE Noise
    BY <2>3, SMTT(30) DEF Noise
  <2>5. CASE Carry
    BY <2>5, Zenon DEF Carry
  <2>4. CASE GatewayAccepts \/ GatewayAnswers \/ GatewayFinishes \/ expire_sessions
    BY <2>4 DEF GatewayAccepts, GatewayAnswers, GatewayFinishes, expire_sessions
  <2> QED BY <1>1, <2>1, <2>2, <2>3, <2>4, <2>5 DEF ExchangeStep
<1>2. CASE GatewayStreams \/ GatewayNotifies \/ GatewayChatters \/ Begin
  BY <1>2 DEF GatewayStreams, GatewayNotifies, GatewayChatters, Begin
<1>3. CASE Ask \/ AskOrphaned
  BY <1>3 DEF Ask, AskOrphaned, Dispatch
<1>4. CASE Receive \/ Expire
  BY <1>4 DEF Receive, Expire, handle_frame, expire_request
<1>5. CASE AskExpires \/ ReadAnswer \/ Collect \/ GiveUp \/ Drop \/ Disconnect
  BY <1>5 DEF AskExpires, ReadAnswer, Collect, GiveUp, Drop, Disconnect
<1>6. CASE UNCHANGED discoveryVars
  BY <1>6 DEF discoveryVars
<1> QED BY <1>1, <1>2, <1>3, <1>4, <1>5, <1>6 DEF DiscoveryNext

\* What is proved of the allocator alone holds of the one the client uses: its
\* identifiers are in 1..MaxId, it passes over active ones only, and it hands out what
\* nobody holds and gives up only when all are held.
THEOREM AllocatorInside ==
    DiscoverySpec => []TypeOK /\ []ScanIsActive /\ ImplementsIdPool
<1>1. DiscoveryInit => Init
  BY DEF DiscoveryInit, ExchangeInit
<1>2. [DiscoveryNext]_discoveryVars => [Next]_vars
  BY AllocatorSteps
<1>3. DiscoverySpec => Spec
  BY <1>1, <1>2, PTL DEF DiscoverySpec, Spec
<1> QED BY <1>3, TypeCorrect, ScanCorrect, Refinement, PTL

-----------------------------------------------------------------------------
(***************************************************************************)
(* The frame envelope.                                                     *)
(***************************************************************************)
Octets == {x \in Nat : x <= 255}
Weights == {1, 2, 4, 8, 16, 32, 64, 128}
Commands == {c \in Nat : c \div 256 <= 255}
Envelopes == [command : Commands, payload : {p \in Seq(Octets) : Len(p) <= MAX_PAYLOAD_LENGTH}]

\* Bytes are numbers.
LEMMA OctetsInt == \A x \in Octets : x \in Int /\ 0 <= x /\ x <= 255
BY DEF Octets

\* A bit is zero or one.
LEMMA BitRange ==
    ASSUME NEW byte \in Int, NEW w \in Weights
    PROVE  Bit(byte, w) \in {0, 1}
<1>1. w \in Int /\ w > 0
  BY DEF Weights
<1>2. byte \div w \in Int
  BY <1>1
<1> QED BY <1>2 DEF Bit

\* Two bytes with the same bits are the same byte.
LEMMA BitsTell ==
    ASSUME NEW a \in Octets, NEW b \in Octets, \A w \in Weights : Bit(a, w) = Bit(b, w)
    PROVE  a = b
<1>1. ASSUME NEW x \in Octets
      PROVE  x = Bit(x, 1) + 2 * Bit(x, 2) + 4 * Bit(x, 4) + 8 * Bit(x, 8) + 16 * Bit(x, 16)
                 + 32 * Bit(x, 32) + 64 * Bit(x, 64) + 128 * Bit(x, 128)
  BY SMTT(60) DEF Bit, Octets
<1>2. /\ Bit(a, 1) = Bit(b, 1) /\ Bit(a, 2) = Bit(b, 2) /\ Bit(a, 4) = Bit(b, 4)
      /\ Bit(a, 8) = Bit(b, 8) /\ Bit(a, 16) = Bit(b, 16) /\ Bit(a, 32) = Bit(b, 32)
      /\ Bit(a, 64) = Bit(b, 64) /\ Bit(a, 128) = Bit(b, 128)
  BY DEF Weights
<1> QED BY <1>1, <1>2

\* The places where a bit is set are finitely many.
LEMMA PlacesFinite ==
    ASSUME NEW n \in Nat, NEW s, DOMAIN s = 1..n, NEW w
    PROVE  LET S == {i \in DOMAIN s : Bit(s[i], w) = 1}
           IN  IsFiniteSet(S) /\ Cardinality(S) \in Nat
<1> DEFINE S == {i \in DOMAIN s : Bit(s[i], w) = 1}
<1>1. IsFiniteSet(1..n)
  BY FS_Interval
<1>2. S \subseteq 1..n
  OBVIOUS
<1>3. IsFiniteSet(S)
  BY <1>1, <1>2, FS_Subset
<1> QED BY <1>3, FS_CardinalityType

\* A changed bit changes the parity.
LEMMA ParityChanges ==
    ASSUME NEW n \in Nat, NEW s \in [1..n -> Octets], NEW i \in 1..n, NEW b \in Octets,
           NEW w \in Weights, Bit(b, w) # Bit(s[i], w)
    PROVE  Parity([s EXCEPT ![i] = b], w) # Parity(s, w)
<1> DEFINE r == [s EXCEPT ![i] = b]
           S == {j \in DOMAIN s : Bit(s[j], w) = 1}
           R == {j \in DOMAIN r : Bit(r[j], w) = 1}
<1>1. DOMAIN s = 1..n /\ DOMAIN r = 1..n /\ r[i] = b /\ \A j \in 1..n : j # i => r[j] = s[j]
  OBVIOUS
<1>2. IsFiniteSet(S) /\ Cardinality(S) \in Nat /\ IsFiniteSet(R) /\ Cardinality(R) \in Nat
  BY <1>1, PlacesFinite
<1>3. Bit(b, w) \in {0, 1} /\ Bit(s[i], w) \in {0, 1}
  <2>1. b \in Int /\ s[i] \in Int
    <3>1. s[i] \in Octets
      OBVIOUS
    <3> QED BY <3>1, OctetsInt
  <2> QED BY <2>1, BitRange
<1>4. \/ i \notin S /\ R = S \cup {i}
      \/ i \notin R /\ S = R \cup {i}
  BY <1>1, <1>3
<1> HIDE DEF S, R
<1>5. Cardinality(R) = Cardinality(S) + 1 \/ Cardinality(S) = Cardinality(R) + 1
  BY <1>2, <1>4, FS_AddElement
<1>6. Cardinality(R) % 2 # Cardinality(S) % 2
  BY <1>2, <1>5
<1> QED BY <1>6 DEF Parity, R, S

\* The parity is a bit.
LEMMA ParityRange ==
    ASSUME NEW n \in Nat, NEW s, DOMAIN s = 1..n, NEW w
    PROVE  Parity(s, w) \in {0, 1}
<1> DEFINE S == {i \in DOMAIN s : Bit(s[i], w) = 1}
<1>1. Cardinality(S) \in Nat
  BY PlacesFinite
<1> HIDE DEF S
<1>2. Cardinality(S) % 2 \in {0, 1}
  BY <1>1
<1> QED BY <1>2 DEF Parity, S

\* Eight bits make a byte, and another byte when one of them is another.
Weighed(f) ==
    f[1] + 2 * f[2] + 4 * f[4] + 8 * f[8] + 16 * f[16] + 32 * f[32] + 64 * f[64] + 128 * f[128]
\* The weighted sum of eight bits is a byte, and it determines each of them.
LEMMA WeighBits ==
    ASSUME NEW p \in [Weights -> {0, 1}], NEW q \in [Weights -> {0, 1}]
    PROVE  Weighed(p) \in Octets /\ (Weighed(p) = Weighed(q) => \A w \in Weights : p[w] = q[w])
<1>1. /\ p[1] \in {0, 1} /\ p[2] \in {0, 1} /\ p[4] \in {0, 1} /\ p[8] \in {0, 1}
      /\ p[16] \in {0, 1} /\ p[32] \in {0, 1} /\ p[64] \in {0, 1} /\ p[128] \in {0, 1}
      /\ q[1] \in {0, 1} /\ q[2] \in {0, 1} /\ q[4] \in {0, 1} /\ q[8] \in {0, 1}
      /\ q[16] \in {0, 1} /\ q[32] \in {0, 1} /\ q[64] \in {0, 1} /\ q[128] \in {0, 1}
  BY DEF Weights
<1> QED BY <1>1, SMTT(60) DEF Weights, Octets, Weighed

\* The checksum is a byte.
LEMMA ChecksumByte ==
    ASSUME NEW n \in Nat, NEW s, DOMAIN s = 1..n
    PROVE  checksum(s) \in Octets
<1> DEFINE p == [w \in Weights |-> Parity(s, w)]
<1>1. p \in [Weights -> {0, 1}]
  BY ParityRange
<1>2. /\ p[1] = Parity(s, 1) /\ p[2] = Parity(s, 2) /\ p[4] = Parity(s, 4) /\ p[8] = Parity(s, 8)
      /\ p[16] = Parity(s, 16) /\ p[32] = Parity(s, 32) /\ p[64] = Parity(s, 64)
      /\ p[128] = Parity(s, 128)
  BY DEF Weights
<1> HIDE DEF p
<1>3. checksum(s) = Weighed(p)
  BY <1>2 DEF checksum, Weighed
<1> QED BY <1>1, <1>3, WeighBits

\* One changed byte changes the checksum.
LEMMA ChecksumChanges ==
    ASSUME NEW n \in Nat, NEW s \in [1..n -> Octets], NEW i \in 1..n, NEW b \in Octets, b # s[i]
    PROVE  checksum([s EXCEPT ![i] = b]) # checksum(s)
<1> DEFINE r == [s EXCEPT ![i] = b]
           p == [w \in Weights |-> Parity(s, w)]
           q == [w \in Weights |-> Parity(r, w)]
<1>1. DOMAIN s = 1..n /\ DOMAIN r = 1..n
  OBVIOUS
<1>2. PICK w \in Weights : Bit(b, w) # Bit(s[i], w)
  BY BitsTell
<1>3. p[w] # q[w]
  BY <1>2, ParityChanges
<1> HIDE DEF r
<1>4. p \in [Weights -> {0, 1}] /\ q \in [Weights -> {0, 1}]
  BY <1>1, ParityRange
<1>5. /\ p[1] = Parity(s, 1) /\ p[2] = Parity(s, 2) /\ p[4] = Parity(s, 4) /\ p[8] = Parity(s, 8)
      /\ p[16] = Parity(s, 16) /\ p[32] = Parity(s, 32) /\ p[64] = Parity(s, 64)
      /\ p[128] = Parity(s, 128)
      /\ q[1] = Parity(r, 1) /\ q[2] = Parity(r, 2) /\ q[4] = Parity(r, 4) /\ q[8] = Parity(r, 8)
      /\ q[16] = Parity(r, 16) /\ q[32] = Parity(r, 32) /\ q[64] = Parity(r, 64)
      /\ q[128] = Parity(r, 128)
  BY DEF Weights
<1> HIDE DEF p, q
<1>6. checksum(s) = Weighed(p) /\ checksum(r) = Weighed(q)
  BY <1>5 DEF checksum, Weighed
<1>7. checksum(s) # checksum(r)
  BY <1>3, <1>4, <1>6, WeighBits
<1> QED BY <1>7 DEF r

\* The two bytes of a command.
LEMMA CommandBytes ==
    ASSUME NEW c \in Commands
    PROVE  c \div 256 \in Octets /\ c % 256 \in Octets /\ (c \div 256) * 256 + (c % 256) = c
<1>1. /\ c \div 256 \in Int /\ 0 <= c \div 256 /\ c \div 256 <= 255
      /\ c % 256 \in Int /\ 0 <= c % 256 /\ c % 256 <= 255
      /\ (c \div 256) * 256 + (c % 256) = c
  BY SMTT(30) DEF Commands
<1> QED BY <1>1 DEF Octets

\* What is on the wire of a frame, byte by byte.
OnWire(wire, c, p, n) ==
    /\ n \in Nat /\ wire \in Seq(Octets) /\ Len(wire) = n + 5
    /\ Front(wire) \in Seq(Octets) /\ Len(Front(wire)) = n + 4
    /\ \A i \in 1..(n + 4) : Front(wire)[i] = wire[i]
    /\ wire[1] = 0 /\ wire[2] = n + 3 /\ wire[3] = c \div 256 /\ wire[4] = c % 256
    /\ \A i \in 1..n : wire[i + 4] = p[i]
    /\ wire[n + 5] = checksum(Front(wire))

\* Such is an encoding.
LEMMA Encoded ==
    ASSUME NEW frame, NEW c \in Commands, frame.command = c,
           NEW p \in Seq(Octets), NEW n, n = Len(p), n <= 252, frame.payload = p,
           NEW wire, wire = encode(frame)
    PROVE  OnWire(wire, c, p, n)
<1>1. n \in Nat
  OBVIOUS
<1>2. PICK h, l : h = c \div 256 /\ l = c % 256
  OBVIOUS
<1>3. PICK head : head = <<0, n + 3, h, l>>
  OBVIOUS
<1>4. h \in Octets /\ l \in Octets /\ 0 \in Octets /\ n + 3 \in Octets
  <2>1. h \in Octets /\ l \in Octets
    BY <1>2, CommandBytes
  <2>2. 0 \in Octets /\ n + 3 \in Octets
    BY <1>1 DEF Octets
  <2> QED BY <2>1, <2>2
<1>5. head \in Seq(Octets) /\ Len(head) = 4
  BY <1>3, <1>4
<1>6. head[1] = 0 /\ head[2] = n + 3 /\ head[3] = h /\ head[4] = l
  BY <1>3
<1>7. PICK body : body = head \o p
  OBVIOUS
<1>8. wire = Append(body, checksum(body))
  <2>1. PayloadFits(Len(frame.payload))
    BY DEF PayloadFits, MAX_PAYLOAD_LENGTH
  <2>2. encode(frame) = Append(<<KLF_PROTOCOL_ID, Len(frame.payload) + PAYLOAD_LENGTH_OVERHEAD,
                               frame.command \div 256, frame.command % 256>> \o frame.payload,
                               checksum(<<KLF_PROTOCOL_ID, Len(frame.payload) + PAYLOAD_LENGTH_OVERHEAD,
                               frame.command \div 256, frame.command % 256>> \o frame.payload))
    BY <2>1, Zenon DEF encode
  <2>3. <<KLF_PROTOCOL_ID, Len(frame.payload) + PAYLOAD_LENGTH_OVERHEAD,
          frame.command \div 256, frame.command % 256>> = head
    BY <1>2, <1>3, Zenon DEF KLF_PROTOCOL_ID, PAYLOAD_LENGTH_OVERHEAD
  <2> QED BY <2>2, <2>3, <1>7, Zenon
<1>9. /\ body \in Seq(Octets) /\ Len(body) = n + 4
      /\ \A i \in 1..4 : body[i] = head[i]
      /\ \A i \in 1..n : body[i + 4] = p[i]
  <2>1. /\ body \in Seq(Octets) /\ Len(body) = Len(head) + Len(p)
        /\ \A i \in 1..(Len(head) + Len(p)) : body[i] = IF i <= Len(head) THEN head[i] ELSE p[i - Len(head)]
    BY <1>5, <1>7, ConcatProperties, ZenonT(60)
  <2> QED BY <1>1, <1>5, <2>1
<1>10. DOMAIN body = 1..(n + 4) /\ n + 4 \in Nat
  BY <1>1, <1>9
<1>11. PICK sum : sum = checksum(body)
  OBVIOUS
<1>12. sum \in Octets
  BY <1>10, <1>11, ChecksumByte
<1>13. wire = Append(body, sum)
  BY <1>8, <1>11
<1>14. /\ wire \in Seq(Octets) /\ Len(wire) = n + 5 /\ wire[n + 5] = sum
       /\ \A i \in 1..(n + 4) : wire[i] = body[i]
  BY <1>1, <1>9, <1>12, <1>13, AppendProperties
<1>15. Front(wire) = body
  <2>1. Front(wire) = SubSeq(wire, 1, n + 4)
    BY <1>1, <1>14 DEF Front
  <2>2. \A i \in 1..(n + 4) : wire[i] \in Octets
    BY <1>1, <1>14
  <2>3. PICK f : f = SubSeq(wire, 1, n + 4)
    OBVIOUS
  <2>4. /\ f \in Seq(Octets) /\ Len(f) = IF 1 <= n + 4 THEN n + 4 - 1 + 1 ELSE 0
        /\ \A i \in 1..(n + 4 - 1 + 1) : f[i] = wire[1 + i - 1]
    BY <1>1, <2>2, <2>3, SubSeqProperties
  <2>5. Len(f) = Len(body) /\ \A i \in 1..Len(f) : f[i] = body[i]
    BY <1>1, <1>9, <1>14, <2>4
  <2>6. f = body
    BY <1>9, <2>4, <2>5, SeqEqual
  <2> QED BY <2>1, <2>3, <2>6
<1>16. wire[1] = 0 /\ wire[2] = n + 3 /\ wire[3] = h /\ wire[4] = l
  BY <1>1, <1>6, <1>9, <1>14
<1>17. \A i \in 1..n : wire[i + 4] = p[i]
  BY <1>1, <1>9, <1>14
<1> QED BY <1>1, <1>2, <1>9, <1>11, <1>14, <1>15, <1>16, <1>17 DEF OnWire

\* So it is for every frame.
LEMMA Enveloped ==
    ASSUME NEW frame \in Envelopes, NEW wire, wire = encode(frame)
    PROVE  \E c \in Commands, p \in Seq(Octets) :
              frame.command = c /\ frame.payload = p /\ OnWire(wire, c, p, Len(p))
<1>1. PICK c \in Commands : frame.command = c
  BY DEF Envelopes
<1>2. PICK p \in Seq(Octets) : frame.payload = p /\ Len(p) <= 252
  BY DEF Envelopes, MAX_PAYLOAD_LENGTH
<1>3. PICK n : n = Len(p)
  OBVIOUS
<1>4. OnWire(wire, c, p, n)
  BY <1>1, <1>2, <1>3, Encoded
<1> QED BY <1>1, <1>2, <1>3, <1>4, Zenon

\* A frame that arrives whole is the frame that was sent.
LEMMA RoundTrip ==
    ASSUME NEW frame \in Envelopes
    PROVE  decode(encode(frame)) = frame
<1>1. PICK wire : wire = encode(frame)
  OBVIOUS
<1>2. PICK c \in Commands, p \in Seq(Octets) :
        frame.command = c /\ frame.payload = p /\ OnWire(wire, c, p, Len(p))
  BY <1>1, Enveloped
<1>3. PICK n : n = Len(p)
  OBVIOUS
<1>4. /\ n \in Nat /\ wire \in Seq(Octets) /\ Len(wire) = n + 5
      /\ wire[1] = 0 /\ wire[2] = n + 3 /\ wire[3] = c \div 256 /\ wire[4] = c % 256
      /\ \A i \in 1..n : wire[i + 4] = p[i]
      /\ wire[n + 5] = checksum(Front(wire))
  BY <1>2, <1>3 DEF OnWire
<1>5. decode(wire) = [command |-> wire[3] * 256 + wire[4], payload |-> SubSeq(wire, 5, Len(wire) - 1)]
  BY <1>4 DEF decode, FRAME_OVERHEAD, KLF_PROTOCOL_ID
<1>6. SubSeq(wire, 5, Len(wire) - 1) = p
  <2>1. \A i \in 5..(n + 4) : wire[i] \in Octets
    BY <1>4
  <2>2. PICK f : f = SubSeq(wire, 5, n + 4)
    OBVIOUS
  <2>3. /\ f \in Seq(Octets) /\ Len(f) = IF 5 <= n + 4 THEN n + 4 - 5 + 1 ELSE 0
        /\ \A i \in 1..(n + 4 - 5 + 1) : f[i] = wire[5 + i - 1]
    BY <1>4, <2>1, <2>2, SubSeqProperties
  <2>4. Len(f) = Len(p) /\ \A i \in 1..Len(f) : f[i] = p[i]
    BY <1>3, <1>4, <2>3
  <2>5. f = p
    BY <2>3, <2>4, SeqEqual
  <2> QED BY <1>4, <2>2, <2>5
<1>7. wire[3] * 256 + wire[4] = c
  BY <1>4, CommandBytes
<1>8. frame = [command |-> c, payload |-> p]
  BY <1>2 DEF Envelopes
<1> QED BY <1>1, <1>5, <1>6, <1>7, <1>8

\* A frame in which one byte was changed is refused.
LEMMA ChangeRefused ==
    ASSUME NEW frame \in Envelopes, NEW i \in DOMAIN encode(frame), NEW b \in Octets,
           b # encode(frame)[i]
    PROVE  decode([encode(frame) EXCEPT ![i] = b]) = FrameError
<1>1. PICK wire, body : wire = encode(frame) /\ body = Front(wire)
  OBVIOUS
<1>2. PICK c \in Commands, p \in Seq(Octets) :
        frame.command = c /\ frame.payload = p /\ OnWire(wire, c, p, Len(p))
  BY <1>1, Enveloped
<1>3. PICK n : n = Len(p)
  OBVIOUS
<1>4. /\ n \in Nat /\ wire \in Seq(Octets) /\ Len(wire) = n + 5
      /\ body \in Seq(Octets) /\ Len(body) = n + 4
      /\ \A j \in 1..(n + 4) : body[j] = wire[j]
      /\ wire[n + 5] = checksum(body)
  BY <1>1, <1>2, <1>3 DEF OnWire
<1>5. PICK r : r = [wire EXCEPT ![i] = b]
  OBVIOUS
<1>6. /\ i \in 1..(n + 5) /\ r \in Seq(Octets) /\ Len(r) = n + 5 /\ r[i] = b
      /\ \A j \in 1..(n + 5) : j # i => r[j] = wire[j]
  <2>1. DOMAIN wire = 1..(n + 5) /\ i \in 1..(n + 5)
    BY <1>1, <1>4
  <2> QED BY <1>4, <1>5, <2>1
<1>7. PICK f : f = Front(r)
  OBVIOUS
<1>8. /\ f \in Seq(Octets) /\ Len(f) = n + 4 /\ \A j \in 1..(n + 4) : f[j] = r[j]
  <2>1. f = SubSeq(r, 1, n + 4)
    BY <1>4, <1>6, <1>7 DEF Front
  <2>2. \A j \in 1..(n + 4) : r[j] \in Octets
    BY <1>4, <1>6
  <2>3. /\ f \in Seq(Octets) /\ Len(f) = IF 1 <= n + 4 THEN n + 4 - 1 + 1 ELSE 0
        /\ \A j \in 1..(n + 4 - 1 + 1) : f[j] = r[1 + j - 1]
    BY <1>4, <2>1, <2>2, SubSeqProperties
  <2> QED BY <1>4, <2>3
<1>9. r[n + 5] # checksum(f)
  <2>1. CASE i = n + 5
    <3>1. \A j \in 1..Len(f) : f[j] = body[j]
      BY <1>4, <1>6, <1>8, <2>1
    <3>2. f = body
      BY <1>4, <1>8, <3>1, SeqEqual
    <3> QED BY <1>1, <1>4, <1>6, <2>1, <3>2
  <2>2. CASE i # n + 5
    <3>1. i \in 1..(n + 4) /\ n + 4 \in Nat
      BY <1>4, <1>6, <2>2
    <3>2. body \in [1..(n + 4) -> Octets]
      BY <1>4, <3>1
    <3>3. PICK g : g = [body EXCEPT ![i] = b]
      OBVIOUS
    <3>4. b # body[i]
      BY <1>1, <1>4, <3>1
    <3>5. checksum(g) # checksum(body)
      BY <3>1, <3>2, <3>3, <3>4, ChecksumChanges
    <3>6. g \in Seq(Octets) /\ Len(g) = n + 4
      BY <1>4, <3>1, <3>2, <3>3
    <3>7. \A j \in 1..Len(f) : f[j] = g[j]
      BY <1>4, <1>6, <1>8, <3>1, <3>2, <3>3
    <3>8. f = g
      BY <1>8, <3>6, <3>7, SeqEqual
    <3>9. r[n + 5] = wire[n + 5]
      BY <1>4, <1>6, <2>2
    <3> QED BY <1>4, <3>5, <3>8, <3>9
  <2> QED BY <2>1, <2>2
<1>10. decode(r) = FrameError
  BY <1>6, <1>7, <1>9 DEF decode
<1> QED BY <1>1, <1>5, <1>10

\* A frame that lost or gained bytes after its length is refused.
LEMMA LengthRefused ==
    ASSUME NEW frame \in Envelopes, NEW r \in Seq(Octets), Len(r) # Len(encode(frame)),
           Len(r) >= 2 => r[2] = encode(frame)[2]
    PROVE  decode(r) = FrameError
<1>1. PICK wire : wire = encode(frame)
  OBVIOUS
<1>2. PICK c \in Commands, p \in Seq(Octets) :
        frame.command = c /\ frame.payload = p /\ OnWire(wire, c, p, Len(p))
  BY <1>1, Enveloped
<1>3. PICK n : n = Len(p)
  OBVIOUS
<1>4. n \in Nat /\ Len(wire) = n + 5 /\ wire[2] = n + 3
  BY <1>2, <1>3 DEF OnWire
<1>5. Len(r) < FRAME_OVERHEAD \/ r[2] # Len(r) - 2
  BY <1>1, <1>4 DEF FRAME_OVERHEAD
<1> QED BY <1>5 DEF decode

\* For every frame: it is decoded to what was encoded, and refused with any one byte
\* changed, or with bytes lost or added after its length byte.
THEOREM FrameIntegrity ==
    \A frame \in Envelopes :
        /\ decode(encode(frame)) = frame
        /\ \A i \in DOMAIN encode(frame), b \in Octets :
              b # encode(frame)[i] => decode([encode(frame) EXCEPT ![i] = b]) = FrameError
        /\ \A r \in Seq(Octets) :
              Len(r) # Len(encode(frame)) /\ (Len(r) >= 2 => r[2] = encode(frame)[2])
                  => decode(r) = FrameError
BY RoundTrip, ChangeRefused, LengthRefused

\* What Carry sends, changed as Damage says.
LEMMA Carried ==
    ASSUME NEW frame \in Envelopes, NEW wire, wire = encode(frame), NEW received \in Damage(wire)
    PROVE  /\ \A i \in DOMAIN wire : wire[i] \in 0..255
           /\ decode(received) = IF received = wire THEN frame ELSE FrameError
<1>2. PICK c \in Commands, p \in Seq(Octets) :
        frame.command = c /\ frame.payload = p /\ OnWire(wire, c, p, Len(p))
  BY Enveloped
<1>3. PICK n : n = Len(p)
  OBVIOUS
<1>4. /\ n \in Nat /\ wire \in Seq(Octets) /\ Len(wire) = n + 5
      /\ Front(wire) \in Seq(Octets) /\ Len(Front(wire)) = n + 4
      /\ \A i \in 1..(n + 4) : Front(wire)[i] = wire[i]
  BY <1>2, <1>3 DEF OnWire
<1>5. \A i \in DOMAIN wire : wire[i] \in 0..255
  <2>1. \A i \in DOMAIN wire : wire[i] \in Octets
    BY <1>4
  <2>2. \A x \in Octets : x \in 0..255
    BY DEF Octets
  <2> QED BY <2>1, <2>2, Zenon
<1>6. CASE received = wire
  BY <1>5, <1>6, RoundTrip
<1>7. CASE received = Front(wire)
  <2>1. received \in Seq(Octets) /\ Len(received) = n + 4 /\ received[2] = wire[2]
    BY <1>4, <1>7
  <2>2. decode(received) = FrameError /\ received # wire
    BY <1>4, <2>1, LengthRefused
  <2> QED BY <1>5, <2>2
<1>8. CASE received = Append(wire, 0)
  <2>1. 0 \in Octets
    BY DEF Octets
  <2>2. received \in Seq(Octets) /\ Len(received) = n + 6 /\ received[2] = wire[2]
    BY <1>4, <1>8, <2>1, AppendProperties
  <2>3. decode(received) = FrameError /\ received # wire
    BY <1>4, <2>2, LengthRefused
  <2> QED BY <1>5, <2>3
<1>9. ASSUME NEW i \in {1, 2, 3, 4, Len(wire) - 1, Len(wire)}, NEW b \in {0, 1, 3, 128, 255},
             received = [wire EXCEPT ![i] = b]
      PROVE  decode(received) = IF received = wire THEN frame ELSE FrameError
  <2>1. i \in DOMAIN wire
    BY <1>4
  <2>2. b \in Octets
    BY DEF Octets
  <2>3. CASE b = wire[i]
    <3>1. received = wire
      BY <1>4, <1>9, <2>1, <2>3
    <3> QED BY <3>1, RoundTrip
  <2>4. CASE b # wire[i]
    <3>1. received # wire
      BY <1>4, <1>9, <2>1, <2>4
    <3>2. i \in DOMAIN encode(frame) /\ b # encode(frame)[i]
      BY <2>1, <2>4
    <3>3. decode([encode(frame) EXCEPT ![i] = b]) = FrameError
      BY <2>2, <3>2, ChangeRefused
    <3>4. received = [encode(frame) EXCEPT ![i] = b]
      BY <1>9
    <3> QED BY <3>1, <3>3, <3>4
  <2> QED BY <2>3, <2>4
<1>10. \/ received = wire \/ received = Front(wire) \/ received = Append(wire, 0)
       \/ \E i \in {1, 2, 3, 4, Len(wire) - 1, Len(wire)}, b \in {0, 1, 3, 128, 255} :
             received = [wire EXCEPT ![i] = b]
  <2>1. received \in {[wire EXCEPT ![i] = b] : i \in {1, 2, 3, 4, Len(wire) - 1, Len(wire)},
                                              b \in {0, 1, 3, 128, 255}}
        => \E i \in {1, 2, 3, 4, Len(wire) - 1, Len(wire)}, b \in {0, 1, 3, 128, 255} :
              received = [wire EXCEPT ![i] = b]
    OBVIOUS
  <2>2. \/ received \in {wire, Front(wire), Append(wire, 0)}
        \/ received \in {[wire EXCEPT ![i] = b] : i \in {1, 2, 3, 4, Len(wire) - 1, Len(wire)},
                                                 b \in {0, 1, 3, 128, 255}}
    BY DEF Damage
  <2> QED BY <2>1, <2>2
<1> QED BY <1>5, <1>6, <1>7, <1>8, <1>9, <1>10

\* The frames of Carry are frames of the protocol.
LEMMA PayloadsOctets == \A payload \in Payloads : payload \in Seq(Octets)
<1> SUFFICES ASSUME NEW payload \in Payloads PROVE payload \in Seq(Octets)
  OBVIOUS
<1>1. 0 \in Octets /\ 1 \in Octets /\ 255 \in Octets /\ 7 \in Octets
  BY DEF Octets
<1>2. ASSUME NEW n \in Nat, payload \in [1..n -> {0, 1, 255}] PROVE payload \in Seq(Octets)
  <2>1. payload \in [1..n -> Octets]
    BY <1>1, <1>2
  <2> QED BY <2>1
<1>3. ASSUME NEW n \in Nat, payload = [i \in 1..n |-> 7] PROVE payload \in Seq(Octets)
  BY <1>1, <1>3
<1> DEFINE Few == UNION {[1..n -> {0, 1, 255}] : n \in 0..2}
           Many == {[i \in 1..n |-> 7] :
                       n \in (MAX_PAYLOAD_LENGTH - 1)..(MAX_PAYLOAD_LENGTH + 1)}
           Goal == \/ \E n \in Nat : payload \in [1..n -> {0, 1, 255}]
                   \/ \E n \in Nat : payload = [i \in 1..n |-> 7]
<1>4. Goal
  <2>1. (\A n \in (MAX_PAYLOAD_LENGTH - 1)..(MAX_PAYLOAD_LENGTH + 1) : n \in Nat)
        /\ \A n \in 0..2 : n \in Nat
    BY DEF MAX_PAYLOAD_LENGTH
  <2>2. CASE payload \in Few
    <3>1. PICK n \in 0..2 : payload \in [1..n -> {0, 1, 255}]
      BY <2>2, Zenon
    <3> QED BY <2>1, <3>1
  <2>3. CASE payload \in Many
    BY <2>1, <2>3, Zenon
  <2>4. payload \in Few \cup Many
    BY Zenon DEF Payloads
  <2> HIDE DEF Few, Many, Goal
  <2> QED BY <2>2, <2>3, <2>4
<1> QED BY <1>2, <1>3, <1>4

\* Every frame Carry sends is damaged as Carried says.
LEMMA CarryChecks == Carry => DamageDetected'
<1> SUFFICES ASSUME Carry PROVE DamageDetected'
  OBVIOUS
<1>c. \A command \in Samples : command \in Commands
  BY SMTT(30) DEF Commands, Samples
<1>1. PICK payload \in Payloads, command \in Commands :
        LET frame == [command |-> command, payload |-> payload]
            wire == encode(frame)
        IN  /\ wire # PayloadTooLarge
            /\ \E received \in Damage(wire) :
                  event' = [kind |-> "carried", frame |-> frame, wire |-> wire,
                            received |-> received, result |-> decode(received)]
  BY <1>c, Zenon DEF Carry
<1>a. PICK frame : frame = [command |-> command, payload |-> payload]
  OBVIOUS
<1>b. PICK wire : wire = encode(frame)
  OBVIOUS
<1>2. frame = [command |-> command, payload |-> payload] /\ wire = encode(frame)
  BY <1>a, <1>b
<1>3. wire # PayloadTooLarge
  BY <1>1, <1>2, Zenon
<1>4. PICK received \in Damage(wire) :
        event' = [kind |-> "carried", frame |-> frame, wire |-> wire,
                  received |-> received, result |-> decode(received)]
  BY <1>1, <1>2, Zenon
<1>5. frame \in Envelopes
  <2>2. payload \in Seq(Octets)
    BY PayloadsOctets
  <2>3. frame.payload = payload
    BY <1>2
  <2>4. PayloadFits(Len(frame.payload))
    BY <1>2, <1>3, Zenon DEF encode
  <2>5. Len(payload) <= MAX_PAYLOAD_LENGTH
    BY <2>3, <2>4 DEF PayloadFits
  <2> QED BY <1>2, <2>2, <2>5 DEF Envelopes
<1>6. /\ \A i \in DOMAIN wire : wire[i] \in 0..255
      /\ decode(received) = IF received = wire THEN frame ELSE FrameError
  BY <1>2, <1>5, Carried
<1>7. /\ event'.wire = wire /\ event'.result = decode(received)
      /\ event'.received = received /\ event'.frame = frame
  BY <1>4
<1> QED BY <1>6, <1>7, Zenon DEF DamageDetected

\* Only Carry lets anyone see a frame on the wire.
LEMMA OthersCarryNothing ==
    ASSUME [DiscoveryNext]_discoveryVars
    PROVE  Carry \/ event' = event \/ event'.kind # "carried"
<1> SUFFICES Carry \/ event' = event \/ event' = Nothing \/ \E found : Return(found)
  BY DEF Nothing, Return
<1>1. CASE ExchangeStep
  <2>1. CASE Send
    BY <2>1 DEF Send, Dispatch
  <2>2. CASE AllocatorStep
    BY <2>2 DEF AllocatorStep
  <2>3. CASE Noise
    BY <2>3, SMTT(30) DEF Noise
  <2>4. CASE GatewayAccepts \/ GatewayAnswers \/ GatewayFinishes \/ expire_sessions
    BY <2>4 DEF GatewayAccepts, GatewayAnswers, GatewayFinishes, expire_sessions
  <2> QED BY <1>1, <2>1, <2>2, <2>3, <2>4 DEF ExchangeStep
<1>2. CASE GatewayStreams \/ GatewayNotifies \/ GatewayChatters \/ Begin
  BY <1>2 DEF GatewayStreams, GatewayNotifies, GatewayChatters, Begin
<1>3. CASE Ask \/ AskOrphaned
  BY <1>3 DEF Ask, AskOrphaned, Dispatch
<1>4. CASE Receive \/ Expire
  BY <1>4 DEF Receive, Expire, handle_frame, expire_request
<1>5. CASE AskExpires \/ GiveUp \/ Drop \/ Disconnect
  BY <1>5 DEF AskExpires, GiveUp, Drop, Disconnect, Fail
<1>6. CASE ReadAnswer
  BY <1>6 DEF ReadAnswer, Fail
<1>7. CASE Collect
  BY <1>7 DEF Collect, Fail
<1>8. CASE UNCHANGED discoveryVars
  BY <1>8 DEF discoveryVars, exchange
<1> QED BY <1>1, <1>2, <1>3, <1>4, <1>5, <1>6, <1>7, <1>8 DEF DiscoveryNext

\* No damaged frame is taken for a frame, and a whole one is the one that was sent, in
\* every state of the exchange.
THEOREM DamageCaught == DiscoverySpec => []DamageDetected
<1>1. DiscoveryInit => DamageDetected
  BY DEF DiscoveryInit, ExchangeInit, DamageDetected, Nothing
<1>2. DamageDetected /\ [DiscoveryNext]_discoveryVars => DamageDetected'
  <2> SUFFICES ASSUME DamageDetected, [DiscoveryNext]_discoveryVars PROVE DamageDetected'
    OBVIOUS
  <2>1. CASE event' = event
    BY <2>1, Zenon DEF DamageDetected
  <2>2. CASE event'.kind # "carried"
    BY <2>2, Zenon DEF DamageDetected
  <2> QED BY <2>1, <2>2, CarryChecks, OthersCarryNothing
<1> QED BY <1>1, <1>2, PTL DEF DiscoverySpec

-----------------------------------------------------------------------------
(***************************************************************************)
(* Sessions.  What the actor and the gateway hold of a session that neither *)
(* has lost sight of is told by the frames of it that are on their way: at  *)
(* most one confirmation, of the pending request, and at most one end.      *)
(***************************************************************************)
EndIds == {Id[NTF(stem)] : stem \in DOMAIN EndResult}
AnswerIds == {ConfirmationOf(kind) : kind \in SessionKinds}

\* A payload of a fixed length is decoded to its variant, and refused with a byte more.
LEMMA FixedDecodes ==
    ASSUME NEW layout, NEW variant, FixedLayout(layout, variant), NEW frame,
           frame.session # NoSession, frame.text = TRUE
    PROVE  /\ frame.length = layout.base => DecodeAs(layout, frame) = variant
           /\ frame.length = layout.base + 1 => DecodeAs(layout, frame) = Error
<1>1. /\ layout.base \in Nat /\ layout.need = layout.base /\ layout.early = {} /\ layout.width = 0
      /\ layout.entry = NoEntries /\ ~layout.open /\ ~layout.tail /\ layout.variant = variant
      /\ Texts \cap DOMAIN layout.fields = {}
      /\ \A f \in DOMAIN layout.fields : layout.fields[f] \subseteq 0..(layout.base - 1)
  BY DEF FixedLayout
<1>2. Entries(layout, frame) = 0 /\ LastByte(layout, frame) = {}
  BY <1>1 DEF Entries, LastByte
<1>3. ~HasText(layout, frame)
  <2>1. DOMAIN layout.entry = {}
    BY <1>1 DEF NoEntries
  <2> QED BY <1>1, <2>1, Zenon DEF HasText
<1>4. LengthRequired(layout, frame) <=> frame.length = layout.base
  BY <1>1, <1>2 DEF LengthRequired
<1>5. layout.early \subseteq Bytes(frame)
  BY <1>1
<1>6. ASSUME frame.length = layout.base PROVE DecodeAs(layout, frame) = variant
  <2>1. BytesRead(layout, frame) \subseteq Bytes(frame)
    <3>1. {EntryBytes(layout, i) : i \in 0..(Entries(layout, frame) - 1)} = {}
      BY <1>2
    <3>2. \A f \in DOMAIN layout.fields : layout.fields[f] \subseteq Bytes(frame)
      BY <1>1, <1>6 DEF Bytes
    <3> QED BY <1>2, <3>1, <3>2, SMTT(30) DEF BytesRead
  <2>2. ~(frame.length < layout.need)
    BY <1>1, <1>6
  <2> QED BY <1>1, <1>3, <1>4, <1>5, <1>6, <2>1, <2>2 DEF DecodeAs
<1>7. ASSUME frame.length = layout.base + 1 PROVE DecodeAs(layout, frame) = Error
  <2>1. ~(frame.length < layout.need) /\ frame.length # layout.base
    BY <1>1, <1>7
  <2> QED BY <1>4, <1>5, <2>1 DEF DecodeAs
<1> QED BY <1>6, <1>7

\* The confirmation of a request for a session says whether it was accepted, in the way
\* of its kind, or cannot be read.
LEMMA AnswerDecodes ==
    ASSUME NEW kind \in SessionKinds, NEW f, f.command = ConfirmationOf(kind), f.sort = 0,
           f.session # NoSession, f.text = TRUE, f.status \in {0, 1},
           NEW base, base = Tables[0][f.command].base, f.length \in {base, base + 1}
    PROVE  /\ Decode(f) = Error \/ Decode(f) \in SessionResults
           /\ Decode(f) # Error =>
                 (session_was_accepted(Decode(f), f) <=> f.status = AcceptStatus(kind))
           /\ Decode(f) = Error => ~session_was_accepted(Decode(f), f)
<1>1. PICK layout : layout = Tables[0][f.command]
  OBVIOUS
<1>2. LayoutOf(f) = layout /\ FixedLayout(layout, SessionResult(kind))
  BY <1>1, SessionTables DEF LayoutOf
<1>3. Decode(f) = SessionResult(kind) \/ Decode(f) = Error
  <2>1. PICK variant : variant = SessionResult(kind)
    OBVIOUS
  <2>2. f.length \in {layout.base, layout.base + 1} /\ FixedLayout(layout, variant)
    BY <1>1, <1>2, <2>1
  <2>3. DecodeAs(layout, f) = variant \/ DecodeAs(layout, f) = Error
    BY <2>2, FixedDecodes
  <2> QED BY <1>2, <2>1, <2>3 DEF Decode
<1>4. SessionResult(kind) \in SessionResults /\ SessionResult(kind) # Error
  BY DEF SessionResult, SessionResults, Error
<1>5. ConfirmationOf(kind) = Id[CFM("MODE_SEND")] <=> kind = "Mode"
  BY SessionTables
<1>6. kind \in {"CommandSend", "StatusRequest", "ActivateScene", "StopScene",
                "ActivateProductGroup", "Wink", "SetLimitation", "GetLimitationStatus", "Mode"}
  BY DEF SessionKinds, CommandExtensionRequest
<1>7. session_was_accepted(SessionResult(kind), f) <=> f.status = AcceptStatus(kind)
  BY <1>5, <1>6 DEF session_was_accepted, SessionResult, AcceptStatus
<1>8. ~session_was_accepted(Error, f)
  BY DEF session_was_accepted, Error
<1> QED BY <1>3, <1>4, <1>7, <1>8

\* The end of a session is read as one.
LEMMA EndDecodes ==
    ASSUME NEW f, f.command \in EndIds, f.sort = 0, f.session # NoSession, f.text = TRUE,
           f.length = Tables[0][f.command].base
    PROVE  /\ Decode(f) \in {"SessionFinished", "WinkFinished"} /\ Decode(f) # Error
           /\ Kind(f.command) = "Notification"
<1>1. PICK stem \in DOMAIN EndResult : f.command = Id[NTF(stem)]
  BY DEF EndIds
<1>2. PICK layout : layout = Tables[0][f.command]
  OBVIOUS
<1>3. LayoutOf(f) = layout /\ FixedLayout(layout, EndResult[stem]) /\ Kind(f.command) = "Notification"
  BY <1>1, <1>2, SessionTables DEF LayoutOf
<1>4. Decode(f) = EndResult[stem]
  <2>1. PICK variant : variant = EndResult[stem]
    OBVIOUS
  <2>2. f.length = layout.base /\ FixedLayout(layout, variant)
    BY <1>2, <1>3, <2>1
  <2>3. DecodeAs(layout, f) = variant
    BY <2>2, FixedDecodes
  <2> QED BY <1>3, <2>1, <2>3 DEF Decode
<1>5. EndResult[stem] \in {"SessionFinished", "WinkFinished"}
  BY DEF EndResult
<1> QED BY <1>3, <1>4, <1>5 DEF Error

\* An answer is not an end.
LEMMA AnswersAreNotEnds == AnswerIds \cap EndIds = {}
<1>1. ASSUME NEW c \in AnswerIds PROVE Kind(c) = "Confirmation"
  BY SessionTables DEF AnswerIds
<1>2. ASSUME NEW c \in EndIds PROVE Kind(c) = "Notification"
  BY SessionTables DEF EndIds
<1> QED BY <1>1, <1>2

\* The confirmation a request for a session waits for.
LEMMA Awaited ==
    ASSUME NEW request, request.kind \in SessionKinds
    PROVE  /\ StemAsked(request) = StemOf[request.kind]
           /\ expected_confirmation(command_id(request)) = ConfirmationOf(request.kind)
<1>1. command_id(request) = Id[REQ(StemOf[request.kind])]
  BY SessionTables DEF command_id
<1>2. known[command_id(request)][1] = StemOf[request.kind]
  BY <1>1, SessionTables
<1>3. Kind(command_id(request)) = "Request" /\ CFM(StemOf[request.kind]) \in Names
  BY <1>1, SessionTables
<1> QED BY <1>2, <1>3 DEF StemAsked, expected_confirmation, ConfirmationOf

-----------------------------------------------------------------------------
\* A request for a session, and for this one.
Opens(request) ==
    request.kind \in SessionKinds /\ request.session \in Ids /\ request.subject \in Nat
For(request, s) == request.kind \in SessionKinds /\ request.session = s

SessionFrames ==
    {f \in [command : KnownIds, length : Nat, count : {0}, sort : {0}, session : Ids,
            status : {0, 1}, text : {TRUE}, subject : Nat] :
        \/ f.command \in EndIds /\ f.length = Tables[0][f.command].base
        \/ /\ f.command \in AnswerIds
           /\ f.length \in {Tables[0][f.command].base, Tables[0][f.command].base + 1}}
IsEnd(f, s) == f.session = s /\ f.command \in EndIds
IsAnswer(f, s) == f.session = s /\ f.command \in AnswerIds
Accepts(f, request) == f.status = AcceptStatus(request.kind)

\* The gateway runs the session, or its end is on its way.
Open(s, r, q) == r = 1 \/ \E i \in DOMAIN q : IsEnd(q[i], s)

\* What pending, asked, running[s], sessions and incoming say of session s: one of it at
\* a time; a request the gateway has yet to answer is pending and nothing is left of an
\* earlier session; a confirmation is of the pending request, and if it accepts the
\* session is open and does not end before it; a tracked session is open and not asked
\* for again; and one that is open and not tracked has a confirmation on its way.
Single(s, r, q) ==
    /\ r \in {0, 1}
    /\ \A i, j \in DOMAIN q : IsEnd(q[i], s) /\ IsEnd(q[j], s) => i = j
    /\ \A i, j \in DOMAIN q : IsAnswer(q[i], s) /\ IsAnswer(q[j], s) => i = j
    /\ r = 1 => \A i \in DOMAIN q : ~IsEnd(q[i], s)
Waits(s, p, a, r, q) ==
    For(a, s) => p = a /\ r = 0 /\ \A i \in DOMAIN q : q[i].session # s
Answered(s, p, r, q) ==
    \A i \in DOMAIN q : IsAnswer(q[i], s) =>
        /\ For(p, s) /\ q[i].command = ConfirmationOf(p.kind)
        /\ Accepts(q[i], p) => /\ Open(s, r, q)
                               /\ \A j \in DOMAIN q : IsEnd(q[j], s) => i < j
Tracked(s, p, r, S, q) ==
    /\ s \in S => Open(s, r, q) /\ ~For(p, s)
    /\ Open(s, r, q) /\ s \notin S => \E i \in DOMAIN q : IsAnswer(q[i], s) /\ Accepts(q[i], p)
Agrees(s, p, a, r, S, q) ==
    Single(s, r, q) /\ Waits(s, p, a, r, q) /\ Answered(s, p, r, q) /\ Tracked(s, p, r, S, q)

\* A frame of a session answers its request or ends it.
LEMMA TwoSorts ==
    ASSUME NEW f \in SessionFrames
    PROVE  /\ IsEnd(f, f.session) \/ IsAnswer(f, f.session)
           /\ \A s \in Ids : ~(IsEnd(f, s) /\ IsAnswer(f, s))
BY AnswersAreNotEnds DEF SessionFrames, IsEnd, IsAnswer

\* What is pending, asked and tracked of session s stays so.
Kept(s, p, p2, a, a2, S, S2) ==
    /\ For(p, s) \/ For(p2, s) => p2 = p
    /\ For(a2, s) => a2 = a
    /\ s \in S2 <=> s \in S

\* What two queues have of session s is the same, d places on.
Shifted(q, q2, s, d) ==
    /\ \A i \in DOMAIN q : q[i].session = s => i - d \in DOMAIN q2 /\ q2[i - d] = q[i]
    /\ \A i \in DOMAIN q2 : q2[i].session = s => i + d \in DOMAIN q /\ q[i + d] = q2[i]

\* A step that leaves the session alone: frames of others come or go.
LEMMA AgreesOther ==
    ASSUME NEW s \in Ids, NEW p, NEW p2, NEW a, NEW a2, NEW r, NEW S, NEW S2,
           NEW q \in Seq(SessionFrames), NEW q2 \in Seq(SessionFrames), NEW d \in {0, 1},
           Agrees(s, p, a, r, S, q),
           Kept(s, p, p2, a, a2, S, S2), Shifted(q, q2, s, d)
    PROVE  Agrees(s, p2, a2, r, S2, q2)
<1> USE DEF Shifted, Kept
<1>1. Single(s, r, q) /\ Waits(s, p, a, r, q) /\ Answered(s, p, r, q) /\ Tracked(s, p, r, S, q)
  BY DEF Agrees
<1>2. DOMAIN q \subseteq Nat /\ DOMAIN q2 \subseteq Nat
  OBVIOUS
<1>3. \A i \in DOMAIN q : IsEnd(q[i], s) => i - d \in DOMAIN q2 /\ IsEnd(q2[i - d], s)
  BY DEF IsEnd
<1>4. \A i \in DOMAIN q2 : IsEnd(q2[i], s) => i + d \in DOMAIN q /\ IsEnd(q[i + d], s)
  BY DEF IsEnd
<1>5. \A i \in DOMAIN q : IsAnswer(q[i], s) =>
         i - d \in DOMAIN q2 /\ IsAnswer(q2[i - d], s) /\ q2[i - d] = q[i]
  BY DEF IsAnswer
<1>6. \A i \in DOMAIN q2 : IsAnswer(q2[i], s) =>
         i + d \in DOMAIN q /\ IsAnswer(q[i + d], s) /\ q[i + d] = q2[i]
  BY DEF IsAnswer
<1>7. Open(s, r, q2) <=> Open(s, r, q)
  BY <1>3, <1>4 DEF Open
<1>8. Single(s, r, q2)
  <2>1. \A i, j \in DOMAIN q2 : IsEnd(q2[i], s) /\ IsEnd(q2[j], s) => i = j
    BY <1>1, <1>2, <1>4 DEF Single
  <2>2. \A i, j \in DOMAIN q2 : IsAnswer(q2[i], s) /\ IsAnswer(q2[j], s) => i = j
    BY <1>1, <1>2, <1>6 DEF Single
  <2> QED BY <1>1, <1>4, <2>1, <2>2 DEF Single
<1>9. Waits(s, p2, a2, r, q2)
  BY <1>1 DEF Waits, For
<1>10. Answered(s, p2, r, q2)
  <2> SUFFICES ASSUME NEW i \in DOMAIN q2, IsAnswer(q2[i], s)
               PROVE  /\ For(p2, s) /\ q2[i].command = ConfirmationOf(p2.kind)
                      /\ Accepts(q2[i], p2) => /\ Open(s, r, q2)
                                               /\ \A j \in DOMAIN q2 : IsEnd(q2[j], s) => i < j
    BY DEF Answered
  <2>1. i + d \in DOMAIN q /\ IsAnswer(q[i + d], s) /\ q[i + d] = q2[i]
    BY <1>6
  <2>2. /\ For(p, s) /\ q[i + d].command = ConfirmationOf(p.kind)
        /\ Accepts(q[i + d], p) => /\ Open(s, r, q)
                                   /\ \A j \in DOMAIN q : IsEnd(q[j], s) => i + d < j
    BY <1>1, <2>1 DEF Answered
  <2>3. p2 = p
    BY <2>2
  <2>4. ASSUME Accepts(q2[i], p2), NEW j \in DOMAIN q2, IsEnd(q2[j], s) PROVE i < j
    <3>1. i + d < j + d
      BY <1>4, <2>1, <2>2, <2>3, <2>4
    <3> QED BY <1>2, <3>1
  <2> QED BY <1>7, <2>1, <2>2, <2>3, <2>4
<1>11. Tracked(s, p2, r, S2, q2)
  <2>1. ASSUME s \in S2 PROVE Open(s, r, q2) /\ ~For(p2, s)
    BY <1>1, <1>7, <2>1 DEF Tracked
  <2>2. ASSUME Open(s, r, q2), s \notin S2
        PROVE  \E i \in DOMAIN q2 : IsAnswer(q2[i], s) /\ Accepts(q2[i], p2)
    <3>1. PICK i \in DOMAIN q : IsAnswer(q[i], s) /\ Accepts(q[i], p)
      BY <1>1, <1>7, <2>2 DEF Tracked
    <3>2. p2 = p
      BY <1>1, <3>1 DEF Answered
    <3> QED BY <1>5, <3>1, <3>2
  <2> QED BY <2>1, <2>2 DEF Tracked
<1> QED BY <1>8, <1>9, <1>10, <1>11 DEF Agrees

\* The actor dispatches a request for a session it does not track.
LEMMA AgreesDispatch ==
    ASSUME NEW s \in Ids, NEW p, NEW r, NEW S, NEW q \in Seq(SessionFrames),
           Agrees(s, NoRequest, NoRequest, r, S, q), s \notin S, For(p, s)
    PROVE  Agrees(s, p, p, r, S, q)
<1>1. Single(s, r, q) /\ Answered(s, NoRequest, r, q) /\ Tracked(s, NoRequest, r, S, q)
  BY DEF Agrees
<1>2. ~For(NoRequest, s)
  BY DEF For, NoRequest, SessionKinds, CommandExtensionRequest
<1>3. \A i \in DOMAIN q : ~IsAnswer(q[i], s)
  BY <1>1, <1>2 DEF Answered
<1>4. ~Open(s, r, q)
  BY <1>1, <1>3 DEF Tracked
<1>5. r = 0 /\ \A i \in DOMAIN q : ~IsEnd(q[i], s)
  BY <1>1, <1>4 DEF Open, Single
<1>6. \A i \in DOMAIN q : q[i].session # s
  <2>1. \A i \in DOMAIN q : q[i] \in SessionFrames
    OBVIOUS
  <2> QED BY <1>3, <1>5, <2>1, TwoSorts
<1>7. Waits(s, p, p, r, q) /\ Answered(s, p, r, q)
  BY <1>3, <1>5, <1>6 DEF Waits, Answered
<1>8. Tracked(s, p, r, S, q)
  BY <1>4 DEF Tracked
<1> QED BY <1>1, <1>7, <1>8 DEF Agrees

\* What is left of the queue behind its first frame.
LEMMA Behind ==
    ASSUME NEW T, NEW q \in Seq(T), q # <<>>, NEW t, t = SubSeq(q, 2, Len(q))
    PROVE  /\ t \in Seq(T) /\ Len(q) \in Nat /\ Len(q) > 0 /\ Len(t) = Len(q) - 1
           /\ DOMAIN q = 1..Len(q) /\ DOMAIN t = 1..(Len(q) - 1)
           /\ Head(q) = q[1] /\ Head(q) \in T
           /\ \A i \in 1..(Len(q) - 1) : t[i] = q[i + 1]
<1>1. PICK n \in Nat : n = Len(q)
  OBVIOUS
<1>2. n > 0 /\ DOMAIN q = 1..n /\ Head(q) = q[1] /\ Head(q) \in T
  BY <1>1
<1>3. \A i \in 2..n : q[i] \in T
  BY <1>1
<1>4. /\ t \in Seq(T) /\ Len(t) = IF 2 <= n THEN n - 2 + 1 ELSE 0
      /\ \A i \in 1..(n - 2 + 1) : t[i] = q[2 + i - 1]
  BY <1>1, <1>3, SubSeqProperties
<1>5. Len(t) = n - 1 /\ \A i \in 1..(n - 1) : t[i] = q[i + 1]
  BY <1>2, <1>4
<1> QED BY <1>1, <1>2, <1>4, <1>5

\* The queue with a frame more.
LEMMA Longer ==
    ASSUME NEW T, NEW q \in Seq(T), NEW f \in T, NEW t, t = Append(q, f)
    PROVE  /\ t \in Seq(T) /\ Len(q) \in Nat /\ DOMAIN q = 1..Len(q)
           /\ DOMAIN t = 1..(Len(q) + 1) /\ t[Len(q) + 1] = f
           /\ \A i \in 1..Len(q) : t[i] = q[i]
BY AppendProperties

\* The gateway answers the request: the session runs if it accepts.
LEMMA AgreesAnswer ==
    ASSUME NEW s \in Ids, NEW p, NEW a, NEW r, NEW r2, NEW S, NEW q \in Seq(SessionFrames),
           NEW q2, NEW f \in SessionFrames, q2 = Append(q, f),
           Agrees(s, p, a, r, S, q), For(a, s),
           IsAnswer(f, s), f.command = ConfirmationOf(a.kind),
           r2 = IF Accepts(f, a) THEN r + 1 ELSE r
    PROVE  Agrees(s, p, NoRequest, r2, S, q2)
<1>1. PICK n \in Nat : n = Len(q)
  OBVIOUS
<1>2. /\ DOMAIN q = 1..n /\ DOMAIN q2 = 1..(n + 1) /\ q2[n + 1] = f
      /\ \A i \in 1..n : q2[i] = q[i]
  BY <1>1, Longer
<1>3. p = a /\ r = 0 /\ \A i \in DOMAIN q : q[i].session # s
  BY DEF Agrees, Waits
<1>4. ~IsEnd(f, s)
  BY TwoSorts
<1>5. \A i \in DOMAIN q2 : ~IsEnd(q2[i], s) /\ (IsAnswer(q2[i], s) => i = n + 1)
  BY <1>2, <1>3, <1>4 DEF IsEnd, IsAnswer
<1>6. r2 \in {0, 1} /\ (r2 = 1 <=> Accepts(f, p))
  BY <1>3
<1>7. Open(s, r2, q2) <=> Accepts(f, p)
  BY <1>5, <1>6 DEF Open
<1>8. Single(s, r2, q2)
  BY <1>5, <1>6 DEF Single
<1>9. Waits(s, p, NoRequest, r2, q2)
  BY DEF Waits, For, NoRequest, SessionKinds, CommandExtensionRequest
<1>10. Answered(s, p, r2, q2)
  BY <1>2, <1>3, <1>5, <1>7 DEF Answered
<1>11. Tracked(s, p, r2, S, q2)
  <2>1. s \notin S
    BY <1>3 DEF Agrees, Tracked
  <2>2. n + 1 \in DOMAIN q2 /\ IsAnswer(q2[n + 1], s) /\ (Accepts(f, p) => Accepts(q2[n + 1], p))
    BY <1>2
  <2> QED BY <1>7, <2>1, <2>2 DEF Tracked
<1> QED BY <1>8, <1>9, <1>10, <1>11 DEF Agrees

\* The gateway ends the session.
LEMMA AgreesFinish ==
    ASSUME NEW s \in Ids, NEW p, NEW a, NEW r, NEW S, NEW q \in Seq(SessionFrames),
           NEW q2, NEW f \in SessionFrames, q2 = Append(q, f),
           Agrees(s, p, a, r, S, q), r = 1, IsEnd(f, s)
    PROVE  Agrees(s, p, a, 0, S, q2)
<1>1. PICK n \in Nat : n = Len(q)
  OBVIOUS
<1>2. /\ DOMAIN q = 1..n /\ DOMAIN q2 = 1..(n + 1) /\ q2[n + 1] = f
      /\ \A i \in 1..n : q2[i] = q[i]
  BY <1>1, Longer
<1>3. Single(s, r, q) /\ Waits(s, p, a, r, q) /\ Answered(s, p, r, q) /\ Tracked(s, p, r, S, q)
  BY DEF Agrees
<1>4. ~IsAnswer(f, s)
  BY TwoSorts
<1>5. \A i \in DOMAIN q2 : IsEnd(q2[i], s) <=> i = n + 1
  BY <1>2, <1>3 DEF Single
<1>6. \A i \in DOMAIN q2 : IsAnswer(q2[i], s) => i \in DOMAIN q /\ i < n + 1 /\ IsAnswer(q[i], s)
  BY <1>2, <1>4
<1>7. Open(s, 0, q2) /\ Open(s, r, q)
  BY <1>2, <1>5 DEF Open
<1>8. Single(s, 0, q2)
  BY <1>3, <1>5, <1>6 DEF Single
<1>9. Waits(s, p, a, 0, q2)
  BY <1>3 DEF Waits
<1>10. Answered(s, p, 0, q2)
  BY <1>2, <1>3, <1>5, <1>6, <1>7 DEF Answered
<1>11. Tracked(s, p, 0, S, q2)
  <2>1. ASSUME s \notin S PROVE \E i \in DOMAIN q2 : IsAnswer(q2[i], s) /\ Accepts(q2[i], p)
    <3>1. PICK i \in DOMAIN q : IsAnswer(q[i], s) /\ Accepts(q[i], p)
      BY <1>3, <1>7, <2>1 DEF Tracked
    <3> QED BY <1>2, <3>1
  <2> QED BY <1>3, <1>7, <2>1 DEF Tracked
<1> QED BY <1>8, <1>9, <1>10, <1>11 DEF Agrees

\* The actor handles the confirmation: it tracks the session if it was accepted.
LEMMA AgreesConfirmed ==
    ASSUME NEW s \in Ids, NEW p, NEW a, NEW r, NEW S, NEW S2, NEW q \in Seq(SessionFrames),
           NEW q2 \in Seq(SessionFrames), NEW n \in Nat, n > 0, DOMAIN q = 1..n,
           DOMAIN q2 = 1..(n - 1), \A i \in 1..(n - 1) : q2[i] = q[i + 1],
           Agrees(s, p, a, r, S, q), IsAnswer(q[1], s), s \in S2 <=> Accepts(q[1], p)
    PROVE  Agrees(s, NoRequest, a, r, S2, q2)
<1>2. /\ n > 0 /\ DOMAIN q = 1..n /\ DOMAIN q2 = 1..(n - 1)
      /\ \A i \in 1..(n - 1) : q2[i] = q[i + 1]
  OBVIOUS
<1>3. Single(s, r, q) /\ Waits(s, p, a, r, q) /\ Answered(s, p, r, q) /\ Tracked(s, p, r, S, q)
  BY DEF Agrees
<1>4. 1 \in DOMAIN q
  BY <1>2
<1>5. For(p, s) /\ ~For(a, s)
  BY <1>3, <1>4 DEF Answered, Waits, IsAnswer
<1>6. \A i \in DOMAIN q2 : ~IsAnswer(q2[i], s)
  <2> SUFFICES ASSUME NEW i \in DOMAIN q2, IsAnswer(q2[i], s) PROVE FALSE
    OBVIOUS
  <2>1. i + 1 \in DOMAIN q /\ IsAnswer(q[i + 1], s)
    BY <1>2
  <2>2. i + 1 = 1
    BY <1>3, <1>4, <2>1 DEF Single
  <2> QED BY <1>2, <2>2
<1>7. ~IsEnd(q[1], s)
  <2>1. q[1] \in SessionFrames
    BY <1>4
  <2> QED BY <2>1, TwoSorts
<1>8. \A i \in DOMAIN q2 : IsEnd(q2[i], s) => i + 1 \in DOMAIN q /\ IsEnd(q[i + 1], s)
  BY <1>2
<1>9. \A i \in DOMAIN q : IsEnd(q[i], s) => i - 1 \in DOMAIN q2 /\ IsEnd(q2[i - 1], s)
  BY <1>2, <1>7
<1>10. Open(s, r, q2) <=> Open(s, r, q)
  BY <1>8, <1>9 DEF Open
<1>11. Single(s, r, q2)
  <2>1. \A i, j \in DOMAIN q2 : IsEnd(q2[i], s) /\ IsEnd(q2[j], s) => i = j
    BY <1>2, <1>3, <1>8 DEF Single
  <2> QED BY <1>3, <1>6, <1>8, <2>1 DEF Single
<1>12. Waits(s, NoRequest, a, r, q2) /\ Answered(s, NoRequest, r, q2)
  BY <1>5, <1>6 DEF Waits, Answered
<1>13. Open(s, r, q) <=> Accepts(q[1], p)
  <2>1. ASSUME Open(s, r, q) PROVE Accepts(q[1], p)
    <3>1. s \notin S
      BY <1>3, <1>5 DEF Tracked
    <3>2. PICK i \in DOMAIN q : IsAnswer(q[i], s) /\ Accepts(q[i], p)
      BY <1>3, <2>1, <3>1 DEF Tracked
    <3>3. i = 1
      BY <1>3, <1>4, <3>2 DEF Single
    <3> QED BY <3>2, <3>3
  <2> QED BY <1>3, <1>4, <2>1 DEF Answered
<1>14. ~For(NoRequest, s)
  BY DEF For, NoRequest, SessionKinds, CommandExtensionRequest
<1>15. Tracked(s, NoRequest, r, S2, q2)
  BY <1>10, <1>13, <1>14 DEF Tracked
<1> QED BY <1>11, <1>12, <1>15 DEF Agrees

\* The actor handles the end of the session and forgets it.
LEMMA AgreesEnded ==
    ASSUME NEW s \in Ids, NEW p, NEW a, NEW r, NEW S, NEW S2, NEW q \in Seq(SessionFrames),
           NEW q2 \in Seq(SessionFrames), NEW n \in Nat, n > 0, DOMAIN q = 1..n,
           DOMAIN q2 = 1..(n - 1), \A i \in 1..(n - 1) : q2[i] = q[i + 1],
           Agrees(s, p, a, r, S, q), IsEnd(q[1], s), s \notin S2
    PROVE  Agrees(s, p, a, r, S2, q2)
<1>2. /\ n > 0 /\ DOMAIN q = 1..n /\ DOMAIN q2 = 1..(n - 1)
      /\ \A i \in 1..(n - 1) : q2[i] = q[i + 1]
  OBVIOUS
<1>3. Single(s, r, q) /\ Waits(s, p, a, r, q) /\ Answered(s, p, r, q) /\ Tracked(s, p, r, S, q)
  BY DEF Agrees
<1>4. 1 \in DOMAIN q
  BY <1>2
<1>5. ~For(a, s) /\ r = 0
  BY <1>3, <1>4 DEF Waits, Single, IsEnd
<1>6. \A i \in DOMAIN q2 : ~IsEnd(q2[i], s)
  <2> SUFFICES ASSUME NEW i \in DOMAIN q2, IsEnd(q2[i], s) PROVE FALSE
    OBVIOUS
  <2>1. i + 1 \in DOMAIN q /\ IsEnd(q[i + 1], s)
    BY <1>2
  <2>2. i + 1 = 1
    BY <1>3, <1>4, <2>1 DEF Single
  <2> QED BY <1>2, <2>2
<1>7. ~Open(s, r, q2) /\ Open(s, r, q)
  BY <1>4, <1>5, <1>6 DEF Open
<1>8. \A i \in DOMAIN q2 : IsAnswer(q2[i], s) =>
         i + 1 \in DOMAIN q /\ q2[i] = q[i + 1] /\ IsAnswer(q[i + 1], s)
  BY <1>2
<1>9. Single(s, r, q2)
  <2>1. \A i, j \in DOMAIN q2 : IsAnswer(q2[i], s) /\ IsAnswer(q2[j], s) => i = j
    BY <1>2, <1>3, <1>8 DEF Single
  <2> QED BY <1>5, <1>6, <2>1 DEF Single
<1>10. \A i \in DOMAIN q : IsAnswer(q[i], s) => ~Accepts(q[i], p)
  <2> SUFFICES ASSUME NEW i \in DOMAIN q, IsAnswer(q[i], s), Accepts(q[i], p) PROVE FALSE
    OBVIOUS
  <2>1. i < 1
    BY <1>3, <1>4 DEF Answered
  <2> QED BY <1>2, <2>1
<1>11. Waits(s, p, a, r, q2)
  BY <1>5 DEF Waits
<1>12. Answered(s, p, r, q2)
  BY <1>3, <1>8, <1>10 DEF Answered
<1>13. Tracked(s, p, r, S2, q2)
  BY <1>7 DEF Tracked
<1> QED BY <1>9, <1>11, <1>12, <1>13 DEF Agrees

-----------------------------------------------------------------------------
\* Nothing has to do with a session: what the gateway streams or sends, and the
\* operations, are about something else.
OpFields == {"kind", "object", "stage", "found", "answer", "clean"}
OpKinds == {"discover_nodes", "discover_groups", "node_information"}
Apart ==
    /\ sessions = {} /\ active = {} /\ \A s \in Ids : running[s] = 0
    /\ pending.kind \notin SessionKinds /\ asked.kind \notin SessionKinds
    /\ orphan.kind \notin SessionKinds
    /\ op # NoOp => DOMAIN op = OpFields /\ op.kind \in OpKinds

\* Nothing has to do with anything but sessions.
Together ==
    /\ op = NoOp /\ orphan = NoRequest /\ stream = <<>>
    /\ pending = NoRequest \/ Opens(pending)
    /\ asked = NoRequest \/ Opens(asked)
    /\ sessions \subseteq Ids
    /\ incoming \in Seq(SessionFrames)
    /\ \A s \in Ids \ stale : Agrees(s, pending, asked, running[s], sessions, incoming)

SessionInv == running \in [Ids -> Nat] /\ (Apart \/ Together)

\* There is no session of no request.
LEMMA NoRequestKind == NoRequest.kind \notin SessionKinds /\ \A s : ~For(NoRequest, s)
BY DEF NoRequest, SessionKinds, CommandExtensionRequest, For

\* The requests of a client: one for a session names it, and one for anything else is
\* only made when nothing is going on.
LEMMA RequestShape ==
    ASSUME TypeOK, NEW request \in Requests
    PROVE  /\ request.kind \in SessionKinds => Opens(request)
           /\ request.kind \in SessionKinds => request.session = 1 \/ request.session \in active \ stale
           /\ request.kind \notin SessionKinds => Quiet
           /\ ~Quiet => request.kind \in SessionKinds /\ request.session \in active
<1>1. active \subseteq Ids /\ 1 \in Ids
  BY MaxIdAssumption DEF TypeOK, Ids
<1>2. CASE ~(Quiet /\ Fresh)
  <2>1. PICK kind \in Crowd, s \in active \ stale : request = Plain(kind, s)
    BY <1>2 DEF Requests
  <2>2. request.kind = kind /\ request.session = s /\ request.subject = 0
    BY <2>1 DEF Plain
  <2>3. kind \in SessionKinds
    BY ExchangeAssumption
  <2> QED BY <1>1, <2>1, <2>2, <2>3 DEF Opens
<1>3. CASE Quiet /\ Fresh
  <2>1. request \in Solo
    BY <1>3 DEF Requests
  <2>2. request.subject = 0 /\ (request.kind \in SessionKinds => request.session = 1)
    <3>1. ASSUME NEW kind \in Kinds \ SessionKinds, request = Plain(kind, NoSession)
          PROVE  request.kind \notin SessionKinds /\ request.subject = 0
      BY <3>1 DEF Plain
    <3>2. ASSUME NEW kind \in DOMAIN TextWidth, NEW text,
                 request = [Plain(kind, NoSession) EXCEPT !.text = text]
          PROVE  request.kind \notin SessionKinds /\ request.subject = 0
      <4>1. kind \in {"SetTimeZone", "SetNodeName", "SetGroup", "NewGroup", "RecordScene",
                      "RenameScene", "PasswordEnter", "PasswordChange"}
        BY DEF TextWidth
      <4>2. request.kind = kind /\ request.subject = 0
        BY <3>2 DEF Plain
      <4> QED BY <4>1, <4>2 DEF SessionKinds, CommandExtensionRequest
    <3>3. ASSUME NEW kind, NEW settings,
                 request = [Plain(kind, IF kind \in SessionKinds THEN 1 ELSE NoSession)
                               EXCEPT !.settings = settings]
          PROVE  request.subject = 0 /\ (request.kind \in SessionKinds => request.session = 1)
      BY <3>3 DEF Plain
    <3>4. ASSUME NEW kind, NEW n, NEW r, request = Aimed(kind, n, r)
          PROVE  request.subject = 0 /\ request.session = 1
      BY <3>4 DEF Plain, Aimed
    <3>5. ASSUME NEW kind, request = Plain(kind, 1)
          PROVE  request.subject = 0 /\ request.session = 1
      BY <3>5 DEF Plain
    <3>6. ASSUME NEW command, NEW length, request = Raw(command, length)
          PROVE  request.kind \notin SessionKinds /\ request.subject = 0
      BY <3>6 DEF Plain, Raw, SessionKinds, CommandExtensionRequest
    <3> DEFINE Goal == /\ request.subject = 0
                       /\ request.kind \in SessionKinds => request.session = 1
    <3>a. request \in Contentless => Goal
      BY <3>1 DEF Contentless
    <3>b. request \in WithText => Goal
      BY <3>2 DEF WithText
    <3>c. ASSUME request \in WithSettings PROVE Goal
      <4>1. PICK kind \in SettingKinds,
                 settings \in {<<0, 0, 0, 0>>, <<3, 3, 3, 3>>, <<0, 4, 0, 0>>} :
              request = [Plain(kind, IF kind \in SessionKinds THEN 1 ELSE NoSession)
                            EXCEPT !.settings = settings]
        BY <3>c DEF WithSettings
      <4> QED BY <3>3, <4>1, Zenon
    <3>d. ASSUME request \in WithTarget PROVE Goal
      <4>1. PICK kind \in TargetKinds, n \in {0, 1, 20, 21}, r \in BOOLEAN :
              request = Aimed(kind, n, r)
        BY <3>d DEF WithTarget
      <4> QED BY <3>4, <4>1
    <3>e. request \in WithSession => Goal
      BY <3>5 DEF WithSession
    <3>f. request \in WithCommand => Goal
      BY <3>6 DEF WithCommand
    <3> HIDE DEF Goal
    <3>8. Goal
      BY <2>1, <3>a, <3>b, <3>c, <3>d, <3>e, <3>f DEF Solo
    <3> QED BY <3>8 DEF Goal
  <2> QED BY <1>1, <1>3, <2>2 DEF Opens
<1> QED BY <1>2, <1>3

\* What SessionInv is about.
sessionVars == <<active, sessions, running, pending, asked, orphan, op, stream, incoming, stale>>

\* A step that changes nothing SessionInv is about keeps it.
LEMMA SessionStutter ==
    ASSUME SessionInv, UNCHANGED sessionVars
    PROVE  SessionInv'
<1>1. Apart => Apart'
  BY DEF sessionVars, Apart
<1>2. Together => Together'
  BY DEF sessionVars, Together
<1> QED BY <1>1, <1>2 DEF SessionInv, sessionVars

\* With nothing on its way and nothing asked, there is nothing but sessions, none.
LEMMA ApartTogether ==
    ASSUME Apart, op = NoOp, orphan = NoRequest, stream = <<>>, pending = NoRequest,
           asked = NoRequest, incoming = <<>>
    PROVE  Together
<1>1. ASSUME NEW s \in Ids PROVE Agrees(s, pending, asked, running[s], sessions, incoming)
  <2>1. running[s] = 0 /\ sessions = {} /\ DOMAIN incoming = {}
    BY DEF Apart
  <2>2. ~Open(s, running[s], incoming)
    BY <2>1 DEF Open
  <2>3. Single(s, running[s], incoming) /\ Answered(s, pending, running[s], incoming)
    BY <2>1 DEF Single, Answered
  <2>4. Waits(s, pending, asked, running[s], incoming)
    BY <2>1, NoRequestKind DEF Waits
  <2>5. Tracked(s, pending, running[s], sessions, incoming)
    BY <2>1, <2>2 DEF Tracked
  <2> QED BY <2>3, <2>4, <2>5 DEF Agrees
<1>2. incoming \in Seq(SessionFrames)
  OBVIOUS
<1> QED BY <1>1, <1>2 DEF Together, Apart

\* The client sends a request.
LEMMA SendSessions ==
    ASSUME TypeOK, SessionInv, op = NoOp, orphan = NoRequest, stream = <<>>, Send,
           UNCHANGED <<client, streams>>
    PROVE  SessionInv'
<1>1. PICK request \in Requests : Dispatch(request)
  BY DEF Send
<1>2. /\ pending = NoRequest /\ asked = NoRequest
      /\ UNCHANGED <<active, sessions, running, incoming, stale, orphan, op, stream>>
  BY <1>1 DEF Dispatch, allocator, client, streams
<1>3. CASE Refusal(request) # "none"
  <2>1. UNCHANGED sessionVars
    BY <1>1, <1>2, <1>3 DEF Dispatch, sessionVars
  <2> QED BY <2>1, SessionStutter
<1>4. CASE Refusal(request) = "none"
  <2>1. pending' = request /\ asked' = request
    BY <1>1, <1>4 DEF Dispatch
  <2>2. session_id(request) \notin sessions
    BY <1>4 DEF Refusal, InUse
  <2>3. CASE request.kind \notin SessionKinds
    <3>1. Quiet
      BY <2>3, RequestShape
    <3>2. Apart'
      BY <1>2, <2>1, <2>3, <3>1, NoRequestKind DEF Quiet, Apart
    <3> QED BY <1>2, <3>2 DEF SessionInv
  <2>4. CASE request.kind \in SessionKinds
    <3>1. Opens(request) /\ (~Quiet => request.session \in active)
      BY <2>4, RequestShape
    <3>2. Together
      <4>1. CASE Apart
        <5>1. Quiet
          BY <3>1, <4>1 DEF Apart
        <5> QED BY <4>1, <5>1, ApartTogether DEF Quiet
      <4> QED BY <4>1 DEF SessionInv
    <3>3. PICK s \in Ids : s = request.session
      BY <3>1 DEF Opens
    <3>4. s \notin sessions /\ For(request, s)
      BY <2>2, <2>4, <3>3 DEF session_id, For
    <3>5. incoming \in Seq(SessionFrames)
      BY <3>2 DEF Together
    <3>6. ASSUME NEW t \in Ids \ stale
          PROVE  Agrees(t, request, request, running[t], sessions, incoming)
      <4>1. Agrees(t, NoRequest, NoRequest, running[t], sessions, incoming)
        BY <1>2, <3>2, <3>6 DEF Together
      <4>2. CASE t = s
        BY <3>4, <3>5, <4>1, <4>2, AgreesDispatch
      <4>3. CASE t # s
        <5>1. ~For(request, t) /\ ~For(NoRequest, t)
          BY <3>3, <4>3, NoRequestKind DEF For
        <5>2. Shifted(incoming, incoming, t, 0)
          BY <3>5 DEF Shifted
        <5>3. t \in Ids /\ 0 \in {0, 1}
          BY <3>6
        <5>4. Kept(t, NoRequest, request, NoRequest, request, sessions, sessions)
          BY <5>1 DEF Kept
        <5> QED BY <3>5, <4>1, <5>2, <5>3, <5>4, AgreesOther
      <4> QED BY <4>2, <4>3
    <3>7. Together'
      BY <1>2, <2>1, <3>1, <3>2, <3>6 DEF Together
    <3> QED BY <1>2, <3>7 DEF SessionInv
  <2> QED BY <2>3, <2>4
<1> QED BY <1>3, <1>4

\* The client takes or returns an identifier.
LEMMA AllocateSessions ==
    ASSUME SessionInv, op = NoOp, orphan = NoRequest, stream = <<>>, AllocatorStep,
           UNCHANGED <<client, streams>>
    PROVE  SessionInv'
<1>1. Together
  <2>1. CASE Apart
    BY <2>1, ApartTogether DEF AllocatorStep
  <2> QED BY <2>1 DEF SessionInv
<1>2. Together'
  BY <1>1 DEF AllocatorStep, Together, client, streams
<1> QED BY <1>2 DEF SessionInv, AllocatorStep

\* A frame arrives while nothing is going on.
LEMMA NoiseSessions ==
    ASSUME SessionInv, op = NoOp, orphan = NoRequest, Noise, UNCHANGED <<client, streams>>
    PROVE  SessionInv'
<1>1. Quiet /\ UNCHANGED <<allocator, pending, sessions, gateway, stale>>
  BY Zenon DEF Noise
<1>2. Quiet /\ UNCHANGED <<active, pending, sessions, asked, running, orphan, op>>
  BY <1>1 DEF allocator, gateway, client
<1>3. Apart'
  BY <1>2, NoRequestKind DEF Quiet, Apart
<1> QED BY <1>2, <1>3 DEF SessionInv

\* A frame is carried while nothing is going on.
LEMMA CarrySessions ==
    ASSUME SessionInv, Carry, UNCHANGED <<client, streams>>
    PROVE  SessionInv'
<1>1. UNCHANGED <<allocator, pending, sessions, gateway, incoming, stale>>
  BY Zenon DEF Carry
<1>2. UNCHANGED sessionVars
  BY <1>1 DEF allocator, gateway, client, streams, sessionVars
<1> QED BY <1>2, SessionStutter

-----------------------------------------------------------------------------
\* A frame by its contents.
Readable == TRUE
Content(c, l, s, status, subject) ==
    [command |-> c, length |-> l, count |-> 0, sort |-> 0, session |-> s, status |-> status,
     text |-> Readable, subject |-> subject]

\* Another length changes nothing else.
LEMMA LengthChanged ==
    ASSUME NEW c, NEW l, NEW s, NEW status, NEW subject, NEW x, NEW f, NEW g,
           f = Content(c, l, s, status, subject), g = [f EXCEPT !.length = x]
    PROVE  g = Content(c, x, s, status, subject)
BY DEF Content

\* Another subject changes nothing else.
LEMMA SubjectChanged ==
    ASSUME NEW c, NEW l, NEW s, NEW status, NEW subject, NEW x, NEW f, NEW g,
           f = Content(c, l, s, status, subject), g = [f EXCEPT !.subject = x]
    PROVE  g = Content(c, l, s, status, x)
BY DEF Content

\* The contents are read back.
LEMMA ContentRead ==
    ASSUME NEW c, NEW l, NEW s, NEW status, NEW subject, NEW f,
           f = Content(c, l, s, status, subject)
    PROVE  /\ f.command = c /\ f.length = l /\ f.count = 0 /\ f.sort = 0 /\ f.session = s
           /\ f.status = status /\ f.text = Readable /\ f.subject = subject
BY DEF Content

\* A frame of the length its decoder demands.
LEMMA MadeToMeasure ==
    ASSUME NEW c \in KnownIds, NEW s, NEW status
    PROVE  WellFormed(Frame(c, 0, s, status)) = Content(c, Tables[0][c].base, s, status, 0)
<1>1. PICK f : f = Frame(c, 0, s, status)
  OBVIOUS
<1>2. f = Content(c, 0, s, status, 0)
  BY <1>1, Zenon DEF Frame, Content, Readable
<1>3. f.command = c /\ f.sort = 0
  BY <1>2, ContentRead
<1>4. LayoutOf(f) = Tables[0][c]
  BY <1>3 DEF LayoutOf
<1>5. WellFormed(f) = [f EXCEPT !.length = Tables[0][c].base]
  BY <1>4 DEF WellFormed
<1> QED BY <1>1, <1>2, <1>5, LengthChanged

\* A frame of a session, by its contents.
LEMMA SessionFrameMade ==
    ASSUME NEW c \in KnownIds, NEW s \in Ids, NEW status \in {0, 1}, NEW subject \in Nat,
           NEW base \in Nat, base = Tables[0][c].base, NEW l, NEW f,
           f = Content(c, l, s, status, subject),
           \/ c \in EndIds /\ l = base
           \/ c \in AnswerIds /\ l \in {base, base + 1}
    PROVE  f \in SessionFrames
<1>1. l \in Nat
  OBVIOUS
<1>2. f.command = c /\ f.length = l
  BY ContentRead
<1>3. f \in [command : KnownIds, length : Nat, count : {0}, sort : {0}, session : Ids,
             status : {0, 1}, text : {TRUE}, subject : Nat]
  BY <1>1, Zenon DEF Content, Readable
<1> QED BY <1>2, <1>3 DEF SessionFrames

\* The gateway's answer to a request for a session.
LEMMA AnswerMade ==
    ASSUME NEW request, Opens(request), NEW status \in {0, 1}, NEW extra \in {0, 1}, NEW f,
           f = [Confirmation(request, status) EXCEPT !.length = @ + extra]
    PROVE  /\ f \in SessionFrames /\ IsAnswer(f, request.session)
           /\ f.command = ConfirmationOf(request.kind) /\ f.status = status
<1>1. PICK c : c = ConfirmationOf(request.kind)
  OBVIOUS
<1>2. /\ c \in KnownIds /\ c \in AnswerIds
      /\ FixedLayout(Tables[0][c], SessionResult(request.kind))
  BY <1>1, SessionTables DEF Opens, AnswerIds
<1>3. PICK base \in Nat : base = Tables[0][c].base
  BY <1>2 DEF FixedLayout
<1>4. Id[CFM(StemAsked(request))] = c
  BY <1>1, Awaited DEF Opens, ConfirmationOf
<1>5. SessionAnswered(request) = request.session
  <2>1. request.kind # "GetLine"
    BY DEF Opens, SessionKinds, CommandExtensionRequest
  <2> QED BY <2>1 DEF SessionAnswered, session_id, Opens
<1>s. PICK s \in Ids : s = request.session
  BY DEF Opens
<1>x. PICK x \in Nat : x = request.subject
  BY DEF Opens
<1>6. Confirmation(request, status) = Content(c, base, s, status, x)
  <2>1. PICK w, g : w = WellFormed(Frame(c, 0, s, status)) /\ g = Confirmation(request, status)
    OBVIOUS
  <2>2. g = [w EXCEPT !.subject = x]
    BY <1>4, <1>5, <1>s, <1>x, <2>1 DEF Confirmation
  <2>3. w = Content(c, base, s, status, 0)
    BY <1>2, <1>3, <2>1, MadeToMeasure
  <2>4. g = Content(c, base, s, status, x)
    BY <2>2, <2>3, SubjectChanged
  <2> QED BY <2>1, <2>4
<1>7. f = Content(c, base + extra, s, status, x)
  <2>1. PICK g, l : g = Confirmation(request, status) /\ l = base + extra
    OBVIOUS
  <2>2. g = Content(c, base, s, status, x)
    BY <1>6, <2>1
  <2>3. g.length = base
    BY <2>2, ContentRead
  <2>4. f = [g EXCEPT !.length = l]
    BY <2>1, <2>3
  <2>5. f = Content(c, l, s, status, x)
    BY <2>2, <2>4, LengthChanged
  <2> QED BY <2>1, <2>5
<1>8. f.command = c /\ f.session = request.session /\ f.status = status
  <2>1. PICK l : l = base + extra
    OBVIOUS
  <2>2. PICK g : g = Content(c, l, s, status, x)
    OBVIOUS
  <2>3. g.command = c /\ g.session = s /\ g.status = status
    BY <2>2, ContentRead
  <2>4. f = g
    BY <1>7, <2>1, <2>2
  <2> QED BY <1>s, <2>3, <2>4
<1>9. base + extra \in {base, base + 1}
  BY <1>3
<1>10. f \in SessionFrames
  BY <1>2, <1>3, <1>7, <1>9, SessionFrameMade
<1> QED BY <1>1, <1>2, <1>8, <1>10 DEF IsAnswer

\* The gateway's word that a session is over.
LEMMA EndMade ==
    ASSUME NEW s \in Ids, NEW kind \in {"Wink", "CommandSend"}
    PROVE  Finished(kind, s) \in SessionFrames /\ IsEnd(Finished(kind, s), s)
<1>1. PICK stem : stem = IF kind = "Wink" THEN "WINK_SEND" ELSE "SESSION_FINISHED"
  OBVIOUS
<1>2. PICK c : c = Id[NTF(stem)]
  OBVIOUS
<1>3. stem \in DOMAIN EndResult
  BY <1>1 DEF EndResult
<1>4. c \in KnownIds /\ c \in EndIds /\ FixedLayout(Tables[0][c], EndResult[stem])
  BY <1>2, <1>3, SessionTables DEF EndIds
<1>5. PICK base \in Nat : base = Tables[0][c].base
  BY <1>4 DEF FixedLayout
<1>6. Finished(kind, s) = WellFormed(Frame(c, 0, s, 0))
  BY <1>1, <1>2 DEF Finished
<1>7. Finished(kind, s) = Content(c, base, s, 0, 0)
  BY <1>4, <1>5, <1>6, MadeToMeasure
<1>8. Finished(kind, s).command = c /\ Finished(kind, s).session = s
  BY <1>7, ContentRead
<1>9. 0 \in {0, 1} /\ 0 \in Nat
  OBVIOUS
<1>10. Finished(kind, s) \in SessionFrames
  BY <1>4, <1>5, <1>7, <1>9, SessionFrameMade
<1> QED BY <1>4, <1>8, <1>10 DEF IsEnd

\* A frame of session s joins the queue: it is nothing to the others.
LEMMA AppendOthers ==
    ASSUME NEW s \in Ids, NEW t \in Ids, t # s, NEW p, NEW a, NEW a2, NEW r, NEW S,
           NEW q \in Seq(SessionFrames), NEW q2 \in Seq(SessionFrames), NEW n \in Nat,
           DOMAIN q = 1..n, DOMAIN q2 = 1..(n + 1), q2[n + 1].session = s,
           \A i \in 1..n : q2[i] = q[i],
           Agrees(t, p, a, r, S, q), For(a2, t) => a2 = a
    PROVE  Agrees(t, p, a2, r, S, q2)
<1>1. \A i \in DOMAIN q : q[i].session = t => i - 0 \in DOMAIN q2 /\ q2[i - 0] = q[i]
  OBVIOUS
<1>2. \A i \in DOMAIN q2 : q2[i].session = t => i + 0 \in DOMAIN q /\ q[i + 0] = q2[i]
  OBVIOUS
<1>3. PICK d \in {0, 1} : d = 0
  OBVIOUS
<1>4. PICK p2, S2 : p2 = p /\ S2 = S
  OBVIOUS
<1>5. Kept(t, p, p2, a, a2, S, S2)
  BY <1>4 DEF Kept
<1>7. \A i \in DOMAIN q : q[i].session = t => i - d \in DOMAIN q2 /\ q2[i - d] = q[i]
  BY <1>1, <1>3
<1>8. \A i \in DOMAIN q2 : q2[i].session = t => i + d \in DOMAIN q /\ q[i + d] = q2[i]
  BY <1>2, <1>3
<1>9. Shifted(q, q2, t, d)
  BY <1>7, <1>8 DEF Shifted
<1>10. Agrees(t, p2, a2, r, S2, q2)
  BY <1>5, <1>9, AgreesOther
<1> QED BY <1>4, <1>10

\* The gateway answers a request for a session, either way.
LEMMA AnswerSessions ==
    ASSUME Together, Opens(asked), running \in [Ids -> Nat],
           NEW f \in SessionFrames, IsAnswer(f, asked.session),
           f.command = ConfirmationOf(asked.kind),
           incoming' = Append(incoming, f), asked' = NoRequest,
           running' = IF Accepts(f, asked)
                      THEN [running EXCEPT ![asked.session] = running[asked.session] + 1]
                      ELSE running,
           UNCHANGED <<op, orphan, stream, pending, sessions, stale>>
    PROVE  SessionInv'
<1>1. PICK s \in Ids : s = asked.session
  BY DEF Opens
<1>2. running' \in [Ids -> Nat]
  BY <1>1
<1>3. incoming \in Seq(SessionFrames) /\ For(asked, s) /\ f.session = s /\ IsAnswer(f, s)
  BY <1>1 DEF Together, Opens, For, IsAnswer
<1>n. PICK n \in Nat : n = Len(incoming)
  BY <1>3
<1>4. /\ incoming' \in Seq(SessionFrames) /\ DOMAIN incoming = 1..n /\ DOMAIN incoming' = 1..(n + 1)
      /\ incoming'[n + 1].session = s /\ \A i \in 1..n : incoming'[i] = incoming[i]
  BY <1>3, <1>n, Longer
<1>5. ASSUME NEW t \in Ids \ stale
      PROVE  Agrees(t, pending, NoRequest, running'[t], sessions, incoming')
  <2>1. Agrees(t, pending, asked, running[t], sessions, incoming) /\ t \in Ids
    BY <1>5 DEF Together
  <2>2. CASE t = s
    <3>1. running'[s] = IF Accepts(f, asked) THEN running[s] + 1 ELSE running[s]
      BY <1>1
    <3> QED BY <1>3, <2>1, <2>2, <3>1, AgreesAnswer
  <2>3. CASE t # s
    <3>1. running'[t] = running[t]
      BY <1>1, <2>1, <2>3
    <3>2. ~For(NoRequest, t)
      BY NoRequestKind
    <3>3. PICK q2 : q2 = incoming'
      OBVIOUS
    <3>4. /\ q2 \in Seq(SessionFrames) /\ DOMAIN incoming = 1..n /\ DOMAIN q2 = 1..(n + 1)
          /\ q2[n + 1].session = s /\ \A i \in 1..n : q2[i] = incoming[i]
      BY <1>4, <3>3
    <3>5. Agrees(t, pending, NoRequest, running[t], sessions, q2)
      BY <1>3, <2>1, <2>3, <3>2, <3>4, AppendOthers
    <3> QED BY <3>1, <3>3, <3>5
  <2> QED BY <2>2, <2>3
<1>6. Together'
  BY <1>4, <1>5 DEF Together
<1> QED BY <1>2, <1>6 DEF SessionInv

\* The gateway accepts a session.
LEMMA AcceptSessions ==
    ASSUME SessionInv, GatewayAccepts, UNCHANGED <<client, streams>>
    PROVE  SessionInv'
<1>1. asked # NoRequest /\ asked.kind \in SessionKinds
  BY DEF GatewayAccepts
<1>2. Together /\ Opens(asked) /\ running \in [Ids -> Nat]
  BY <1>1 DEF SessionInv, Apart, Together
<1>3. PICK status : status = AcceptStatus(asked.kind)
  OBVIOUS
<1>4. status \in {0, 1}
  BY <1>3 DEF AcceptStatus
<1>5. PICK extra \in {0, 1} :
        incoming' = Append(incoming, [Confirmation(asked, status) EXCEPT !.length = @ + extra])
  BY <1>3 DEF GatewayAccepts
<1>6. PICK f : f = [Confirmation(asked, status) EXCEPT !.length = @ + extra]
  OBVIOUS
<1>7. /\ f \in SessionFrames /\ IsAnswer(f, asked.session)
      /\ f.command = ConfirmationOf(asked.kind) /\ f.status = status
  BY <1>2, <1>4, <1>6, AnswerMade
<1>8. Accepts(f, asked)
  BY <1>3, <1>7 DEF Accepts
<1>9. /\ running' = [running EXCEPT ![asked.session] = running[asked.session] + 1]
      /\ asked' = NoRequest /\ UNCHANGED <<op, orphan, stream, pending, sessions, stale>>
  BY DEF GatewayAccepts, client, streams
<1>10. incoming' = Append(incoming, f)
  BY <1>5, <1>6
<1> QED BY <1>2, <1>7, <1>8, <1>9, <1>10, AnswerSessions

\* The gateway refuses a session, or answers a request for something else.
LEMMA RefuseSessions ==
    ASSUME SessionInv, GatewayAnswers, UNCHANGED <<client, streams>>
    PROVE  SessionInv'
<1>1. /\ asked # NoRequest /\ asked' = NoRequest
      /\ UNCHANGED <<active, op, orphan, stream, pending, sessions, running, stale>>
  BY DEF GatewayAnswers, allocator, client, streams
<1>2. CASE Apart
  <2>1. Apart'
    BY <1>1, <1>2, NoRequestKind DEF Apart
  <2> QED BY <1>1, <2>1 DEF SessionInv
<1>3. CASE Together
  <2>1. Opens(asked) /\ running \in [Ids -> Nat]
    BY <1>1, <1>3 DEF SessionInv, Together
  <2>2. PICK status : status = 1 - AcceptStatus(asked.kind)
    OBVIOUS
  <2>3. status \in {0, 1} /\ status # AcceptStatus(asked.kind)
    BY <2>2 DEF AcceptStatus
  <2>4. PICK extra \in {0, 1} :
          incoming' = Append(incoming, [Confirmation(asked, status) EXCEPT !.length = @ + extra])
    BY <2>1, <2>2 DEF GatewayAnswers, Opens
  <2>5. PICK f : f = [Confirmation(asked, status) EXCEPT !.length = @ + extra]
    OBVIOUS
  <2>6. /\ f \in SessionFrames /\ IsAnswer(f, asked.session)
        /\ f.command = ConfirmationOf(asked.kind) /\ f.status = status
    BY <2>1, <2>3, <2>5, AnswerMade
  <2>7. ~Accepts(f, asked)
    BY <2>3, <2>6 DEF Accepts
  <2>8. incoming' = Append(incoming, f)
    BY <2>4, <2>5
  <2> QED BY <1>1, <1>3, <2>1, <2>6, <2>7, <2>8, AnswerSessions
<1> QED BY <1>2, <1>3 DEF SessionInv

\* The gateway ends a session.
LEMMA FinishSessions ==
    ASSUME SessionInv, GatewayFinishes, UNCHANGED <<client, streams>>
    PROVE  SessionInv'
<1>1. PICK s \in Ids, kind \in {"Wink", "CommandSend"} :
        /\ running[s] > 0 /\ running' = [running EXCEPT ![s] = running[s] - 1]
        /\ incoming' = Append(incoming, Finished(kind, s))
  BY DEF GatewayFinishes
<1>2. UNCHANGED <<op, orphan, stream, pending, asked, sessions, stale>>
  BY DEF GatewayFinishes, client, streams
<1>3. Together /\ running \in [Ids -> Nat]
  BY <1>1 DEF SessionInv, Apart
<1>4. PICK f : f = Finished(kind, s)
  OBVIOUS
<1>5. f \in SessionFrames /\ IsEnd(f, s) /\ f.session = s /\ incoming' = Append(incoming, f)
  BY <1>1, <1>4, EndMade DEF IsEnd
<1>6. running' \in [Ids -> Nat] /\ running'[s] = running[s] - 1
  BY <1>1, <1>3
<1>a. incoming \in Seq(SessionFrames)
  BY <1>3 DEF Together
<1>n. PICK n \in Nat : n = Len(incoming)
  BY <1>a
<1>7. /\ incoming' \in Seq(SessionFrames) /\ DOMAIN incoming = 1..n /\ DOMAIN incoming' = 1..(n + 1)
      /\ incoming'[n + 1].session = s /\ \A i \in 1..n : incoming'[i] = incoming[i]
  BY <1>5, <1>a, <1>n, Longer
<1>8. ASSUME NEW t \in Ids \ stale
      PROVE  Agrees(t, pending, asked, running'[t], sessions, incoming')
  <2>1. Agrees(t, pending, asked, running[t], sessions, incoming) /\ t \in Ids
    BY <1>3, <1>8 DEF Together
  <2>2. CASE t = s
    <3>1. running[s] = 1 /\ running'[s] = 0
      BY <1>1, <1>6, <2>1, <2>2 DEF Agrees, Single
    <3> QED BY <1>5, <1>a, <2>1, <2>2, <3>1, AgreesFinish
  <2>3. CASE t # s
    <3>1. running'[t] = running[t]
      BY <1>1, <1>3, <2>1, <2>3
    <3> QED BY <1>a, <1>7, <2>1, <2>3, <3>1, AppendOthers
  <2> QED BY <2>2, <2>3
<1>9. Together'
  BY <1>2, <1>3, <1>7, <1>8 DEF Together
<1> QED BY <1>6, <1>9 DEF SessionInv

-----------------------------------------------------------------------------
\* The actor takes a frame of session s: it is nothing to the others.
LEMMA RestOthers ==
    ASSUME NEW s \in Ids, NEW t \in Ids, t # s, NEW p, NEW p2, NEW a, NEW r, NEW S, NEW S2,
           NEW q \in Seq(SessionFrames), NEW q2 \in Seq(SessionFrames), NEW n \in Nat,
           DOMAIN q = 1..n, DOMAIN q2 = 1..(n - 1), q[1].session = s,
           \A i \in 1..(n - 1) : q2[i] = q[i + 1],
           Agrees(t, p, a, r, S, q), For(p, t) \/ For(p2, t) => p2 = p, t \in S2 <=> t \in S
    PROVE  Agrees(t, p2, a, r, S2, q2)
<1>1. \A i \in DOMAIN q : q[i].session = t => i - 1 \in DOMAIN q2 /\ q2[i - 1] = q[i]
  <2> SUFFICES ASSUME NEW i \in 1..n, q[i].session = t PROVE i - 1 \in 1..(n - 1) /\ q2[i - 1] = q[i]
    OBVIOUS
  <2>1. i # 1
    OBVIOUS
  <2>2. i - 1 \in 1..(n - 1) /\ (i - 1) + 1 = i
    BY <2>1
  <2> QED BY <2>2
<1>2. \A i \in DOMAIN q2 : q2[i].session = t => i + 1 \in DOMAIN q /\ q[i + 1] = q2[i]
  OBVIOUS
<1>3. PICK d \in {0, 1} : d = 1
  OBVIOUS
<1>4. PICK a2 : a2 = a
  OBVIOUS
<1>5. \A i \in DOMAIN q : q[i].session = t => i - d \in DOMAIN q2 /\ q2[i - d] = q[i]
  BY <1>1, <1>3
<1>6. \A i \in DOMAIN q2 : q2[i].session = t => i + d \in DOMAIN q /\ q[i + d] = q2[i]
  BY <1>2, <1>3
<1>7. Kept(t, p, p2, a, a2, S, S2)
  BY <1>4 DEF Kept
<1>8. Shifted(q, q2, t, d)
  BY <1>5, <1>6 DEF Shifted
<1>9. Agrees(t, p2, a2, r, S2, q2)
  BY <1>7, <1>8, AgreesOther
<1> QED BY <1>4, <1>9

\* What handle_frame makes of the first frame, when there is nothing but sessions.
LEMMA HandledSession ==
    ASSUME Together, incoming # <<>>, NEW f, f = Head(incoming), NEW s, s = f.session,
           IF Confirms(f) THEN Confirm(f, Decode(f)) ELSE Publish(f, Decode(f))
    PROVE  /\ \A t \in Ids \ stale' : t # s /\ For(pending, t) => pending' = pending
           /\ pending' = pending \/ pending' = NoRequest
           /\ stale \subseteq stale'
           /\ \A t \in Ids \ stale' : t # s => (t \in sessions' <=> t \in sessions)
           /\ sessions' \subseteq Ids
           /\ s \notin stale' => \/ /\ IsEnd(f, s) /\ pending' = pending /\ s \notin sessions'
                                 \/ /\ IsAnswer(f, s) /\ pending' = NoRequest
                                    /\ s \in sessions' <=> Accepts(f, pending)
<1>1. f \in SessionFrames /\ s \in Ids /\ f = incoming[1] /\ 1 \in DOMAIN incoming
  <2>1. f \in SessionFrames /\ f = incoming[1] /\ 1 \in DOMAIN incoming
    BY DEF Together
  <2> QED BY <2>1 DEF SessionFrames
<1>2. s # NoSession /\ NoSession \notin Ids
  BY <1>1 DEF Ids, NoSession
<1>3. /\ f.sort = 0 /\ f.text = TRUE /\ f.status \in {0, 1}
      /\ f.command \in EndIds => f.length = Tables[0][f.command].base
      /\ f.command \in AnswerIds =>
            f.length \in {Tables[0][f.command].base, Tables[0][f.command].base + 1}
  BY <1>1, AnswersAreNotEnds DEF SessionFrames
<1>4. sessions \subseteq Ids /\ (pending = NoRequest \/ Opens(pending))
  BY DEF Together
<1>5. ASSUME Confirms(f)
      PROVE  /\ pending.kind \in SessionKinds /\ pending.session \in Ids /\ IsAnswer(f, s)
             /\ f.command = ConfirmationOf(pending.kind) /\ session_id(pending) = pending.session
  <2>1. Opens(pending) /\ f.command = expected_confirmation(command_id(pending))
    BY <1>4, <1>5 DEF Confirms
  <2>2. f.command = ConfirmationOf(pending.kind)
    BY <2>1, Awaited DEF Opens
  <2> QED BY <2>1, <2>2 DEF Opens, IsAnswer, AnswerIds, session_id
<1>6. CASE f.command \in EndIds
  <2>1. ~Confirms(f)
    BY <1>5, <1>6, AnswersAreNotEnds DEF IsAnswer
  <2>2. Decode(f) \in {"SessionFinished", "WinkFinished"} /\ Decode(f) # Error /\ Kind(f.command) = "Notification"
    BY <1>2, <1>3, <1>6, EndDecodes
  <2>3. terminal_session_id(Decode(f), f) = s
    BY <2>2 DEF terminal_session_id
  <2>4. sessions' = sessions \ {s} /\ pending' = pending /\ stale' = stale
    BY <2>1, <2>2, <2>3 DEF Publish
  <2> QED BY <1>4, <1>6, <2>4 DEF IsEnd
<1>7. CASE f.command \in AnswerIds /\ ~Confirms(f)
  <2>1. Kind(f.command) # "Notification"
    BY <1>7, SessionTables DEF AnswerIds
  <2>2. sessions' = sessions /\ pending' = pending /\ stale' = stale
    BY <1>7, <2>1 DEF Publish
  <2>3. s \in stale
    <3> SUFFICES ASSUME s \notin stale PROVE FALSE
      OBVIOUS
    <3>1. Answered(s, pending, running[s], incoming)
      BY <1>1 DEF Together, Agrees
    <3>2. For(pending, s) /\ f.command = ConfirmationOf(pending.kind)
      BY <1>1, <1>7, <3>1 DEF Answered, IsAnswer
    <3>3. pending # NoRequest /\ expected_confirmation(command_id(pending)) = f.command
      BY <3>2, NoRequestKind, Awaited DEF For
    <3> QED BY <1>7, <3>3 DEF Confirms
  <2> QED BY <1>4, <2>2, <2>3
<1>8. CASE Confirms(f)
  <2>1. /\ pending.kind \in SessionKinds /\ pending.session \in Ids /\ IsAnswer(f, s)
        /\ f.command = ConfirmationOf(pending.kind) /\ session_id(pending) = pending.session
    BY <1>5, <1>8
  <2>2. /\ Decode(f) = Error \/ Decode(f) \in SessionResults
        /\ Decode(f) # Error => (session_was_accepted(Decode(f), f) <=> Accepts(f, pending))
        /\ Decode(f) = Error => ~session_was_accepted(Decode(f), f)
    BY <1>2, <1>3, <2>1, AnswerDecodes DEF Accepts, IsAnswer
  <2>3. PICK u \in Ids : u = pending.session
    BY <2>1
  <2>4. ASSUME NEW t \in Ids PROVE For(pending, t) <=> t = u
    BY <2>1, <2>3 DEF For
  <2>5. s \notin stale => s = u
    <3> SUFFICES ASSUME s \notin stale PROVE s = u
      OBVIOUS
    <3>1. Answered(s, pending, running[s], incoming)
      BY <1>1 DEF Together, Agrees
    <3>2. For(pending, s)
      BY <1>1, <2>1, <3>1 DEF Answered
    <3> QED BY <1>1, <2>4, <3>2
  <2>6. Confirm(f, Decode(f))
    BY <1>8
  <2>7. u # NoSession /\ session_id(pending) = u
    BY <1>2, <2>1, <2>3
  <2>8. CASE Decode(f) # Error /\ s # u
    <3>1. ~confirmation_session_matches(pending, Decode(f), f)
      BY <2>2, <2>7, <2>8 DEF confirmation_session_matches, response_session_id
    <3>2. UNCHANGED <<pending, sessions, stale>>
      BY <2>6, <2>8, <3>1 DEF Confirm
    <3> QED BY <1>4, <2>5, <2>8, <3>2
  <2>9. CASE Decode(f) # Error /\ s = u
    <3>1. confirmation_session_matches(pending, Decode(f), f)
      BY <2>2, <2>7, <2>9 DEF confirmation_session_matches, response_session_id
    <3>2. /\ pending' = NoRequest /\ stale' = stale
          /\ sessions' = IF session_was_accepted(Decode(f), f) THEN sessions \cup {u} ELSE sessions \ {u}
      BY <2>6, <2>7, <2>9, <3>1 DEF Confirm
    <3>3. s \in sessions' <=> Accepts(f, pending)
      BY <2>2, <2>9, <3>2
    <3>4. sessions' \subseteq Ids /\ \A t \in Ids : t # s => (t \in sessions' <=> t \in sessions)
      BY <1>4, <2>9, <3>2
    <3> QED BY <2>1, <2>4, <2>9, <3>2, <3>3, <3>4
  <2>10. CASE Decode(f) = Error
    <3>1. /\ pending' = NoRequest /\ stale' = stale \cup ({u} \cap Ids) /\ sessions' = sessions \ {u}
      BY <2>2, <2>6, <2>7, <2>10 DEF Confirm
    <3>2. u \in stale' /\ stale \subseteq stale'
      BY <3>1
    <3> QED BY <1>4, <2>4, <2>5, <3>1, <3>2
  <2> QED BY <2>8, <2>9, <2>10
<1>9. f.command \in EndIds \/ f.command \in AnswerIds
  BY <1>1 DEF SessionFrames
<1> QED BY <1>6, <1>7, <1>8, <1>9

\* The actor handles a frame.
LEMMA ReceiveSessions ==
    ASSUME SessionInv, Receive
    PROVE  SessionInv'
<1>1. PICK f : f = Head(incoming)
  OBVIOUS
<1>2. /\ incoming # <<>> /\ incoming' = SubSeq(incoming, 2, Len(incoming))
      /\ IF Confirms(f) THEN Confirm(f, Decode(f)) ELSE Publish(f, Decode(f))
      /\ UNCHANGED <<active, asked, running, orphan, stream>>
  BY <1>1 DEF Receive, handle_frame, allocator, gateway, streams
<1>3. CASE Apart
  <2>1. session_id(pending) = NoSession /\ sessions = {}
    BY <1>3 DEF Apart, session_id
  <2>2. sessions' = {} /\ (pending' = pending \/ pending' = NoRequest)
    <3>1. CASE Confirms(f)
      BY <1>2, <2>1, <3>1 DEF Confirm
    <3>2. CASE ~Confirms(f)
      BY <1>2, <2>1, <3>2 DEF Publish
    <3> QED BY <3>1, <3>2
  <2>3. op # NoOp => DOMAIN op = OpFields /\ op.kind \in OpKinds
    BY <1>3 DEF Apart
  <2>4. \/ op' = op \/ \E stage, answer : op # NoOp /\ op' = [op EXCEPT !.stage = stage, !.answer = answer]
    BY Zenon DEF Receive, client
  <2>5. op' # NoOp => DOMAIN op' = OpFields /\ op'.kind \in OpKinds
    <3>1. ASSUME NEW stage, NEW answer, op # NoOp, op' = [op EXCEPT !.stage = stage, !.answer = answer]
          PROVE  DOMAIN op' = OpFields /\ op'.kind = op.kind
      BY <2>3, <3>1 DEF OpFields
    <3> QED BY <2>3, <2>4, <3>1
  <2>6. Apart'
    BY <1>2, <1>3, <2>2, <2>5, NoRequestKind DEF Apart
  <2> QED BY <1>2, <2>6 DEF SessionInv
<1>4. CASE Together
  <2>1. UNCHANGED op
    BY <1>4 DEF Receive, Together, client
  <2>2. PICK s : s = f.session
    OBVIOUS
  <2>3. incoming \in Seq(SessionFrames) /\ (pending = NoRequest \/ Opens(pending))
    BY <1>4 DEF Together
  <2>4. f \in SessionFrames /\ s \in Ids /\ f = incoming[1]
    <3>1. f \in SessionFrames /\ f = incoming[1]
      BY <1>1, <1>2, <2>3
    <3> QED BY <2>2, <3>1 DEF SessionFrames
  <2>5. PICK n \in Nat : n = Len(incoming)
    BY <2>3
  <2>6. PICK q2 : q2 = incoming'
    OBVIOUS
  <2>7. /\ q2 \in Seq(SessionFrames) /\ n > 0 /\ DOMAIN incoming = 1..n /\ DOMAIN q2 = 1..(n - 1)
        /\ \A i \in 1..(n - 1) : q2[i] = incoming[i + 1]
    BY <1>2, <2>3, <2>5, <2>6, Behind
  <2>8. /\ \A t \in Ids \ stale' : t # s /\ For(pending, t) => pending' = pending
        /\ pending' = pending \/ pending' = NoRequest
        /\ stale \subseteq stale'
        /\ \A t \in Ids \ stale' : t # s => (t \in sessions' <=> t \in sessions)
        /\ sessions' \subseteq Ids
        /\ s \notin stale' => \/ /\ IsEnd(f, s) /\ pending' = pending /\ s \notin sessions'
                              \/ /\ IsAnswer(f, s) /\ pending' = NoRequest
                                 /\ s \in sessions' <=> Accepts(f, pending)
    BY <1>1, <1>2, <1>4, <2>2, HandledSession
  <2>9. PICK p2, S2 : p2 = pending' /\ S2 = sessions'
    OBVIOUS
  <2>10. ASSUME NEW t \in Ids \ stale'
         PROVE  Agrees(t, p2, asked, running[t], S2, q2)
    <3>1. Agrees(t, pending, asked, running[t], sessions, incoming) /\ t \in Ids
      BY <1>4, <2>8, <2>10 DEF Together
    <3>2. CASE t # s
      <4>1. For(pending, t) \/ For(p2, t) => p2 = pending
        BY <2>8, <2>9, <2>10, <3>2, NoRequestKind
      <4>2. t \in S2 <=> t \in sessions
        BY <2>8, <2>9, <2>10, <3>2
      <4>3. incoming[1].session = s
        BY <2>2, <2>4
      <4> QED BY <2>3, <2>4, <2>7, <3>1, <3>2, <4>1, <4>2, <4>3, RestOthers
    <3>3. CASE t = s /\ IsEnd(f, s) /\ pending' = pending /\ s \notin sessions'
      <4>1. s \notin S2 /\ IsEnd(incoming[1], s)
        BY <2>4, <2>9, <3>3
      <4>2. PICK r : r = running[s]
        OBVIOUS
      <4>3. Agrees(s, pending, asked, r, sessions, incoming)
        BY <3>1, <3>3, <4>2
      <4>4. Agrees(s, pending, asked, r, S2, q2)
        BY <2>3, <2>4, <2>7, <4>1, <4>3, AgreesEnded
      <4> QED BY <2>9, <3>3, <4>2, <4>4
    <3>4. CASE /\ t = s /\ IsAnswer(f, s) /\ pending' = NoRequest
               /\ s \in sessions' <=> Accepts(f, pending)
      <4>1. IsAnswer(incoming[1], s)
        BY <2>4, <3>4
      <4>2. s \in S2 <=> Accepts(incoming[1], pending)
        BY <2>4, <2>9, <3>4
      <4>3. PICK r : r = running[s]
        OBVIOUS
      <4>4. Agrees(s, pending, asked, r, sessions, incoming)
        BY <3>1, <3>4, <4>3
      <4>5. Agrees(s, NoRequest, asked, r, S2, q2)
        BY <2>3, <2>4, <2>7, <4>1, <4>2, <4>4, AgreesConfirmed
      <4> QED BY <2>9, <3>4, <4>3, <4>5
    <3> QED BY <2>8, <2>10, <3>2, <3>3, <3>4
  <2>11. Together'
    <3>1. \A t \in Ids \ stale' : Agrees(t, pending', asked', running'[t], sessions', incoming')
      BY <1>2, <2>6, <2>9, <2>10
    <3>2. /\ op' = NoOp /\ orphan' = NoRequest /\ stream' = <<>>
          /\ asked' = NoRequest \/ Opens(asked')
      BY <1>2, <1>4, <2>1 DEF Together, Opens
    <3>3. pending' = NoRequest \/ Opens(pending')
      BY <2>3, <2>8 DEF Opens
    <3>4. Opens(pending') <=> Opens(pending)'
      BY DEF Opens
    <3>5. Opens(asked') <=> Opens(asked)'
      BY DEF Opens
    <3> QED BY <2>6, <2>7, <2>8, <3>1, <3>2, <3>3, <3>4, <3>5 DEF Together
  <2> QED BY <1>2, <2>11 DEF SessionInv
<1> QED BY <1>3, <1>4 DEF SessionInv

\* A request times out, and with it what the actor knew of its session.
LEMMA ExpireSessions ==
    ASSUME SessionInv, Expire
    PROVE  SessionInv'
<1>1. /\ pending # NoRequest /\ pending' = NoRequest
      /\ sessions' = sessions \ {session_id(pending)}
      /\ stale' = stale \cup ({session_id(pending)} \cap Ids)
      /\ UNCHANGED <<active, asked, running, incoming, orphan, op, stream>>
  BY DEF Expire, expire_request, allocator, gateway, client, streams
<1>2. CASE Apart
  <2>1. Apart'
    BY <1>1, <1>2, NoRequestKind DEF Apart
  <2> QED BY <1>1, <2>1 DEF SessionInv
<1>3. CASE Together
  <2>1. Opens(pending) /\ incoming \in Seq(SessionFrames)
    BY <1>1, <1>3 DEF Together
  <2>2. PICK u \in Ids : u = pending.session /\ u = session_id(pending)
    BY <2>1 DEF Opens, session_id
  <2>3. PICK S2 : S2 = sessions'
    OBVIOUS
  <2>4. ASSUME NEW t \in Ids \ stale'
        PROVE  Agrees(t, NoRequest, asked, running[t], S2, incoming)
    <3>1. t \in Ids /\ t # u /\ t \notin stale
      BY <1>1, <2>2, <2>4
    <3>2. Agrees(t, pending, asked, running[t], sessions, incoming)
      BY <1>3, <3>1 DEF Together
    <3>3. ~For(pending, t) /\ ~For(NoRequest, t)
      BY <2>2, <3>1, NoRequestKind DEF For
    <3>4. t \in S2 <=> t \in sessions
      BY <1>1, <2>2, <2>3, <3>1
    <3>5. Single(t, running[t], incoming) /\ Waits(t, NoRequest, asked, running[t], incoming)
      BY <3>2, <3>3 DEF Agrees, Waits
    <3>6. /\ \A i \in DOMAIN incoming : ~IsAnswer(incoming[i], t)
          /\ Tracked(t, pending, running[t], sessions, incoming)
      BY <3>2, <3>3 DEF Agrees, Answered
    <3>7. Answered(t, NoRequest, running[t], incoming)
      BY <3>6 DEF Answered
    <3>8. Tracked(t, NoRequest, running[t], S2, incoming)
      BY <3>3, <3>4, <3>6 DEF Tracked
    <3> QED BY <3>5, <3>7, <3>8 DEF Agrees
  <2>5. Together'
    BY <1>1, <1>3, <2>3, <2>4 DEF Together
  <2> QED BY <1>1, <2>5 DEF SessionInv
<1> QED BY <1>2, <1>3 DEF SessionInv

\* A tracked session times out.
LEMMA SessionsExpire ==
    ASSUME SessionInv, expire_sessions, UNCHANGED <<client, streams>>
    PROVE  SessionInv'
<1>1. PICK u \in sessions : sessions' = sessions \ {u} /\ stale' = stale \cup {u}
  BY DEF expire_sessions
<1>2. UNCHANGED <<active, asked, running, pending, incoming, orphan, op, stream>>
  BY DEF expire_sessions, allocator, gateway, client, streams
<1>3. Together /\ incoming \in Seq(SessionFrames)
  BY <1>1 DEF SessionInv, Apart, Together
<1>4. PICK S2 : S2 = sessions'
  OBVIOUS
<1>5. ASSUME NEW t \in Ids \ stale'
      PROVE  Agrees(t, pending, asked, running[t], S2, incoming)
  <2>1. t \in Ids /\ t # u /\ t \notin stale
    BY <1>1, <1>5
  <2>2. Single(t, running[t], incoming) /\ Waits(t, pending, asked, running[t], incoming)
    BY <1>3, <2>1 DEF Together, Agrees
  <2>3. Answered(t, pending, running[t], incoming) /\ Tracked(t, pending, running[t], sessions, incoming)
    BY <1>3, <2>1 DEF Together, Agrees
  <2>4. t \in S2 <=> t \in sessions
    BY <1>1, <1>4, <2>1
  <2>5. Tracked(t, pending, running[t], S2, incoming)
    BY <2>3, <2>4 DEF Tracked
  <2> QED BY <2>2, <2>3, <2>5 DEF Agrees
<1>6. Together'
  BY <1>1, <1>2, <1>3, <1>4, <1>5 DEF Together
<1> QED BY <1>2, <1>6 DEF SessionInv

-----------------------------------------------------------------------------
\* The requests of the operations open no session.
LEMMA OperationRequests ==
    ASSUME NEW kind \in OpKinds, NEW object
    PROVE  RequestOf(kind, object).kind \notin SessionKinds
<1>1. CASE kind = "discover_nodes"
  <2>1. RequestOf(kind, object) = Plain("GetAllNodesInformation", NoSession)
    BY <1>1 DEF RequestOf
  <2> QED BY <2>1 DEF Plain, SessionKinds, CommandExtensionRequest
<1>2. CASE kind = "discover_groups"
  <2>1. RequestOf(kind, object) = Plain("GetAllGroups", NoSession)
    BY <1>2 DEF RequestOf
  <2> QED BY <2>1 DEF Plain, SessionKinds, CommandExtensionRequest
<1>3. CASE kind = "node_information"
  <2>1. RequestOf(kind, object) = [Plain("GetNodeInformation", NoSession) EXCEPT !.subject = object]
    BY <1>3 DEF RequestOf
  <2> QED BY <2>1 DEF Plain, SessionKinds, CommandExtensionRequest
<1> QED BY <1>1, <1>2, <1>3 DEF OpKinds

\* The requests an earlier operation has left behind open no session.
LEMMA AskedRequests == \A request \in Asked : request.kind \notin SessionKinds
<1> SUFFICES ASSUME NEW call \in Calls PROVE RequestOf(call[1], call[2]).kind \notin SessionKinds
  BY DEF Asked
<1>1. call[1] \in OpKinds
  BY DEF Calls, OpKinds
<1> QED BY <1>1, OperationRequests

\* While an operation goes on there is no session, and its fields are those of Begin.
LEMMA OperationApart ==
    ASSUME SessionInv, op # NoOp
    PROVE  Apart /\ DOMAIN op = OpFields /\ op.kind \in OpKinds
BY DEF SessionInv, Together, Apart

\* A step that keeps the sessions and the operation, or ends it, and leaves no request
\* but one that opens no session.
LEMMA ApartKept ==
    ASSUME SessionInv, Apart, UNCHANGED <<active, sessions, running>>,
           pending'.kind \notin SessionKinds, asked'.kind \notin SessionKinds,
           orphan'.kind \notin SessionKinds,
           op' # NoOp => DOMAIN op' = OpFields /\ op'.kind \in OpKinds
    PROVE  SessionInv'
<1>1. Apart'
  BY DEF Apart
<1> QED BY <1>1 DEF SessionInv

\* The gateway's notifications.
LEMMA StreamSessions ==
    ASSUME SessionInv, GatewayStreams \/ GatewayNotifies \/ GatewayChatters
    PROVE  SessionInv'
<1>1. Apart
  <2>1. CASE GatewayStreams
    <3>1. asked # NoRequest /\ asked.kind \in StreamKinds
      BY <2>1 DEF GatewayStreams
    <3>2. ~Opens(asked)
      BY <3>1, SessionTables DEF Opens
    <3> QED BY <3>1, <3>2 DEF SessionInv, Together
  <2>2. CASE GatewayNotifies
    BY <2>2 DEF GatewayNotifies, SessionInv, Together
  <2>3. CASE GatewayChatters
    BY <2>3, OperationApart DEF GatewayChatters
  <2> QED BY <2>1, <2>2, <2>3
<1>2. UNCHANGED <<active, sessions, running, pending, orphan, op>> /\ (asked' = asked \/ asked' = NoRequest)
  <2>1. CASE GatewayStreams
    BY <2>1 DEF GatewayStreams, allocator, client
  <2>2. CASE GatewayNotifies
    BY <2>2 DEF GatewayNotifies, allocator, client, gateway
  <2>3. CASE GatewayChatters
    BY <2>3 DEF GatewayChatters, allocator, client, gateway
  <2> QED BY <2>1, <2>2, <2>3
<1>3. /\ pending'.kind \notin SessionKinds /\ asked'.kind \notin SessionKinds
      /\ orphan'.kind \notin SessionKinds
      /\ op' # NoOp => DOMAIN op' = OpFields /\ op'.kind \in OpKinds
  BY <1>1, <1>2, NoRequestKind DEF Apart
<1> QED BY <1>1, <1>2, <1>3, ApartKept

\* An operation begins.
LEMMA BeginSessions ==
    ASSUME SessionInv, Begin
    PROVE  SessionInv'
<1>1. /\ active = {} /\ sessions = {} /\ \A s \in Ids : running[s] = 0
      /\ {pending, asked} \subseteq Asked \cup {NoRequest}
      /\ op = NoOp
      /\ UNCHANGED <<active, pending, sessions, asked, running, orphan>>
  BY DEF Begin, allocator, gateway
<1>2. PICK call \in Calls :
         op' = [kind |-> call[1], object |-> call[2], stage |-> "asking", found |-> <<>>,
                answer |-> Nothing, clean |-> Clean]
  BY DEF Begin
<1>3. call[1] \in OpKinds
  BY DEF Calls, OpKinds
<1>4. DOMAIN op' = OpFields /\ op'.kind \in OpKinds
  BY <1>2, <1>3 DEF OpFields
<1>5. pending.kind \notin SessionKinds /\ asked.kind \notin SessionKinds
  BY <1>1, AskedRequests, NoRequestKind
<1>6. orphan.kind \notin SessionKinds
  BY NoRequestKind DEF SessionInv, Apart, Together
<1>7. Apart
  BY <1>1, <1>5, <1>6 DEF Apart
<1> QED BY <1>1, <1>4, <1>5, <1>6, <1>7, ApartKept

\* The actor dispatches the request of an operation, or of one that was dropped.
LEMMA AskSessions ==
    ASSUME SessionInv, Ask \/ AskOrphaned
    PROVE  SessionInv'
<1>1. CASE Ask
  <2>1. op # NoOp /\ Dispatch(RequestOf(op.kind, op.object)) /\ op' = [op EXCEPT !.stage = "waiting"]
        /\ UNCHANGED orphan
    BY <1>1 DEF Ask
  <2>2. Apart /\ DOMAIN op = OpFields /\ op.kind \in OpKinds
    BY <2>1, OperationApart
  <2>3. DOMAIN op' = OpFields /\ op'.kind \in OpKinds
    BY <2>1, <2>2 DEF OpFields
  <2>4. RequestOf(op.kind, op.object).kind \notin SessionKinds
    BY <2>2, OperationRequests
  <2>5. /\ UNCHANGED <<active, sessions, running>>
        /\ pending' = pending \/ pending' = RequestOf(op.kind, op.object)
        /\ asked' = asked \/ asked' = RequestOf(op.kind, op.object)
    BY <2>1 DEF Dispatch, allocator
  <2>6. /\ pending'.kind \notin SessionKinds /\ asked'.kind \notin SessionKinds
        /\ orphan'.kind \notin SessionKinds
    BY <2>1, <2>2, <2>4, <2>5 DEF Apart
  <2> QED BY <2>2, <2>3, <2>5, <2>6, ApartKept
<1>2. CASE AskOrphaned
  <2>1. orphan # NoRequest /\ Dispatch(orphan) /\ orphan' = NoRequest /\ UNCHANGED op
    BY <1>2 DEF AskOrphaned
  <2>2. Apart
    BY <2>1 DEF SessionInv, Together
  <2>3. /\ UNCHANGED <<active, sessions, running>>
        /\ pending' = pending \/ pending' = orphan
        /\ asked' = asked \/ asked' = orphan
    BY <2>1 DEF Dispatch, allocator
  <2>4. /\ pending'.kind \notin SessionKinds /\ asked'.kind \notin SessionKinds
        /\ orphan'.kind \notin SessionKinds
        /\ op' # NoOp => DOMAIN op' = OpFields /\ op'.kind \in OpKinds
    BY <2>1, <2>2, <2>3, NoRequestKind DEF Apart
  <2> QED BY <2>2, <2>3, <2>4, ApartKept
<1> QED BY <1>1, <1>2

\* The operation goes on with what it has received, or ends.
LEMMA OperationSessions ==
    ASSUME SessionInv, AskExpires \/ ReadAnswer \/ Collect \/ GiveUp \/ Drop \/ Disconnect
    PROVE  SessionInv'
<1>1. op # NoOp
  BY DEF AskExpires, ReadAnswer, Collect, GiveUp, Drop, Disconnect
<1>2. Apart /\ DOMAIN op = OpFields /\ op.kind \in OpKinds
  BY <1>1, OperationApart
<1>3. \/ op' = NoOp
      \/ op' = [op EXCEPT !.stage = "collecting", !.answer = Nothing]
      \/ \E found : op' = [op EXCEPT !.found = found]
  <2>1. ASSUME Fail \/ \E found : Return(found) PROVE op' = NoOp
    BY <2>1 DEF Fail, Return, Leave
  <2>2. CASE AskExpires \/ GiveUp \/ Drop \/ Disconnect
    BY <2>1, <2>2 DEF AskExpires, GiveUp, Drop, Disconnect
  <2>3. CASE ReadAnswer
    BY <2>1, <2>3 DEF ReadAnswer
  <2>4. CASE Collect
    BY <2>1, <2>4 DEF Collect
  <2> QED BY <2>2, <2>3, <2>4
<1>4. op' # NoOp => DOMAIN op' = OpFields /\ op'.kind \in OpKinds
  BY <1>2, <1>3 DEF OpFields
<1>5. /\ UNCHANGED <<active, sessions, running>>
      /\ pending' = pending \/ pending' = NoRequest
      /\ asked' = asked \/ asked' = NoRequest
      /\ orphan' = orphan \/ orphan' = NoRequest \/ orphan' = RequestOf(op.kind, op.object)
  <2>1. CASE AskExpires
    BY <2>1 DEF AskExpires, allocator, gateway
  <2>2. CASE ReadAnswer
    BY <2>2 DEF ReadAnswer, allocator, gateway
  <2>3. CASE Collect
    BY <2>3 DEF Collect, allocator, gateway
  <2>4. CASE GiveUp
    BY <2>4 DEF GiveUp, allocator, gateway
  <2>5. CASE Drop
    BY <2>5 DEF Drop, allocator, gateway
  <2>6. CASE Disconnect
    BY <2>6 DEF Disconnect, allocator
  <2> QED BY <2>1, <2>2, <2>3, <2>4, <2>5, <2>6
<1>6. RequestOf(op.kind, op.object).kind \notin SessionKinds
  BY <1>2, OperationRequests
<1>7. /\ pending'.kind \notin SessionKinds /\ asked'.kind \notin SessionKinds
      /\ orphan'.kind \notin SessionKinds
  BY <1>2, <1>5, <1>6, NoRequestKind DEF Apart
<1> QED BY <1>2, <1>4, <1>5, <1>7, ApartKept

-----------------------------------------------------------------------------
\* SessionInv holds at first.
LEMMA SessionInit == DiscoveryInit => SessionInv
<1> SUFFICES ASSUME DiscoveryInit PROVE SessionInv
  OBVIOUS
<1>1. /\ running = [s \in Ids |-> 0] /\ sessions = {} /\ active = {} /\ op = NoOp
      /\ pending = NoRequest /\ asked = NoRequest /\ orphan = NoRequest
  BY DEF DiscoveryInit, ExchangeInit, Init
<1>2. Apart
  BY <1>1, NoRequestKind DEF Apart
<1> QED BY <1>1, <1>2 DEF SessionInv

\* Every step keeps SessionInv.
LEMMA SessionNext == TypeOK /\ SessionInv /\ [DiscoveryNext]_discoveryVars => SessionInv'
<1> SUFFICES ASSUME TypeOK, SessionInv, [DiscoveryNext]_discoveryVars PROVE SessionInv'
  OBVIOUS
<1>1. CASE UNCHANGED discoveryVars
  <2>1. UNCHANGED sessionVars
    BY <1>1 DEF discoveryVars, sessionVars, allocator, exchange, client, streams
  <2> QED BY <2>1, SessionStutter
<1>2. CASE ExchangeStep
  <2>1. UNCHANGED <<client, streams>>
    BY <1>2 DEF ExchangeStep
  <2>2. CASE op = NoOp /\ orphan = NoRequest /\ stream = <<>> /\ (Send \/ AllocatorStep \/ Noise \/ Carry)
    BY <2>1, <2>2, SendSessions, AllocateSessions, NoiseSessions, CarrySessions
  <2>3. CASE GatewayAccepts
    BY <2>1, <2>3, AcceptSessions
  <2>4. CASE GatewayAnswers
    BY <2>1, <2>4, RefuseSessions
  <2>5. CASE GatewayFinishes
    BY <2>1, <2>5, FinishSessions
  <2>6. CASE expire_sessions
    BY <2>1, <2>6, SessionsExpire
  <2> QED BY <1>2, <2>2, <2>3, <2>4, <2>5, <2>6 DEF ExchangeStep
<1>3. CASE GatewayStreams \/ GatewayNotifies \/ GatewayChatters
  BY <1>3, StreamSessions
<1>4. CASE Begin
  BY <1>4, BeginSessions
<1>5. CASE Ask \/ AskOrphaned
  BY <1>5, AskSessions
<1>6. CASE Receive
  BY <1>6, ReceiveSessions
<1>7. CASE Expire
  BY <1>7, ExpireSessions
<1>8. CASE AskExpires \/ ReadAnswer \/ Collect \/ GiveUp \/ Drop \/ Disconnect
  BY <1>8, OperationSessions
<1> QED BY <1>1, <1>2, <1>3, <1>4, <1>5, <1>6, <1>7, <1>8 DEF DiscoveryNext

\* One session of each identifier at a time.
LEMMA SessionSingle == SessionInv => OneSessionPerId
<1> SUFFICES ASSUME SessionInv, NEW s \in Ids \ stale PROVE running[s] <= 1
  BY DEF OneSessionPerId
<1>1. CASE Apart
  <2>1. running[s] = 0
    BY <1>1 DEF Apart
  <2> QED BY <2>1
<1>2. CASE Together
  <2>1. running[s] \in {0, 1}
    BY <1>2 DEF Together, Agrees, Single
  <2> QED BY <2>1
<1> QED BY <1>1, <1>2 DEF SessionInv

\* The actor and the gateway agree but for what is on its way.
LEMMA SessionAgreement == SessionInv => SessionsAgree
<1> SUFFICES ASSUME SessionInv, NEW s \in Ids \ stale
             PROVE  /\ running[s] > 0 /\ ~InFlight(s, SessionResults \cup {Error}) => s \in sessions
                    /\ s \in sessions =>
                          running[s] > 0 \/ InFlight(s, {"SessionFinished", "WinkFinished"})
  BY DEF SessionsAgree
<1>1. CASE Apart
  <2>1. running[s] = 0 /\ sessions = {}
    BY <1>1 DEF Apart
  <2> QED BY <2>1
<1>2. CASE Together
  <2>1. Single(s, running[s], incoming) /\ Answered(s, pending, running[s], incoming)
    BY <1>2 DEF Together, Agrees
  <2>2. Tracked(s, pending, running[s], sessions, incoming)
    BY <1>2 DEF Together, Agrees
  <2>3. /\ \A i \in DOMAIN incoming : incoming[i] \in SessionFrames
        /\ s # NoSession
    BY <1>2 DEF Together, Ids, NoSession
  <2>4. ASSUME NEW i \in DOMAIN incoming, IsAnswer(incoming[i], s)
        PROVE  InFlight(s, SessionResults \cup {Error})
    <3>1. PICK f \in SessionFrames : f = incoming[i]
      BY <2>3
    <3>2. PICK kind \in SessionKinds : f.command = ConfirmationOf(kind)
      BY <2>4, <3>1 DEF IsAnswer, AnswerIds
    <3>3. /\ f.sort = 0 /\ f.text = TRUE /\ f.status \in {0, 1} /\ f.session = s
          /\ f.length \in {Tables[0][f.command].base, Tables[0][f.command].base + 1}
      BY <2>4, <3>1, AnswersAreNotEnds DEF SessionFrames, IsAnswer
    <3>4. PICK base : base = Tables[0][f.command].base
      OBVIOUS
    <3>5. f.session # NoSession /\ f.length \in {base, base + 1}
      BY <2>3, <3>3, <3>4
    <3>6. Decode(f) = Error \/ Decode(f) \in SessionResults
      BY <3>2, <3>3, <3>4, <3>5, AnswerDecodes
    <3> QED BY <3>1, <3>3, <3>6 DEF InFlight
  <2>5. ASSUME NEW i \in DOMAIN incoming, IsEnd(incoming[i], s)
        PROVE  InFlight(s, {"SessionFinished", "WinkFinished"})
    <3>1. PICK f \in SessionFrames : f = incoming[i]
      BY <2>3
    <3>2. f.session = s /\ f.command \in EndIds /\ f.command \notin AnswerIds
      BY <2>5, <3>1, AnswersAreNotEnds DEF IsEnd
    <3>3. /\ f.sort = 0 /\ f.text = TRUE /\ f.session = s /\ f.command \in EndIds
          /\ f.length = Tables[0][f.command].base
      BY <3>2 DEF SessionFrames
    <3>4. Decode(f) \in {"SessionFinished", "WinkFinished"}
      BY <2>3, <3>3, EndDecodes
    <3> QED BY <3>1, <3>3, <3>4 DEF InFlight
  <2>6. running[s] \in {0, 1}
    BY <2>1 DEF Single
  <2>7. ASSUME running[s] > 0, s \notin sessions PROVE InFlight(s, SessionResults \cup {Error})
    <3>1. Open(s, running[s], incoming)
      BY <2>6, <2>7 DEF Open
    <3> QED BY <2>2, <2>4, <2>7, <3>1 DEF Tracked
  <2>8. ASSUME s \in sessions, ~(running[s] > 0) PROVE InFlight(s, {"SessionFinished", "WinkFinished"})
    <3>1. Open(s, running[s], incoming) /\ running[s] # 1
      BY <2>2, <2>6, <2>8 DEF Tracked
    <3> QED BY <2>5, <3>1 DEF Open
  <2> QED BY <2>7, <2>8
<1> QED BY <1>1, <1>2 DEF SessionInv

\* The inductive invariant of the sessions, in every state of the exchange.
THEOREM SessionInvariant == DiscoverySpec => []SessionInv
<1>1. DiscoverySpec => []TypeOK
  BY AllocatorInside, PTL
<1> QED BY <1>1, SessionInit, SessionNext, PTL DEF DiscoverySpec

\* The gateway never runs two sessions of an identifier neither side has lost sight of,
\* for every number of identifiers and of frames on their way.
THEOREM OneSession == DiscoverySpec => []OneSessionPerId
BY SessionInvariant, SessionSingle, PTL

\* The actor and the gateway agree on the open sessions up to the frames on their way.
THEOREM Agreement == DiscoverySpec => []SessionsAgree
BY SessionInvariant, SessionAgreement, PTL

-----------------------------------------------------------------------------
(***************************************************************************)
(* The decoders: of every frame, whatever its length and its count, they    *)
(* read each byte once and none beyond its end.                             *)
(***************************************************************************)
\* A place in a table of n slots of k bytes is in one of the slots.
LEMMA Slot ==
    ASSUME NEW k \in {3, 4, 11, 17, 65}, NEW n \in Nat, NEW x \in Nat, x < k * n
    PROVE  \E i \in 0..(n - 1), b \in 0..(k - 1) : x = i * k + b
<1>1. CASE k = 3
  <2>1. x \div 3 \in 0..(n - 1) /\ x % 3 \in 0..2 /\ x = (x \div 3) * 3 + (x % 3)
    BY <1>1
  <2> QED BY <1>1, <2>1
<1>2. CASE k = 4
  <2>1. x \div 4 \in 0..(n - 1) /\ x % 4 \in 0..3 /\ x = (x \div 4) * 4 + (x % 4)
    BY <1>2
  <2> QED BY <1>2, <2>1
<1>3. CASE k = 11
  <2>1. x \div 11 \in 0..(n - 1) /\ x % 11 \in 0..10 /\ x = (x \div 11) * 11 + (x % 11)
    BY <1>3
  <2> QED BY <1>3, <2>1
<1>4. CASE k = 17
  <2>1. x \div 17 \in 0..(n - 1) /\ x % 17 \in 0..16 /\ x = (x \div 17) * 17 + (x % 17)
    BY <1>4
  <2> QED BY <1>4, <2>1
<1>5. CASE k = 65
  <2>1. x \div 65 \in 0..(n - 1) /\ x % 65 \in 0..64 /\ x = (x \div 65) * 65 + (x % 65)
    BY <1>5
  <2> QED BY <1>5, <2>1
<1> QED BY <1>1, <1>2, <1>3, <1>4, <1>5

\* A byte of a slot is a place in the table.
LEMMA InTable ==
    ASSUME NEW k \in {3, 4, 11, 17, 65}, NEW n \in Nat, NEW i \in 0..(n - 1), NEW b \in 0..(k - 1)
    PROVE  i * k \in Nat /\ i * k + b \in 0..(k * n - 1)
<1>1. CASE k = 3
  BY <1>1
<1>2. CASE k = 4
  BY <1>2
<1>3. CASE k = 11
  BY <1>3
<1>4. CASE k = 17
  BY <1>4
<1>5. CASE k = 65
  BY <1>5
<1> QED BY <1>1, <1>2, <1>3, <1>4, <1>5

EntriesRead(layout, n) == UNION {EntryBytes(layout, i) : i \in 0..(n - 1)}

\* The entries of a layout take up one place after another.
LEMMA EntriesSpan ==
    ASSUME NEW layout, NEW n \in Nat, layout.start \in Nat,
           layout.stride \in {3, 4, 11, 17, 65},
           AllBytes(layout.entry) = 0..(layout.stride - 1)
    PROVE  EntriesRead(layout, n) = layout.start..(layout.start + layout.stride * n - 1)
<1>a. PICK start \in Nat : start = layout.start
  OBVIOUS
<1>b. PICK k \in {3, 4, 11, 17, 65} : k = layout.stride
  OBVIOUS
<1> DEFINE All == UNION {EntryBytes(layout, i) : i \in 0..(n - 1)}
<1> HIDE DEF All
<1>1. \A i \in 0..(n - 1) : EntryBytes(layout, i) = {start + i * k + b : b \in 0..(k - 1)}
  BY <1>a, <1>b DEF EntryBytes, AllBytes
<1>2. PICK m \in Nat : m = k * n
  OBVIOUS
<1>3. ASSUME NEW x \in start..(start + m - 1) PROVE x \in All
  <2>1. PICK y \in Nat : y < m /\ x = start + y
    <3>1. x - start \in Nat /\ x - start < m /\ x = start + (x - start)
      OBVIOUS
    <3> QED BY <3>1
  <2>2. PICK i \in 0..(n - 1), b \in 0..(k - 1) : y = i * k + b
    BY <1>2, <2>1, Slot, ZenonT(60)
  <2>3. PICK c \in Nat : c = i * k
    BY InTable
  <2>4. y = c + b
    BY <2>2, <2>3, Zenon
  <2>5. x = start + c + b
    BY <2>1, <2>4
  <2>6. x = start + i * k + b
    BY <2>3, <2>5, Zenon
  <2>7. x \in EntryBytes(layout, i)
    BY <1>1, <2>2, <2>6
  <2> QED BY <2>2, <2>7 DEF All
<1>4. ASSUME NEW x \in All PROVE x \in start..(start + m - 1)
  <2>1. PICK i \in 0..(n - 1) : x \in EntryBytes(layout, i)
    BY DEF All
  <2>2. PICK b \in 0..(k - 1) : x = start + i * k + b
    BY <1>1, <2>1
  <2>3. i * k \in Nat /\ i * k + b \in 0..(k * n - 1)
    BY InTable
  <2>4. PICK c \in Nat : c = i * k
    BY <2>3
  <2>5. x = start + c + b /\ c + b \in 0..(m - 1)
    BY <1>2, <2>2, <2>3, <2>4, Zenon
  <2>6. start + (c + b) \in start..(start + m - 1) /\ start + (c + b) = start + c + b
    BY <2>5
  <2> QED BY <2>5, <2>6, Zenon
<1>5. All = start..(start + m - 1)
  BY <1>3, <1>4
<1> QED BY <1>a, <1>b, <1>2, <1>5 DEF All, EntriesRead

\* Every layout is sound.
LEMMA LayoutsSound ==
    ASSUME NEW frame, frame.sort \in Sorts
    PROVE  LayoutSound(LayoutOf(frame))
BY LayoutTables DEF LayoutOf

\* Products of a stride.
LEMMA Strides ==
    ASSUME NEW k \in {3, 4, 11, 17, 65}, NEW n \in Nat, NEW limit \in Nat
    PROVE  /\ k * n \in Nat /\ n * k = k * n
           /\ n <= limit => k * n <= k * limit /\ k * limit - k * (limit - n) = k * n
<1>1. CASE k = 3
  BY <1>1
<1>2. CASE k = 4
  BY <1>2
<1>3. CASE k = 11
  BY <1>3
<1>4. CASE k = 17
  BY <1>4
<1>5. CASE k = 65
  BY <1>5
<1> QED BY <1>1, <1>2, <1>3, <1>4, <1>5

\* The bytes of a prefix.
LEMMA PrefixSize == \A n \in Nat : IsFiniteSet(0..(n - 1)) /\ Cardinality(0..(n - 1)) = n
<1> TAKE n \in Nat
<1>1. /\ IsFiniteSet(0..(n - 1))
      /\ Cardinality(0..(n - 1)) = IF 0 > n - 1 THEN 0 ELSE n - 1 - 0 + 1
  BY FS_Interval
<1> QED BY <1>1

\* What is left to show once the demands on the length, the count and the contents are
\* met: the bytes read are there, and they are as many as the fields have.
Demanded(layout, frame) ==
    /\ layout.need <= frame.length
    /\ layout.entry # NoEntries => frame.count <= layout.limit
    /\ LengthRequired(layout, frame)
ReadOnce(layout, frame) ==
    LET width == Width(layout.fields) + Entries(layout, frame) * Width(layout.entry)
                 + Cardinality(LastByte(layout, frame))
    IN  /\ BytesRead(layout, frame) \subseteq Bytes(frame)
        /\ Cardinality(BytesRead(layout, frame)) = width
        /\ ~layout.open => width = frame.length - Unused(layout, frame)

\* A payload without entries.
LEMMA PlainRead ==
    ASSUME NEW layout, LayoutSound(layout), NEW frame, frame.length \in Nat,
           Demanded(layout, frame), layout.entry = NoEntries
    PROVE  ReadOnce(layout, frame)
<1>1. PICK F : F = AllBytes(layout.fields)
  OBVIOUS
<1>2. /\ layout.need \in Nat /\ layout.base \in Nat /\ Width(layout.entry) \in Nat
      /\ ~layout.tail /\ layout.variant # "NodeInformation" /\ layout.width = 0
      /\ Width(layout.fields) = Cardinality(F)
      /\ IF layout.open THEN F \subseteq 0..(layout.need - 1) ELSE F = 0..(layout.base - 1)
  BY <1>1 DEF LayoutSound
<1>3. Entries(layout, frame) = 0 /\ LastByte(layout, frame) = {} /\ Unused(layout, frame) = 0
  BY <1>2 DEF Entries, LastByte, Unused
<1>4. {EntryBytes(layout, i) : i \in 0..(Entries(layout, frame) - 1)} = {}
  BY <1>3
<1>5. BytesRead(layout, frame) = F
  BY <1>1, <1>3, <1>4 DEF BytesRead, AllBytes
<1>6. Cardinality(LastByte(layout, frame)) = 0
  BY <1>3, FS_EmptySet
<1>7. IsFiniteSet(F)
  <2>1. PICK m \in Nat : F \subseteq 0..(m - 1)
    BY <1>2
  <2>2. IsFiniteSet(0..(m - 1))
    BY PrefixSize
  <2> QED BY <2>1, <2>2, FS_Subset
<1>8. PICK w \in Nat : w = Cardinality(F)
  BY <1>7, FS_CardinalityType
<1>9. PICK e \in Nat : e = Width(layout.entry)
  BY <1>2
<1>10. Width(layout.fields) + Entries(layout, frame) * Width(layout.entry)
       + Cardinality(LastByte(layout, frame)) = w
  <2>1. w + 0 * e + 0 = w
    OBVIOUS
  <2> QED BY <1>2, <1>3, <1>6, <1>8, <1>9, <2>1
<1>11. CASE layout.open
  <2>1. layout.need <= frame.length
    BY DEF Demanded
  <2>2. F \subseteq Bytes(frame)
    BY <1>2, <1>11, <2>1 DEF Bytes
  <2> QED BY <1>5, <1>8, <1>10, <1>11, <2>2 DEF ReadOnce
<1>12. CASE ~layout.open
  <2>1. frame.length = layout.base
    BY <1>2, <1>3, <1>12 DEF Demanded, LengthRequired
  <2>2. w = layout.base
    BY <1>2, <1>8, <1>12, PrefixSize
  <2>3. F \subseteq Bytes(frame)
    BY <1>2, <1>12, <2>1 DEF Bytes
  <2>4. w = frame.length - Unused(layout, frame)
    BY <1>3, <2>1, <2>2
  <2> QED BY <1>5, <1>8, <1>10, <2>3, <2>4 DEF ReadOnce
<1> QED BY <1>11, <1>12

\* A payload with entries, after which there may be a last byte or free slots.
LEMMA CountedRead ==
    ASSUME NEW layout, LayoutSound(layout), NEW frame, frame.length \in Nat,
           frame.count \in Nat, Demanded(layout, frame), layout.entry # NoEntries
    PROVE  ReadOnce(layout, frame)
<1>1. PICK n \in Nat : n = frame.count
  OBVIOUS
<1>2. PICK k \in {3, 4, 11, 17, 65} : k = layout.stride
  BY DEF LayoutSound
<1>3. PICK start \in Nat, limit \in Nat : start = layout.start /\ limit = layout.limit
  BY DEF LayoutSound
<1>4. /\ ~layout.open /\ AllBytes(layout.fields) = 0..(start - 1)
      /\ Width(layout.fields) = Cardinality(0..(start - 1)) /\ Width(layout.entry) = k
      /\ AllBytes(layout.entry) = 0..(k - 1)
      /\ \/ /\ layout.width = k /\ layout.variant # "NodeInformation"
            /\ layout.base = start + IF layout.tail THEN 1 ELSE 0
         \/ /\ layout.width = 0 /\ layout.variant = "NodeInformation" /\ ~layout.tail
            /\ layout.base = start + k * limit
  BY <1>2, <1>3 DEF LayoutSound
<1>5. Entries(layout, frame) = n /\ n <= limit
  BY <1>1, <1>3 DEF Entries, Demanded
<1>6. PICK m \in Nat : m = k * n
  BY Strides
<1>7. EntriesRead(layout, n) = start..(start + m - 1)
  <2>1. layout.start \in Nat
    BY <1>3
  <2>2. layout.stride \in {3, 4, 11, 17, 65}
    BY <1>2
  <2>3. AllBytes(layout.entry) = 0..(layout.stride - 1)
    BY <1>2, <1>4
  <2>4. EntriesRead(layout, n) = layout.start..(layout.start + layout.stride * n - 1)
    BY <2>1, <2>2, <2>3, EntriesSpan
  <2> QED BY <1>2, <1>3, <1>6, <2>4, Zenon
<1>8. BytesRead(layout, frame) = 0..(start - 1) \cup start..(start + m - 1) \cup LastByte(layout, frame)
  BY <1>4, <1>5, <1>7 DEF BytesRead, AllBytes, EntriesRead
<1>9. Width(layout.fields) + Entries(layout, frame) * Width(layout.entry) = start + m
  <2>1. Width(layout.fields) = start
    BY <1>4, PrefixSize
  <2>2. n * k = m
    BY <1>6, Strides
  <2> QED BY <1>4, <1>5, <2>1, <2>2
<1>10. frame.length = layout.base + layout.width * n
  BY <1>4, <1>5 DEF Demanded, LengthRequired
<1>11. 0..(start - 1) \cup start..(start + m - 1) = 0..(start + m - 1)
  OBVIOUS
<1>12. CASE ~layout.tail
  <2>1. LastByte(layout, frame) = {} /\ Cardinality(LastByte(layout, frame)) = 0
    BY <1>12, FS_EmptySet DEF LastByte
  <2>2. BytesRead(layout, frame) = 0..(start + m - 1)
    BY <1>8, <1>11, <2>1
  <2>3. Cardinality(BytesRead(layout, frame)) = start + m
    BY <2>2, PrefixSize
  <2>4. Width(layout.fields) + Entries(layout, frame) * Width(layout.entry)
        + Cardinality(LastByte(layout, frame)) = start + m
    BY <1>9, <2>1
  <2>5. start + m <= frame.length /\ start + m = frame.length - Unused(layout, frame)
    <3>1. CASE layout.width = k /\ layout.variant # "NodeInformation"
      <4>1. layout.base = start
        BY <1>2, <1>4, <1>12, <3>1
      <4>2. frame.length = start + m
        BY <1>6, <1>10, <3>1, <4>1
      <4> QED BY <3>1, <4>2 DEF Unused
    <3>2. CASE layout.width = 0 /\ layout.variant = "NodeInformation"
      <4>1. PICK l \in Nat, u \in Int : l = k * limit /\ u = k * (limit - n)
        BY Strides
      <4>2. m <= l /\ l - u = m
        BY <1>5, <1>6, <4>1, Strides
      <4>3. layout.base = start + l
        BY <1>4, <3>2, <4>1
      <4>4. frame.length = start + l
        BY <1>10, <3>2, <4>3
      <4>5. Unused(layout, frame) = u
        BY <1>1, <1>2, <1>3, <3>2, <4>1 DEF Unused
      <4> QED BY <4>2, <4>4, <4>5
    <3> QED BY <1>4, <3>1, <3>2
  <2>6. BytesRead(layout, frame) \subseteq Bytes(frame)
    BY <2>2, <2>5 DEF Bytes
  <2> QED BY <2>3, <2>4, <2>5, <2>6 DEF ReadOnce
<1>13. CASE layout.tail
  <2>1. layout.width = k /\ layout.variant # "NodeInformation" /\ layout.base = start + 1
    BY <1>4, <1>13
  <2>2. frame.length = start + 1 + m
    BY <1>6, <1>10, <2>1
  <2>3. LastByte(layout, frame) = {start + m}
    BY <1>13, <2>2 DEF LastByte, At
  <2>4. Cardinality(LastByte(layout, frame)) = 1
    BY <2>3, FS_Singleton, ZenonT(60)
  <2>5. 0..(start + m - 1) \cup {start + m} = 0..((start + m + 1) - 1)
    OBVIOUS
  <2>6. BytesRead(layout, frame) = 0..((start + m + 1) - 1)
    BY <1>8, <1>11, <2>3, <2>5
  <2>7. Cardinality(BytesRead(layout, frame)) = start + m + 1
    BY <2>6, PrefixSize
  <2>8. Width(layout.fields) + Entries(layout, frame) * Width(layout.entry)
        + Cardinality(LastByte(layout, frame)) = start + m + 1
    BY <1>9, <2>4
  <2>9. start + m + 1 = frame.length - Unused(layout, frame)
    BY <2>1, <2>2 DEF Unused
  <2>10. BytesRead(layout, frame) \subseteq Bytes(frame)
    BY <2>2, <2>6 DEF Bytes
  <2> QED BY <2>7, <2>8, <2>9, <2>10 DEF ReadOnce
<1> QED BY <1>12, <1>13

\* Whatever arrives is read without a panic, and what is accepted byte by byte.
LEMMA FrameRead ==
    ASSUME NEW layout, LayoutSound(layout), NEW frame, frame.length \in Nat, frame.count \in Nat
    PROVE  /\ DecodeAs(layout, frame) # Panic
           /\ DecodeAs(layout, frame) # Error => ReadOnce(layout, frame)
<1>1. layout.variant # Panic /\ layout.need \in Nat /\ Error # Panic
  BY DEF LayoutSound, Error, Panic
<1>2. CASE frame.length < layout.need
  BY <1>1, <1>2 DEF DecodeAs
<1>3. CASE ~(frame.length < layout.need)
  <2>1. layout.need <= frame.length
    BY <1>1, <1>3
  <2>2. layout.early \subseteq Bytes(frame)
    <3>1. layout.early \subseteq 0..(layout.need - 1)
      BY DEF LayoutSound
    <3> QED BY <1>1, <2>1, <3>1 DEF Bytes
  <2>3. CASE ~Demanded(layout, frame)
    <3>1. DecodeAs(layout, frame) = Error
      BY <1>3, <2>1, <2>2, <2>3 DEF DecodeAs, Demanded, LayoutSound
    <3> QED BY <1>1, <3>1
  <2>4. CASE Demanded(layout, frame)
    <3>1. ReadOnce(layout, frame)
      BY <2>4, PlainRead, CountedRead
    <3>2. BytesRead(layout, frame) \subseteq Bytes(frame)
      BY <3>1 DEF ReadOnce
    <3>3. DecodeAs(layout, frame) \in {Error, layout.variant}
      BY <1>3, <2>2, <3>2 DEF DecodeAs
    <3> QED BY <1>1, <3>1, <3>3
  <2> QED BY <2>3, <2>4
<1> QED BY <1>2, <1>3

-----------------------------------------------------------------------------
\* A frame with which a decoder can begin.
Legible(f) == f.length \in Nat /\ f.count \in Nat /\ f.sort \in Sorts
Queue(q) == \E T : q \in Seq(T) /\ \A f \in T : Legible(f)
QueueInv == Queue(incoming) /\ Queue(stream)

\* A queue with a frame more.
LEMMA QueueAppend ==
    ASSUME NEW q, NEW f, Queue(q), Legible(f)
    PROVE  Queue(Append(q, f))
<1>1. PICK T : q \in Seq(T) /\ \A g \in T : Legible(g)
  BY DEF Queue
<1>2. PICK U : U = T \cup {f}
  OBVIOUS
<1>3. q \in Seq(U) /\ f \in U /\ \A g \in U : Legible(g)
  BY <1>1, <1>2
<1>4. Append(q, f) \in Seq(U)
  BY <1>3
<1> QED BY <1>3, <1>4 DEF Queue

\* A queue without its first frame.
LEMMA QueueRest ==
    ASSUME NEW q, Queue(q), q # <<>>
    PROVE  Legible(Head(q)) /\ Queue(SubSeq(q, 2, Len(q)))
<1>1. PICK T : q \in Seq(T) /\ \A g \in T : Legible(g)
  BY DEF Queue
<1>2. PICK t : t = SubSeq(q, 2, Len(q))
  OBVIOUS
<1>3. Head(q) \in T /\ t \in Seq(T)
  BY <1>1, <1>2, Behind
<1> QED BY <1>1, <1>2, <1>3 DEF Queue

\* The queue in which nothing is.
LEMMA QueueEmpty == Queue(<<>>)
<1>1. PICK T : T = {}
  OBVIOUS
<1>2. <<>> \in Seq(T) /\ \A f \in T : Legible(f)
  BY <1>1
<1> QED BY <1>2 DEF Queue

\* The frames the gateway makes, apart from noise, are without entries, and their text can
\* be read.
Made(f) == \E c, s, status, subject : \E l \in Nat : f = Content(c, l, s, status, subject)

\* Such a frame is legible.
LEMMA MadeLegible ==
    ASSUME NEW f, Made(f)
    PROVE  Legible(f) /\ f.count = 0 /\ f.sort = 0 /\ f.text = Readable
<1>1. PICK c, s, status, subject : \E l \in Nat : f = Content(c, l, s, status, subject)
  BY DEF Made
<1>2. PICK l \in Nat : f = Content(c, l, s, status, subject)
  BY <1>1
<1>3. f.length = l /\ f.count = 0 /\ f.sort = 0 /\ f.text = Readable
  BY <1>2, ContentRead
<1>4. 0 \in Sorts
  BY DEF Sorts
<1> QED BY <1>3, <1>4 DEF Legible

\* A frame of the length its decoder demands, of any command.
LEMMA Measured ==
    ASSUME NEW c, NEW s, NEW status
    PROVE  \E l \in Nat : WellFormed(Frame(c, 0, s, status)) = Content(c, l, s, status, 0)
<1>1. PICK f : f = Frame(c, 0, s, status)
  OBVIOUS
<1>2. f = Content(c, 0, s, status, 0)
  BY <1>1, Zenon DEF Frame, Content, Readable
<1>3. f.sort = 0 /\ 0 \in Sorts
  BY <1>2, ContentRead DEF Sorts
<1>4. PICK l \in Nat : l = LayoutOf(f).base
  BY <1>3, LayoutsSound DEF LayoutSound
<1>5. PICK g : g = WellFormed(f)
  OBVIOUS
<1>6. g = [f EXCEPT !.length = l]
  BY <1>4, <1>5 DEF WellFormed
<1>7. g = Content(c, l, s, status, 0)
  BY <1>2, <1>6, LengthChanged
<1> QED BY <1>1, <1>5, <1>7

\* What a confirmation contains.
LEMMA ConfirmationMade ==
    ASSUME NEW request, NEW status
    PROVE  \E l \in Nat : Confirmation(request, status) =
               Content(Id[CFM(StemAsked(request))], l, SessionAnswered(request), status, request.subject)
<1>1. PICK c, s, x : c = Id[CFM(StemAsked(request))] /\ s = SessionAnswered(request) /\ x = request.subject
  OBVIOUS
<1>2. PICK w : w = WellFormed(Frame(c, 0, s, status))
  OBVIOUS
<1>3. PICK l \in Nat : w = Content(c, l, s, status, 0)
  BY <1>2, Measured
<1>4. PICK g : g = Confirmation(request, status)
  OBVIOUS
<1>5. g = [w EXCEPT !.subject = x]
  BY <1>1, <1>2, <1>4 DEF Confirmation
<1>6. g = Content(c, l, s, status, x)
  BY <1>3, <1>5, SubjectChanged
<1> QED BY <1>1, <1>4, <1>6

\* So the gateway makes every confirmation, one that cannot be read too.
LEMMA ConfirmationsMade ==
    ASSUME NEW request, NEW status, NEW extra \in {0, 1}, NEW subject
    PROVE  /\ Made([Confirmation(request, status) EXCEPT !.length = @ + extra])
           /\ Made([Confirmation(request, status) EXCEPT !.subject = subject])
           /\ Made(Confirmation(request, status))
<1>1. PICK c, s, x : c = Id[CFM(StemAsked(request))] /\ s = SessionAnswered(request) /\ x = request.subject
  OBVIOUS
<1>2. PICK g : g = Confirmation(request, status)
  OBVIOUS
<1>3. PICK l \in Nat : g = Content(c, l, s, status, x)
  BY <1>1, <1>2, ConfirmationMade
<1>4. PICK m \in Nat : m = l + extra
  OBVIOUS
<1>5. PICK f, h : f = [g EXCEPT !.length = m] /\ h = [g EXCEPT !.subject = subject]
  OBVIOUS
<1>6. f = Content(c, m, s, status, x)
  BY <1>3, <1>5, LengthChanged
<1>7. h = Content(c, l, s, status, subject)
  BY <1>3, <1>5, SubjectChanged
<1>8. Made(f) /\ Made(g) /\ Made(h)
  BY <1>3, <1>6, <1>7, Zenon DEF Made
<1>9. g.length = l
  BY <1>3, ContentRead
<1>10. [Confirmation(request, status) EXCEPT !.length = @ + extra] = f
  BY <1>2, <1>4, <1>5, <1>9
<1> QED BY <1>2, <1>5, <1>8, <1>10

\* What a notification of a stream contains.
LEMMA AboutMade ==
    ASSUME NEW stem, NEW subject
    PROVE  \E l \in Nat : About(stem, subject) = Content(Id[NTF(stem)], l, NoSession, 0, subject)
<1>1. PICK c : c = Id[NTF(stem)]
  OBVIOUS
<1>2. PICK w : w = WellFormed(Frame(c, 0, NoSession, 0))
  OBVIOUS
<1>3. PICK l \in Nat : w = Content(c, l, NoSession, 0, 0)
  BY <1>2, Measured
<1>4. PICK g : g = About(stem, subject)
  OBVIOUS
<1>5. g = [w EXCEPT !.subject = subject]
  BY <1>1, <1>2, <1>4 DEF About
<1>6. g = Content(c, l, NoSession, 0, subject)
  BY <1>3, <1>5, SubjectChanged
<1> QED BY <1>1, <1>4, <1>6

\* So the gateway makes every notification of a stream.
LEMMA NotificationMade == \A stem, subject : Made(About(stem, subject))
<1> TAKE stem, subject
<1>1. PICK c, g : c = Id[NTF(stem)] /\ g = About(stem, subject)
  OBVIOUS
<1>2. PICK l \in Nat : g = Content(c, l, NoSession, 0, subject)
  BY <1>1, AboutMade
<1>3. Made(g)
  BY <1>2, Zenon DEF Made
<1> QED BY <1>1, <1>3

\* What arrives while nothing is going on is legible.
LEMMA NoiseLegible == Noise => \E f : Legible(f) /\ incoming' = <<f>>
<1> SUFFICES ASSUME Noise PROVE \E f : Legible(f) /\ incoming' = <<f>>
  OBVIOUS
<1>1. PICK command \in KnownIds \cup {NotKnown} : \E sort \in SortsOf(command) :
         \E count \in Counts(LayoutOf(Blank(command, sort))), s \in {NoSession, 1}, text \in BOOLEAN :
         \E length \in Lengths(LayoutOf(Blank(command, sort)), count) :
            incoming' = <<Filled(Blank(command, sort), count, length, s, text)>>
  BY DEF Noise
<1>a. PICK sort \in SortsOf(command) :
         \E count \in Counts(LayoutOf(Blank(command, sort))), s \in {NoSession, 1}, text \in BOOLEAN :
         \E length \in Lengths(LayoutOf(Blank(command, sort)), count) :
            incoming' = <<Filled(Blank(command, sort), count, length, s, text)>>
  BY <1>1, Zenon
<1>2. PICK blank, layout : blank = Blank(command, sort) /\ layout = LayoutOf(Blank(command, sort))
  OBVIOUS
<1>3. PICK count \in Counts(layout), s \in {NoSession, 1}, text \in BOOLEAN :
         \E length \in Lengths(layout, count) : incoming' = <<Filled(blank, count, length, s, text)>>
  BY <1>a, <1>2, Zenon
<1>4. PICK length \in Lengths(layout, count) : incoming' = <<Filled(blank, count, length, s, text)>>
  BY <1>3, Zenon
<1>5. PICK f, g : f = Filled(blank, count, length, s, text) /\ g = Frame(command, 0, NoSession, 0)
  OBVIOUS
<1>6. g = Content(command, 0, NoSession, 0, 0)
  BY <1>5, Zenon DEF Frame, Content, Readable
<1>7. blank = [g EXCEPT !.sort = sort]
  BY <1>2, <1>5 DEF Blank
<1>8. f = [blank EXCEPT !.count = count, !.length = length, !.session = s, !.text = text]
  BY <1>5 DEF Filled
<1>9. f.count = count /\ f.length = length /\ f.sort = sort
  BY <1>6, <1>7, <1>8 DEF Content
<1>10. sort \in Sorts
  BY DEF SortsOf, Sorts
<1>11. count \in Nat
  BY DEF Counts
<1>12. length \in Nat
  BY DEF Lengths
<1>13. Legible(f)
  BY <1>9, <1>10, <1>11, <1>12 DEF Legible
<1> QED BY <1>4, <1>5, <1>13, Zenon

\* A stream.
LEMMA StreamMade ==
    ASSUME NEW kind, NEW subjects, NEW T, subjects \in Seq(T)
    PROVE  \E U : Notifications(kind, subjects) \in Seq(U) /\ \A f \in U : Made(f)
<1> DEFINE all == [i \in DOMAIN subjects |-> About(NotificationOf[kind], subjects[i])]
           end == IF kind \in DOMAIN FinishedOf THEN <<About(FinishedOf[kind], 0)>> ELSE <<>>
<1>1. PICK U : U = {About(NotificationOf[kind], subjects[i]) : i \in DOMAIN subjects}
                   \cup {About(FinishedOf[kind], 0)}
  OBVIOUS
<1>2. \A f \in U : Made(f)
  BY <1>1, NotificationMade
<1>3. PICK n \in Nat : DOMAIN subjects = 1..n
  OBVIOUS
<1>4. all \in Seq(U)
  <2>1. \A i \in 1..n : all[i] \in U
    BY <1>1, <1>3
  <2> QED BY <1>3, <2>1
<1>5. end \in Seq(U)
  <2>1. PICK f \in U : f = About(FinishedOf[kind], 0)
    BY <1>1
  <2>2. <<f>> \in Seq(U) /\ <<>> \in Seq(U)
    OBVIOUS
  <2> QED BY <2>1, <2>2, Zenon
<1>6. Notifications(kind, subjects) = all \o end
  BY DEF Notifications
<1> HIDE DEF all, end
<1>7. Notifications(kind, subjects) \in Seq(U)
  BY <1>4, <1>5, <1>6
<1> QED BY <1>2, <1>7

\* What a stream is about is a sequence.
LEMMA SubjectsSequence ==
    ASSUME NEW request, NEW subjects \in Subjects(request)
    PROVE  \E T : subjects \in Seq(T)
<1>1. CASE request.kind = "GetNodeInformation"
  <2>1. subjects = <<request.subject>>
    BY <1>1 DEF Subjects
  <2>2. subjects \in Seq({request.subject})
    BY <2>1
  <2> QED BY <2>2
<1>2. CASE request.kind # "GetNodeInformation"
  <2>1. subjects \in Seq(Nat)
    BY <1>2, DiscoveryAssumption DEF Subjects
  <2> QED BY <2>1
<1> QED BY <1>1, <1>2

\* Notifications that belong to nothing.
LEMMA ChatterMade == \A f \in Chatter : Made(f)
<1>1. PICK c, g : c = Id[NTF("NODE_STATE_POSITION_CHANGED")] /\ g = About("NODE_STATE_POSITION_CHANGED", 1)
  OBVIOUS
<1>2. PICK l \in Nat : g = Content(c, l, NoSession, 0, 1)
  BY <1>1, AboutMade
<1>3. PICK m \in Nat : m = 19
  OBVIOUS
<1>4. PICK f : f = [g EXCEPT !.length = m]
  OBVIOUS
<1>5. f = Content(c, m, NoSession, 0, 1)
  BY <1>2, <1>4, LengthChanged
<1>6. Made(f)
  BY <1>5, Zenon DEF Made
<1>7. Made(About("GET_GROUP_INFORMATION", 2))
  BY NotificationMade
<1> QED BY <1>1, <1>3, <1>4, <1>6, <1>7 DEF Chatter

\* The frames on their way are legible at first.
LEMMA QueueInit == DiscoveryInit => QueueInv
BY QueueEmpty DEF DiscoveryInit, ExchangeInit, QueueInv

\* Every step keeps them so.
LEMMA QueueNext == QueueInv /\ [DiscoveryNext]_discoveryVars => QueueInv'
<1> SUFFICES ASSUME QueueInv, [DiscoveryNext]_discoveryVars PROVE QueueInv'
  OBVIOUS
<1>0. Queue(incoming) /\ Queue(stream)
  BY DEF QueueInv
<1>a. ASSUME Queue(incoming'), Queue(stream') PROVE QueueInv'
  <2>1. Queue(incoming)' /\ Queue(stream)'
    BY <1>a DEF Queue, Legible
  <2> QED BY <2>1 DEF QueueInv
<1>1. CASE UNCHANGED <<incoming, stream>>
  BY <1>0, <1>1, <1>a
<1>2. CASE ExchangeStep
  <2>1. stream' = stream
    BY <1>2 DEF ExchangeStep, streams
  <2>2. CASE Send \/ AllocatorStep \/ Carry \/ expire_sessions
    <3>1. CASE Send
      BY <1>1, <2>1, <3>1 DEF Send, Dispatch
    <3>2. CASE AllocatorStep
      BY <1>1, <2>1, <3>2 DEF AllocatorStep
    <3>3. CASE Carry
      BY <1>1, <2>1, <3>3, Zenon DEF Carry
    <3>4. CASE expire_sessions
      BY <1>1, <2>1, <3>4 DEF expire_sessions
    <3> QED BY <2>2, <3>1, <3>2, <3>3, <3>4
  <2>3. CASE Noise
    <3>1. PICK f : Legible(f) /\ incoming' = <<f>>
      BY <2>3, NoiseLegible
    <3>2. Append(<<>>, f) = <<f>>
      OBVIOUS
    <3>3. Queue(incoming')
      BY <3>1, <3>2, QueueEmpty, QueueAppend
    <3> QED BY <1>0, <1>a, <2>1, <3>3
  <2>4. CASE GatewayAccepts
    <3>1. PICK extra \in {0, 1} : incoming' =
             Append(incoming, [Confirmation(asked, AcceptStatus(asked.kind)) EXCEPT !.length = @ + extra])
      BY <2>4 DEF GatewayAccepts
    <3>2. PICK f : f = [Confirmation(asked, AcceptStatus(asked.kind)) EXCEPT !.length = @ + extra]
      OBVIOUS
    <3>3. Legible(f)
      BY <3>2, ConfirmationsMade, MadeLegible
    <3> QED BY <1>0, <1>a, <2>1, <3>1, <3>2, <3>3, QueueAppend
  <2>5. CASE GatewayAnswers
    <3>1. PICK status : status = IF asked.kind \in SessionKinds THEN 1 - AcceptStatus(asked.kind) ELSE 0
      OBVIOUS
    <3>2. PICK extra \in {0, 1} : incoming' =
             Append(incoming, [Confirmation(asked, status) EXCEPT !.length = @ + extra])
      BY <2>5, <3>1 DEF GatewayAnswers
    <3>3. PICK f : f = [Confirmation(asked, status) EXCEPT !.length = @ + extra]
      OBVIOUS
    <3>4. Legible(f)
      BY <3>3, ConfirmationsMade, MadeLegible
    <3> QED BY <1>0, <1>a, <2>1, <3>2, <3>3, <3>4, QueueAppend
  <2>6. CASE GatewayFinishes
    <3>1. PICK s \in Ids, kind \in {"Wink", "CommandSend"} : incoming' = Append(incoming, Finished(kind, s))
      BY <2>6 DEF GatewayFinishes
    <3>2. PICK c, f : f = Finished(kind, s) /\ f = WellFormed(Frame(c, 0, s, 0))
      BY DEF Finished
    <3>3. PICK l \in Nat : f = Content(c, l, s, 0, 0)
      BY <3>2, Measured
    <3>4. Legible(f)
      <4>1. Made(f)
        BY <3>3, Zenon DEF Made
      <4> QED BY <4>1, MadeLegible
    <3> QED BY <1>0, <1>a, <2>1, <3>1, <3>2, <3>4, QueueAppend
  <2> QED BY <1>2, <2>2, <2>3, <2>4, <2>5, <2>6 DEF ExchangeStep
<1>3. CASE GatewayStreams
  <2>1. ASSUME NEW subjects \in Subjects(asked), NEW confirmed,
               stream' = Notifications(asked.kind, subjects),
               incoming' = Append(incoming, [Confirmation(asked, 0) EXCEPT !.subject = confirmed])
        PROVE  QueueInv'
    <3>1. \E T : subjects \in Seq(T)
      BY SubjectsSequence
    <3>2. Queue(stream')
      <4>1. PICK U : stream' \in Seq(U) /\ \A f \in U : Made(f)
        BY <2>1, <3>1, StreamMade
      <4>2. \A f \in U : Legible(f)
        BY <4>1, MadeLegible
      <4> QED BY <4>1, <4>2 DEF Queue
    <3>3. PICK f : f = [Confirmation(asked, 0) EXCEPT !.subject = confirmed]
      OBVIOUS
    <3>4. Legible(f)
      <4>1. 0 \in {0, 1}
        OBVIOUS
      <4> QED BY <3>3, <4>1, ConfirmationsMade, MadeLegible
    <3>5. Queue(incoming')
      BY <1>0, <2>1, <3>3, <3>4, QueueAppend
    <3> QED BY <1>a, <3>2, <3>5
  <2>2. ASSUME NEW status, incoming' = Append(incoming, Confirmation(asked, status)), UNCHANGED stream
        PROVE  QueueInv'
    <3>1. PICK f : f = Confirmation(asked, status)
      OBVIOUS
    <3>2. Legible(f)
      <4>1. 0 \in {0, 1}
        OBVIOUS
      <4> QED BY <3>1, <4>1, ConfirmationsMade, MadeLegible
    <3>3. Queue(incoming')
      BY <1>0, <2>2, <3>1, <3>2, QueueAppend
    <3> QED BY <1>0, <1>a, <2>2, <3>3
  <2> QED BY <1>3, <2>1, <2>2 DEF GatewayStreams
<1>4. CASE GatewayNotifies
  <2>1. /\ stream # <<>> /\ incoming' = Append(incoming, Head(stream))
        /\ stream' = SubSeq(stream, 2, Len(stream))
    BY <1>4 DEF GatewayNotifies
  <2>2. Legible(Head(stream)) /\ Queue(SubSeq(stream, 2, Len(stream)))
    BY <1>0, <2>1, QueueRest
  <2>3. Queue(incoming')
    BY <1>0, <2>1, <2>2, QueueAppend
  <2> QED BY <1>a, <2>1, <2>2, <2>3
<1>5. CASE GatewayChatters
  <2>1. PICK f \in Chatter : incoming' = Append(incoming, f)
    BY <1>5 DEF GatewayChatters
  <2>2. Legible(f) /\ stream' = stream
    BY <1>5, ChatterMade, MadeLegible DEF GatewayChatters, streams
  <2> QED BY <1>0, <1>a, <2>1, <2>2, QueueAppend
<1>6. CASE Receive
  <2>1. incoming # <<>> /\ incoming' = SubSeq(incoming, 2, Len(incoming)) /\ stream' = stream
    BY <1>6 DEF Receive, handle_frame, streams
  <2>2. Queue(SubSeq(incoming, 2, Len(incoming)))
    BY <1>0, <2>1, QueueRest
  <2> QED BY <1>0, <1>a, <2>1, <2>2
<1>7. CASE Disconnect
  BY <1>7, <1>a, QueueEmpty DEF Disconnect
<1>8. CASE Begin \/ AskExpires \/ ReadAnswer \/ Collect \/ GiveUp \/ Drop
  BY <1>1, <1>8 DEF Begin, AskExpires, ReadAnswer, Collect, GiveUp, Drop, streams
<1>9. CASE Ask \/ AskOrphaned
  BY <1>1, <1>9 DEF Ask, AskOrphaned, Dispatch, streams
<1>10. CASE Expire
  BY <1>1, <1>10 DEF Expire, expire_request, streams
<1>11. CASE UNCHANGED discoveryVars
  BY <1>1, <1>11 DEF discoveryVars, exchange, streams
<1> QED BY <1>2, <1>3, <1>4, <1>5, <1>6, <1>7, <1>8, <1>9, <1>10, <1>11 DEF DiscoveryNext

\* No frame, whatever its length, its count and its contents, makes a decoder read beyond
\* the payload, and every byte of one that is accepted goes into one field.
THEOREM EveryFrameRead ==
    \A frame : Legible(frame) =>
        LET layout == LayoutOf(frame)
            width == Width(layout.fields) + Entries(layout, frame) * Width(layout.entry)
                     + Cardinality(LastByte(layout, frame))
        IN  /\ Decode(frame) # Panic
            /\ Decode(frame) # Error =>
                  /\ Cardinality(BytesRead(layout, frame)) = width
                  /\ ~layout.open => width = frame.length - Unused(layout, frame)
<1> SUFFICES ASSUME NEW frame, Legible(frame)
             PROVE  /\ Decode(frame) # Panic
                    /\ Decode(frame) # Error => ReadOnce(LayoutOf(frame), frame)
  BY DEF ReadOnce
<1>1. PICK layout : layout = LayoutOf(frame)
  OBVIOUS
<1>2. LayoutSound(layout) /\ frame.length \in Nat /\ frame.count \in Nat
  BY <1>1, LayoutsSound DEF Legible
<1>3. /\ DecodeAs(layout, frame) # Panic
      /\ DecodeAs(layout, frame) # Error => ReadOnce(layout, frame)
  BY <1>2, FrameRead
<1> QED BY <1>1, <1>3 DEF Decode

\* So it is with every frame the actor handles.
THEOREM PayloadsRead == DiscoverySpec => []PayloadRead
<1>1. QueueInv => PayloadRead
  <2> SUFFICES ASSUME QueueInv, incoming # <<>> PROVE PayloadRead
    BY DEF PayloadRead
  <2>1. Legible(Head(incoming))
    BY QueueRest DEF QueueInv
  <2> QED BY <2>1, EveryFrameRead DEF PayloadRead
<1> QED BY <1>1, QueueInit, QueueNext, PTL DEF DiscoverySpec

-----------------------------------------------------------------------------
(***************************************************************************)
(* The encoders.                                                           *)
(***************************************************************************)
\* A byte moved to the left by two bits: of a byte below 64 none is lost.
Left(x) == (x * 4) % 256
\* Below 64 the shift is a multiplication by four.
LEMMA Shifts == \A x \in 0..63 : Left(x) = 4 * x
<1>1. ASSUME NEW x \in 0..63
      PROVE  Left(x) = 4 * x
  <2>1. PICK y \in Nat : y = 4 * x /\ y < 256
    OBVIOUS
  <2>2. y % 256 = y
    BY <2>1
  <2> QED BY <2>1, <2>2 DEF Left
<1> QED BY <1>1

\* Four settings of two bits are packed into a byte and found in it again.
LEMMA PackUnpack ==
    ASSUME NEW settings \in Seq(0..3), Len(settings) = 4
    PROVE  Unpacked(pack_two_bit_settings(settings)) = settings
<1>1. PICK a \in 0..3, b \in 0..3, c \in 0..3, d \in 0..3 :
         a = settings[1] /\ b = settings[2] /\ c = settings[3] /\ d = settings[4]
  OBVIOUS
<1>s. Left(0) = 0 /\ Left(a) = 4 * a /\ Left(4 * a + b) = 16 * a + 4 * b
      /\ Left(16 * a + 4 * b + c) = 64 * a + 16 * b + 4 * c
  <2>1. 0 \in 0..63 /\ a \in 0..63 /\ 4 * a + b \in 0..63 /\ 16 * a + 4 * b + c \in 0..63
    OBVIOUS
  <2>2. Left(0) = 4 * 0 /\ Left(a) = 4 * a /\ Left(4 * a + b) = 4 * (4 * a + b)
        /\ Left(16 * a + 4 * b + c) = 4 * (16 * a + 4 * b + c)
    BY <2>1, Shifts
  <2> QED BY <2>2
<1> DEFINE Body(f) == [i \in 0..Len(settings) |->
                          IF i = 0 THEN 0 ELSE Left(f[i - 1]) + settings[i]]
           g == [i \in 0..4 |-> IF i = 0 THEN 0 ELSE IF i = 1 THEN a ELSE IF i = 2 THEN 4 * a + b
                                ELSE IF i = 3 THEN 16 * a + 4 * b + c
                                ELSE 64 * a + 16 * b + 4 * c + d]
           p == CHOOSE f : f = Body(f)
<1>2. g = Body(g)
  <2>1. g[0] = 0 /\ g[1] = a /\ g[2] = 4 * a + b /\ g[3] = 16 * a + 4 * b + c
        /\ g[4] = 64 * a + 16 * b + 4 * c + d
    OBVIOUS
  <2>2. DOMAIN g = 0..4 /\ g = [i \in 0..4 |-> g[i]]
    OBVIOUS
  <2> HIDE DEF g
  <2>s. Left(g[0]) = 0 /\ Left(g[1]) = 4 * a /\ Left(g[2]) = 16 * a + 4 * b
        /\ Left(g[3]) = 64 * a + 16 * b + 4 * c
    BY <2>1, <1>s
  <2>3. Body(g)[0] = g[0]
    BY <2>1
  <2>4. Body(g)[1] = g[1]
    <3>1. Body(g)[1] = Left(g[0]) + settings[1]
      OBVIOUS
    <3> QED BY <3>1, <1>1, <2>1, <2>s
  <2>5. Body(g)[2] = g[2]
    BY <1>1, <2>1, <2>s, SMTT(60)
  <2>6. Body(g)[3] = g[3]
    BY <1>1, <2>1, <2>s
  <2>7. Body(g)[4] = g[4]
    BY <1>1, <2>1, <2>s
  <2>8. \A i \in 0..4 : Body(g)[i] = g[i]
    BY <2>3, <2>4, <2>5, <2>6, <2>7
  <2>9. Body(g) = [i \in 0..4 |-> Body(g)[i]]
    OBVIOUS
  <2> QED BY <2>2, <2>8, <2>9
<1>3. p = Body(p)
  BY <1>2, Zenon
<1>4. pack_two_bit_settings(settings) = p[4]
  BY DEF pack_two_bit_settings, Left
<1> HIDE DEF p, g
<1>5. p[0] = 0 /\ p[1] = Left(p[0]) + settings[1]
      /\ p[2] = Left(p[1]) + settings[2]
      /\ p[3] = Left(p[2]) + settings[3] /\ p[4] = Left(p[3]) + settings[4]
  BY <1>3
<1>a. p[1] = a
  BY <1>1, <1>5, <1>s
<1>b. p[2] = 4 * a + b
  BY <1>1, <1>5, <1>a, <1>s
<1>c. p[3] = 16 * a + 4 * b + c
  BY <1>1, <1>5, <1>b, <1>s
<1>6. p[4] = 64 * a + 16 * b + 4 * c + d
  BY <1>1, <1>5, <1>c, <1>s
<1>7. PICK v \in Nat : v = p[4]
  BY <1>6
<1>8. v \div 64 = a /\ (v \div 16) % 4 = b /\ (v \div 4) % 4 = c /\ v % 4 = d
  BY <1>6, <1>7
<1>9. settings = <<a, b, c, d>>
  BY <1>1
<1> QED BY <1>4, <1>7, <1>8, <1>9 DEF Unpacked

\* A request as the client's types have it: of one of the kinds, for a number of nodes,
\* with four priority settings; or raw.
OfKind(request) ==
    /\ request.kind \in Kinds /\ request.nodes \in Nat
    /\ request.settings \in Seq(Nat) /\ Len(request.settings) = 4
Posed(request) == request.kind = "Raw" \/ OfKind(request)

\* The gateway can read every request that a client can build and the actor encodes.
THEOREM EveryRequestReadable ==
    \A request : Posed(request) /\ Built(request) /\ Encodes(request) /\ request.kind # "Raw"
                 => ReadableAs(PayloadOf[request.kind], request)
<1> SUFFICES ASSUME NEW request, Posed(request), Built(request), Encodes(request),
                    request.kind # "Raw"
             PROVE  ReadableAs(PayloadOf[request.kind], request)
  OBVIOUS
<1>1. OfKind(request) /\ request.kind \in Kinds
  BY DEF Posed, OfKind
<1>2. Laid(request.kind, PayloadOf[request.kind])
  BY <1>1, RequestTables
<1>3. ASSUME request.kind \in TargetKinds
      PROVE  request.nodes \in 1..Cardinality(PayloadOf[request.kind].fields.nodes)
  <2>1. CommandTarget_new(request.nodes, request.repeated)
    BY <1>3 DEF Built
  <2>n. PICK n \in Nat : n = request.nodes
    BY <1>1 DEF OfKind
  <2>2. n > 0 /\ n <= 20
    BY <2>1, <2>n DEF CommandTarget_new, MAX_TARGETS
  <2>3. Cardinality(PayloadOf[request.kind].fields.nodes) = 20
    BY <1>1, <1>3, RequestTables
  <2> QED BY <2>n, <2>2, <2>3
<1>4. ASSUME request.kind \in PackedKinds
      PROVE  Unpacked(pack_two_bit_settings(request.settings)) = request.settings
  <2>1. PICK settings \in Seq(Nat) : settings = request.settings /\ Len(settings) = 4
    BY <1>1 DEF OfKind
  <2>2. validate_priority_settings(settings)
    BY <1>4, <2>1 DEF Encodes, SettingKinds
  <2>3. \A i \in 1..4 : settings[i] \in 0..3
    BY <2>1, <2>2 DEF validate_priority_settings
  <2>4. DOMAIN settings = 1..4 /\ settings = [i \in 1..4 |-> settings[i]] /\ 4 \in Nat
    BY <2>1, SMTT(60)
  <2>5. settings \in [1..4 -> 0..3]
    BY <2>3, <2>4, Zenon
  <2>6. settings \in Seq(0..3)
    BY <2>4, <2>5, SeqDef
  <2> QED BY <2>1, <2>6, PackUnpack
<1> QED BY <1>2, <1>3, <1>4 DEF ReadableAs

\* The requests of the operations have neither targets nor settings.
LEMMA StreamReadable ==
    \A request : request.kind \in StreamKinds => ReadableAs(PayloadOf[request.kind], request)
<1> SUFFICES ASSUME NEW request, request.kind \in StreamKinds
             PROVE  ReadableAs(PayloadOf[request.kind], request)
  OBVIOUS
<1>1. Laid(request.kind, PayloadOf[request.kind])
  BY RequestTables
<1>2. request.kind \notin TargetKinds /\ request.kind \notin PackedKinds
  BY DEF StreamKinds, TargetKinds, PackedKinds
<1> QED BY <1>1, <1>2 DEF ReadableAs

\* The requests of the operations.
LEMMA OperationStreams ==
    ASSUME NEW kind \in OpKinds, NEW object
    PROVE  RequestOf(kind, object).kind \in StreamKinds
<1>1. CASE kind = "discover_nodes"
  <2>1. RequestOf(kind, object) = Plain("GetAllNodesInformation", NoSession)
    BY <1>1 DEF RequestOf
  <2> QED BY <2>1 DEF Plain, StreamKinds
<1>2. CASE kind = "discover_groups"
  <2>1. RequestOf(kind, object) = Plain("GetAllGroups", NoSession)
    BY <1>2 DEF RequestOf
  <2> QED BY <2>1 DEF Plain, StreamKinds
<1>3. CASE kind = "node_information"
  <2>1. RequestOf(kind, object) = [Plain("GetNodeInformation", NoSession) EXCEPT !.subject = object]
    BY <1>3 DEF RequestOf
  <2> QED BY <2>1 DEF Plain, StreamKinds
<1> QED BY <1>1, <1>2, <1>3 DEF OpKinds

\* The requests of a client are as its types have them.
LEMMA RequestsPosed ==
    \A request \in Requests :
        OfKind(request) \/ (request.kind = "Raw" /\ request.command \in RawCommands)
<1>0. <<0, 1, 2, 3>> \in Seq(Nat) /\ Len(<<0, 1, 2, 3>>) = 4
  OBVIOUS
<1>1. ASSUME NEW kind \in Kinds, NEW s PROVE OfKind(Plain(kind, s))
  BY <1>0 DEF OfKind, Plain
<1>2. \A request \in Contentless : OfKind(request)
  BY <1>1 DEF Contentless
<1>3. \A request \in WithText : OfKind(request)
  <2>1. ASSUME NEW kind \in DOMAIN TextWidth, NEW text
        PROVE  OfKind([Plain(kind, NoSession) EXCEPT !.text = text])
    <3>1. kind \in Kinds
      BY RequestTables
    <3> QED BY <1>0, <3>1 DEF OfKind, Plain
  <2> QED BY <2>1 DEF WithText
<1>4. \A request \in WithSettings : OfKind(request)
  <2> SUFFICES ASSUME NEW request \in WithSettings PROVE OfKind(request)
    OBVIOUS
  <2>1. PICK kind \in SettingKinds,
             settings \in {<<0, 0, 0, 0>>, <<3, 3, 3, 3>>, <<0, 4, 0, 0>>} :
          request = [Plain(kind, IF kind \in SessionKinds THEN 1 ELSE NoSession)
                        EXCEPT !.settings = settings]
    BY DEF WithSettings
  <2>2. kind \in Kinds
    BY RequestTables
  <2>3. settings \in Seq(Nat) /\ Len(settings) = 4
    <3>1. CASE settings = <<0, 0, 0, 0>>
      BY <3>1
    <3>2. CASE settings = <<3, 3, 3, 3>>
      BY <3>2
    <3>3. CASE settings = <<0, 4, 0, 0>>
      BY <3>3
    <3> QED BY <3>1, <3>2, <3>3
  <2>4. request.kind = kind /\ request.nodes = 1 /\ request.settings = settings
    BY <2>1 DEF Plain
  <2> QED BY <2>2, <2>3, <2>4 DEF OfKind
<1>5. \A request \in WithTarget : OfKind(request)
  <2> SUFFICES ASSUME NEW request \in WithTarget PROVE OfKind(request)
    OBVIOUS
  <2>1. PICK kind \in TargetKinds, n \in {0, 1, 20, 21}, r \in BOOLEAN : request = Aimed(kind, n, r)
    BY DEF WithTarget
  <2>2. kind \in Kinds /\ n \in Nat
    BY RequestTables
  <2>3. request.kind = kind /\ request.nodes = n /\ request.settings = <<0, 1, 2, 3>>
    BY <2>1 DEF Plain, Aimed
  <2> QED BY <1>0, <2>2, <2>3 DEF OfKind
<1>6. \A request \in WithSession : OfKind(request)
  <2>1. SessionKinds \subseteq Kinds
    BY RequestTables
  <2> QED BY <1>1, <2>1 DEF WithSession
<1>7. \A request \in WithCommand : request.kind = "Raw" /\ request.command \in RawCommands
  <2>1. ASSUME NEW command, NEW length
        PROVE  Raw(command, length).kind = "Raw" /\ Raw(command, length).command = command
    BY DEF Raw, Plain
  <2> QED BY <2>1 DEF WithCommand
<1>9. ASSUME NEW kind \in Crowd, NEW s PROVE OfKind(Plain(kind, s))
  <2>1. kind \in Kinds
    BY ExchangeAssumption, RequestTables
  <2> QED BY <1>1, <2>1
<1>10. CASE Quiet /\ Fresh
  BY <1>2, <1>3, <1>4, <1>5, <1>6, <1>7, <1>10 DEF Requests, Solo
<1>11. CASE ~(Quiet /\ Fresh)
  BY <1>9, <1>11 DEF Requests
<1> QED BY <1>10, <1>11

\* A request in the actor's queue whose caller is gone is an operation's.
RequestInv ==
    /\ RequestReadable
    /\ orphan # NoRequest => orphan.kind \in StreamKinds

\* What a step that writes no request and leaves none behind does to them.
Unasked == asked' \in {asked, NoRequest} /\ orphan' \in {orphan, NoRequest}

\* Such a step keeps RequestInv.
LEMMA UnaskedReadable ==
    ASSUME RequestInv, Unasked
    PROVE  RequestInv'
<1>1. orphan' # NoRequest => orphan'.kind \in StreamKinds
  BY DEF RequestInv, Unasked
<1>2. asked' # NoRequest /\ asked'.kind # "Raw" => ReadableAs(PayloadOf[asked'.kind], asked')
  BY DEF RequestInv, RequestReadable, Unasked
<1> QED BY <1>1, <1>2 DEF RequestInv, RequestReadable, ReadableAs

\* A request is written only if it can be encoded.
LEMMA Written ==
    ASSUME NEW request, Dispatch(request)
    PROVE  asked' = asked \/ (asked' = request /\ Encodes(request))
BY DEF Dispatch, Refusal

\* Every step keeps RequestInv.
LEMMA RequestNext == SessionInv /\ RequestInv /\ [DiscoveryNext]_discoveryVars => RequestInv'
<1> SUFFICES ASSUME SessionInv, RequestInv, [DiscoveryNext]_discoveryVars PROVE RequestInv'
  OBVIOUS
<1>a. ASSUME asked' = asked \/ (asked'.kind # "Raw" => ReadableAs(PayloadOf[asked'.kind], asked')),
             orphan' \in {orphan, NoRequest} \/ orphan'.kind \in StreamKinds
      PROVE  RequestInv'
  <2>1. orphan' # NoRequest => orphan'.kind \in StreamKinds
    BY <1>a DEF RequestInv
  <2>2. asked' # NoRequest /\ asked'.kind # "Raw" => ReadableAs(PayloadOf[asked'.kind], asked')
    BY <1>a DEF RequestInv, RequestReadable
  <2> QED BY <2>1, <2>2 DEF RequestInv, RequestReadable, ReadableAs
<1>1. CASE UNCHANGED discoveryVars
  BY <1>1, UnaskedReadable DEF discoveryVars, exchange, client, Unasked
<1>2. CASE ExchangeStep
  <2>1. orphan' = orphan
    BY <1>2 DEF ExchangeStep, client
  <2>2. CASE Send
    <3>1. PICK request \in Requests : Built(request) /\ Dispatch(request)
      BY <2>2 DEF Send
    <3>2. asked' = asked \/ (asked' = request /\ Encodes(request))
      BY <3>1, Written
    <3>3. Posed(request)
      BY RequestsPosed DEF Posed
    <3>4. asked' = request /\ Encodes(request) /\ request.kind # "Raw"
          => ReadableAs(PayloadOf[request.kind], request)
      BY <3>1, <3>3, EveryRequestReadable
    <3> QED BY <1>a, <2>1, <3>2, <3>4
  <2>3. ASSUME asked' \in {asked, NoRequest} PROVE RequestInv'
    BY <2>1, <2>3, UnaskedReadable DEF Unasked
  <2>4. CASE AllocatorStep
    BY <2>3, <2>4 DEF AllocatorStep
  <2>5. CASE Noise
    BY <2>3, <2>5, Zenon DEF Noise, gateway
  <2>6. CASE Carry
    BY <2>3, <2>6, Zenon DEF Carry, gateway
  <2>7. CASE GatewayAccepts
    BY <2>3, <2>7 DEF GatewayAccepts
  <2>8. CASE GatewayAnswers
    BY <2>3, <2>8 DEF GatewayAnswers
  <2>9. CASE GatewayFinishes
    BY <2>3, <2>9 DEF GatewayFinishes
  <2>10. CASE expire_sessions
    BY <2>3, <2>10 DEF expire_sessions, gateway
  <2> QED BY <1>2, <2>2, <2>4, <2>5, <2>6, <2>7, <2>8, <2>9, <2>10 DEF ExchangeStep
<1>3. CASE GatewayStreams \/ GatewayNotifies \/ GatewayChatters
  <2>1. Unasked
    BY <1>3 DEF GatewayStreams, GatewayNotifies, GatewayChatters, client, gateway, Unasked
  <2> QED BY <2>1, UnaskedReadable
<1>4. CASE Begin \/ AskExpires \/ ReadAnswer \/ Collect \/ GiveUp \/ Disconnect
  <2>1. Unasked
    BY <1>4 DEF Begin, AskExpires, ReadAnswer, Collect, GiveUp, Disconnect, gateway, Unasked
  <2> QED BY <2>1, UnaskedReadable
<1>5. CASE Ask
  <2>1. op # NoOp /\ orphan' = orphan /\ Dispatch(RequestOf(op.kind, op.object))
    BY <1>5 DEF Ask
  <2>2. PICK request : request = RequestOf(op.kind, op.object)
    OBVIOUS
  <2>3. op.kind \in OpKinds
    BY <2>1, OperationApart
  <2>4. request.kind \in StreamKinds
    BY <2>2, <2>3, OperationStreams
  <2>5. asked' = asked \/ asked' = request
    BY <2>1, <2>2, Written
  <2> QED BY <1>a, <2>1, <2>4, <2>5, StreamReadable
<1>6. CASE AskOrphaned
  <2>1. orphan # NoRequest /\ Dispatch(orphan) /\ orphan' = NoRequest
    BY <1>6 DEF AskOrphaned
  <2>2. orphan.kind \in StreamKinds
    BY <2>1 DEF RequestInv
  <2>3. asked' = asked \/ asked' = orphan
    BY <2>1, Written
  <2> QED BY <1>a, <2>1, <2>2, <2>3, StreamReadable
<1>7. CASE Receive \/ Expire
  <2>1. orphan' = orphan /\ asked' = asked
    BY <1>7 DEF Receive, handle_frame, Expire, expire_request, client, gateway
  <2> QED BY <2>1, UnaskedReadable DEF Unasked
<1>8. CASE Drop
  <2>1. /\ op # NoOp /\ asked' = asked
        /\ orphan' = orphan \/ orphan' = RequestOf(op.kind, op.object)
    BY <1>8 DEF Drop, gateway
  <2>2. op.kind \in OpKinds
    BY <2>1, OperationApart
  <2>3. RequestOf(op.kind, op.object).kind \in StreamKinds
    BY <2>2, OperationStreams
  <2> QED BY <1>a, <2>1, <2>3
<1> QED BY <1>1, <1>2, <1>3, <1>4, <1>5, <1>6, <1>7, <1>8 DEF DiscoveryNext

\* The gateway can read every request the actor writes.
THEOREM RequestsReadable == DiscoverySpec => []RequestReadable
<1>1. DiscoveryInit => RequestInv
  BY DEF DiscoveryInit, ExchangeInit, RequestInv, RequestReadable
<1>2. RequestInv => RequestReadable
  BY DEF RequestInv
<1> QED BY <1>1, <1>2, SessionInvariant, RequestNext, PTL DEF DiscoverySpec

-----------------------------------------------------------------------------
(***************************************************************************)
(* Discovery.  The gateway tells an operation its answer as a script: the   *)
(* confirmation and the notifications.  A prefix of it has been read, and   *)
(* the parts that follow are in the inbox, on their way and still to be     *)
(* sent; what is between them belongs to nobody.                            *)
(***************************************************************************)
\* The queue q is the part of the script S after its first a elements up to the b-th, with
\* elements of N between them.
Reads(x, m, n, S, N) ==
    \/ n = m /\ x \in N
    \/ n = m + 1 /\ n \in DOMAIN S /\ x = S[n]
Letters(S, N) == N \cup {S[i] : i \in DOMAIN S}
CountedIn(c, q, a, b, S, N) ==
    /\ c \in [0..Len(q) -> Nat] /\ c[0] = a /\ c[Len(q)] = b
    /\ \A i \in 1..Len(q) : Reads(q[i], c[i - 1], c[i], S, N)
Carries(q, a, b, S, N) ==
    q \in Seq(Letters(S, N)) /\ \E c : CountedIn(c, q, a, b, S, N)

\* What is read is of the script or between.
LEMMA ReadsLetter ==
    ASSUME NEW x, NEW m, NEW n, NEW S, NEW N, Reads(x, m, n, S, N)
    PROVE  x \in Letters(S, N)
BY DEF Reads, Letters

\* The bounds of a part are numbers.
LEMMA CarriesBounds ==
    ASSUME NEW q, NEW a, NEW b, NEW S, NEW N, Carries(q, a, b, S, N)
    PROVE  a \in Nat /\ b \in Nat
<1>1. PICK c : CountedIn(c, q, a, b, S, N)
  BY DEF Carries
<1>2. Len(q) \in Nat
  BY DEF Carries
<1>3. 0 \in 0..Len(q) /\ Len(q) \in 0..Len(q)
  BY <1>2
<1> QED BY <1>1, <1>3 DEF CountedIn

\* Where nothing belongs to the script the part is empty.
LEMMA CarriesNothing ==
    ASSUME NEW S, NEW N, NEW q \in Seq(N), NEW a \in Nat
    PROVE  Carries(q, a, a, S, N)
<1>1. PICK c : c = [i \in 0..Len(q) |-> a]
  OBVIOUS
<1>2. c \in [0..Len(q) -> Nat] /\ \A i \in 0..Len(q) : c[i] = a
  BY <1>1
<1>3. ASSUME NEW i \in 1..Len(q) PROVE Reads(q[i], c[i - 1], c[i], S, N)
  <2>1. c[i - 1] = a /\ c[i] = a /\ q[i] \in N
    BY <1>2
  <2> QED BY <2>1 DEF Reads
<1>4. CountedIn(c, q, a, a, S, N)
  BY <1>2, <1>3 DEF CountedIn
<1>5. PICK L : L = Letters(S, N)
  OBVIOUS
<1>6. N \subseteq L
  BY <1>5 DEF Letters
<1>7. q \in Seq(L)
  BY <1>6
<1> QED BY <1>4, <1>5, <1>7 DEF Carries

\* A part that goes on.
LEMMA CarriesAppend ==
    ASSUME NEW q, NEW a, NEW b, NEW S, NEW N, Carries(q, a, b, S, N),
           NEW x, NEW n \in Nat, Reads(x, b, n, S, N)
    PROVE  Carries(Append(q, x), a, n, S, N)
<1>1. PICK c : CountedIn(c, q, a, b, S, N)
  BY DEF Carries
<1>2. PICK L : L = Letters(S, N)
  OBVIOUS
<1>3. q \in Seq(L) /\ x \in L
  BY <1>2, ReadsLetter DEF Carries
<1>4. PICK t : t = Append(q, x) /\ t \in Seq(L)
  <2>1. Append(q, x) \in Seq(L)
    BY <1>3
  <2> QED BY <2>1
<1>5. PICK l \in Nat : l = Len(q)
  BY <1>3
<1>6. Len(t) = l + 1 /\ t[l + 1] = x /\ \A i \in 1..l : t[i] = q[i]
  BY <1>3, <1>4, <1>5
<1>7. PICK e : e = [i \in 0..(l + 1) |-> IF i = l + 1 THEN n ELSE c[i]]
  OBVIOUS
<1>8. /\ c \in [0..l -> Nat] /\ c[0] = a /\ c[l] = b
      /\ \A i \in 1..l : Reads(q[i], c[i - 1], c[i], S, N)
  BY <1>1, <1>5 DEF CountedIn
<1>9. e[l + 1] = n /\ \A i \in 0..l : e[i] = c[i]
  BY <1>7
<1>10. e \in [0..(l + 1) -> Nat]
  <2>1. \A i \in 0..(l + 1) : (IF i = l + 1 THEN n ELSE c[i]) \in Nat
    BY <1>8
  <2> QED BY <1>7, <2>1
<1>11. ASSUME NEW i \in 1..(l + 1) PROVE Reads(t[i], e[i - 1], e[i], S, N)
  <2>1. CASE i = l + 1
    <3>1. t[i] = x /\ e[i] = n /\ e[i - 1] = b
      BY <1>6, <1>8, <1>9, <2>1
    <3> QED BY <3>1
  <2>2. CASE i # l + 1
    <3>1. i \in 1..l /\ i \in 0..l /\ i - 1 \in 0..l
      BY <2>2
    <3>2. t[i] = q[i] /\ e[i] = c[i] /\ e[i - 1] = c[i - 1]
      BY <1>6, <1>9, <3>1
    <3> QED BY <1>8, <3>1, <3>2
  <2> QED BY <2>1, <2>2
<1>12. e[0] = a /\ e[l + 1] = n
  BY <1>8, <1>9
<1>13. CountedIn(e, t, a, n, S, N)
  BY <1>6, <1>10, <1>11, <1>12 DEF CountedIn
<1> QED BY <1>2, <1>4, <1>13 DEF Carries

\* A part whose first element is taken away.
LEMMA CarriesHead ==
    ASSUME NEW q, NEW a, NEW b, NEW S, NEW N, Carries(q, a, b, S, N), q # <<>>
    PROVE  \E m \in Nat : /\ Reads(Head(q), a, m, S, N)
                          /\ Carries(SubSeq(q, 2, Len(q)), m, b, S, N)
<1>1. PICK c : CountedIn(c, q, a, b, S, N)
  BY DEF Carries
<1>2. PICK L : L = Letters(S, N)
  OBVIOUS
<1>3. q \in Seq(L)
  BY <1>2 DEF Carries
<1>4. PICK l \in Nat : Len(q) = l + 1
  BY <1>3
<1>5. PICK t : t = SubSeq(q, 2, Len(q)) /\ t \in Seq(L)
  <2>1. PICK t : t = SubSeq(q, 2, Len(q))
    OBVIOUS
  <2>2. t \in Seq(L)
    BY <1>3, <2>1, Behind
  <2> QED BY <2>1, <2>2
<1>6. Len(t) = l /\ \A i \in 1..l : t[i] = q[i + 1]
  BY <1>3, <1>4, <1>5
<1>7. /\ c \in [0..(l + 1) -> Nat] /\ c[0] = a /\ c[l + 1] = b
      /\ \A i \in 1..(l + 1) : Reads(q[i], c[i - 1], c[i], S, N)
  BY <1>1, <1>4 DEF CountedIn
<1>8. PICK e : e = [i \in 0..l |-> c[i + 1]]
  OBVIOUS
<1>9. \A i \in 0..l : e[i] = c[i + 1] /\ c[i + 1] \in Nat
  BY <1>7, <1>8
<1>10. e \in [0..l -> Nat]
  BY <1>8, <1>9
<1>11. PICK m \in Nat : m = c[1]
  BY <1>7
<1>12. e[0] = m /\ e[l] = b
  <2>1. 0 \in 0..l /\ l \in 0..l /\ 0 + 1 = 1
    OBVIOUS
  <2>2. e[0] = c[1] /\ e[l] = c[l + 1]
    BY <1>9, <2>1
  <2> QED BY <1>7, <1>11, <2>2
<1>13. ASSUME NEW i \in 1..l PROVE Reads(t[i], e[i - 1], e[i], S, N)
  <2>1. PICK k \in 1..(l + 1) : k = i + 1 /\ k - 1 = i /\ i \in 0..l /\ i - 1 \in 0..l
    OBVIOUS
  <2>2. t[i] = q[k] /\ e[i] = c[k] /\ e[i - 1] = c[k - 1]
    <3>1. e[i - 1] = c[(i - 1) + 1] /\ (i - 1) + 1 = k - 1
      BY <1>9, <2>1
    <3> QED BY <1>6, <1>9, <2>1, <3>1
  <2> QED BY <1>7, <2>1, <2>2
<1>14. CountedIn(e, t, m, b, S, N)
  BY <1>6, <1>10, <1>12, <1>13 DEF CountedIn
<1>15. Reads(Head(q), a, m, S, N)
  <2>1. Head(q) = q[1] /\ 1 \in 1..(l + 1) /\ 1 - 1 = 0
    BY <1>3, <1>4
  <2> QED BY <1>7, <1>11, <2>1
<1>16. Carries(t, m, b, S, N)
  BY <1>2, <1>5, <1>14 DEF Carries
<1> QED BY <1>5, <1>15, <1>16

-----------------------------------------------------------------------------
\* What an operation reads of a frame, and of what belongs to no operation.
Item(f) == [response |-> Decode(f), command |-> f.command, subject |-> f.subject]
Items(M) == [i \in DOMAIN M |-> Item(M[i])]
Babble == {Item(f) : f \in Chatter}

\* The script M answers the request with what the gateway reports: a confirmation and, if
\* it has status 0, a notification about each object and the end.
Told(M, request, what) ==
    /\ (\E T : M \in Seq(T)) /\ (\E T : what \in Seq(T)) /\ Len(M) >= 1
    /\ M[1].command = ConfirmationOf(request.kind)
    /\ \A i \in 2..Len(M) :
          \/ i - 1 <= Len(what) /\ M[i] = About(NotificationOf[request.kind], what[i - 1])
          \/ /\ i = Len(what) + 2 /\ request.kind \in DOMAIN FinishedOf
             /\ M[i] = About(FinishedOf[request.kind], 0)
    /\ M[1].status # 0 => what = <<>>
    /\ M[1].status = 0 /\ request.kind = "GetNodeInformation" => what = <<request.subject>>

\* What is left of the script after its first j elements.
Remains(s, M, j) ==
    /\ (\E T : s \in Seq(T)) /\ j \in 0..Len(M) /\ Len(s) = Len(M) - j
    /\ \A i \in 1..Len(s) : s[i] = M[j + i]

\* How far an operation that began with nothing outstanding has come, by its fields o, the
\* pending request p, the request a the gateway has to answer, the queues in, box and s
\* and what the gateway has reported: it has not asked, it waits and the gateway has not
\* answered, it waits for the confirmation, it has it, or it has read the first d elements.
Babbles(box, lag) == lag = TRUE \/ box \in Seq(Babble)
Onward(M, d, e, j, in, box, lag) ==
    /\ Carries(in, e, j, M, Chatter)
    /\ lag = TRUE \/ Carries(box, d, e, Items(M), Babble)
Unanswered(o, p, a, in, box, lag, s) ==
    /\ \/ o.stage = "asking" /\ p = NoRequest
       \/ o.stage = "waiting" /\ p \in {NoRequest, RequestOf(o.kind, o.object)}
    /\ a = p /\ in \in Seq(Chatter) /\ s = <<>> /\ o.found = <<>> /\ Babbles(box, lag)
Confirming(M, j, o, p, in, box, lag) ==
    /\ o.stage = "waiting" /\ p = RequestOf(o.kind, o.object) /\ o.found = <<>>
    /\ Carries(in, 0, j, M, Chatter) /\ Babbles(box, lag)
Confirmed(M, j, e, o, p, in, box, lag) ==
    /\ o.stage = "answered" /\ p = NoRequest /\ o.found = <<>> /\ o.answer = M[1]
    /\ Onward(M, 1, e, j, in, box, lag)
Collecting(M, j, d, e, o, p, in, box, lag, what) ==
    /\ o.stage = "collecting" /\ p = NoRequest /\ M[1].status = 0
    /\ d \in 1..(Len(what) + 1) /\ o.found = SubSeq(what, 1, d - 1)
    /\ Onward(M, d, e, j, in, box, lag)
Answering(M, j, o, a, s, what) ==
    a = NoRequest /\ Told(M, RequestOf(o.kind, o.object), what) /\ Remains(s, M, j)
Tale(o, p, a, in, box, lag, s, what) ==
    \/ Unanswered(o, p, a, in, box, lag, s)
    \/ \E M, j : /\ Answering(M, j, o, a, s, what)
                 /\ \/ Confirming(M, j, o, p, in, box, lag)
                    \/ \E e : Confirmed(M, j, e, o, p, in, box, lag)
                    \/ \E d, e : Collecting(M, j, d, e, o, p, in, box, lag, what)

TaleNow == Tale(op, pending, asked, incoming, inbox, lagged, stream, reported)
\* The tale of the next state.
LEMMA TaleNext ==
    ASSUME Tale(op', pending', asked', incoming', inbox', lagged', stream', reported')
    PROVE  TaleNow'
BY DEF TaleNow, Tale, Unanswered, Confirming, Confirmed, Collecting, Answering, Onward, Babbles,
       Carries, CountedIn, Reads, Letters, Told, Remains, RequestOf

\* A frame is decoded to the variant of its layout or refused.
LEMMA DecodedAs ==
    ASSUME NEW f, Legible(f)
    PROVE  Decode(f) \in {Error, LayoutOf(f).variant}
<1>1. Decode(f) # Panic
  BY EveryFrameRead
<1>2. PICK layout : layout = LayoutOf(f)
  OBVIOUS
<1>3. DecodeAs(layout, f) \in {Error, Panic, layout.variant}
  BY DEF DecodeAs
<1> QED BY <1>1, <1>2, <1>3 DEF Decode

\* What an operation reads of a notification of a stream.
LEMMA AboutItem ==
    ASSUME NEW stem, NEW subject, NEW variant, NotifiedAs(stem, variant),
           NEW item, item = Item(About(stem, subject))
    PROVE  /\ item.response \in {Error, variant} /\ item.command = Id[NTF(stem)]
           /\ item.subject = subject
<1>1. PICK c, f : c = Id[NTF(stem)] /\ f = About(stem, subject)
  OBVIOUS
<1>2. PICK l \in Nat : f = Content(c, l, NoSession, 0, subject)
  BY <1>1, AboutMade
<1>3. f.command = c /\ f.sort = 0 /\ f.subject = subject
  BY <1>2, ContentRead
<1>4. LayoutOf(f).variant = variant
  BY <1>1, <1>3 DEF LayoutOf, NotifiedAs
<1>5. Legible(f)
  BY <1>1, NotificationMade, MadeLegible
<1>6. Decode(f) \in {Error, variant}
  BY <1>4, <1>5, DecodedAs
<1>7. item.response = Decode(f) /\ item.command = f.command /\ item.subject = f.subject
  BY <1>1 DEF Item
<1> QED BY <1>1, <1>3, <1>6, <1>7

\* What an operation reads of what belongs to no operation.
LEMMA BabbleItem ==
    ASSUME NEW item \in Babble
    PROVE  /\ item.response \notin {"NodeInformation", "Acknowledgement"}
           /\ item.command # Id[NTF(NotificationOf.GetAllGroups)]
<1>1. PICK f \in Chatter : item = Item(f)
  BY DEF Babble
<1>2. /\ LayoutOf(f).variant \notin {"NodeInformation", "Acknowledgement"}
      /\ f.command # Id[NTF(NotificationOf.GetAllGroups)]
  BY StreamTables
<1>3. Decode(f) \in {Error, LayoutOf(f).variant}
  BY ChatterMade, MadeLegible, DecodedAs
<1>4. item.response = Decode(f) /\ item.command = f.command
  BY <1>1 DEF Item
<1> QED BY <1>2, <1>3, <1>4 DEF Error

\* The request of an operation, by the operation.
LEMMA RequestFields ==
    ASSUME NEW kind \in OpKinds, NEW object, NEW request, request = RequestOf(kind, object)
    PROVE  /\ request.kind \in StreamKinds /\ request # NoRequest
           /\ kind = "discover_nodes" => request.kind = "GetAllNodesInformation"
           /\ kind = "discover_groups" => request.kind = "GetAllGroups"
           /\ kind = "node_information" =>
                 request.kind = "GetNodeInformation" /\ request.subject = object
<1>1. request.kind \in StreamKinds
  BY OperationStreams
<1>2. request # NoRequest
  BY <1>1 DEF NoRequest, StreamKinds
<1>3. kind = "discover_nodes" => request.kind = "GetAllNodesInformation"
  BY DEF RequestOf, Plain
<1>4. kind = "discover_groups" => request.kind = "GetAllGroups"
  BY DEF RequestOf, Plain
<1>5. ASSUME kind = "node_information"
      PROVE  request.kind = "GetNodeInformation" /\ request.subject = object
  <2>1. request = [Plain("GetNodeInformation", NoSession) EXCEPT !.subject = object]
    BY <1>5 DEF RequestOf
  <2> QED BY <2>1 DEF Plain
<1> QED BY <1>1, <1>2, <1>3, <1>4, <1>5

\* The confirmation of an operation's request, which nothing else is taken for.
LEMMA StreamAwaited ==
    ASSUME NEW request, request.kind \in StreamKinds
    PROVE  /\ StemAsked(request) = StemOf[request.kind]
           /\ expected_confirmation(command_id(request)) = ConfirmationOf(request.kind)
           /\ session_id(request) = NoSession
           /\ \A f \in Chatter : f.command # ConfirmationOf(request.kind)
<1>1. command_id(request) = Id[REQ(StemOf[request.kind])]
  BY StreamTables DEF command_id
<1>2. known[command_id(request)][1] = StemOf[request.kind]
  BY <1>1, StreamTables
<1>3. Kind(command_id(request)) = "Request" /\ CFM(StemOf[request.kind]) \in Names
  BY <1>1, StreamTables
<1>4. session_id(request) = NoSession
  BY StreamTables DEF session_id
<1>5. \A f \in Chatter : f.command # ConfirmationOf(request.kind)
  BY StreamTables
<1> QED BY <1>2, <1>3, <1>4, <1>5 DEF StemAsked, expected_confirmation, ConfirmationOf

\* To read a frame is to read its item.
LEMMA ReadsItem ==
    ASSUME NEW f, NEW m, NEW n, NEW M, Reads(f, m, n, M, Chatter)
    PROVE  Reads(Item(f), m, n, Items(M), Babble)
<1>1. CASE n = m /\ f \in Chatter
  <2>1. Item(f) \in Babble
    BY <1>1 DEF Babble
  <2> QED BY <1>1, <2>1 DEF Reads
<1>2. CASE n = m + 1 /\ n \in DOMAIN M /\ f = M[n]
  <2>1. n \in DOMAIN Items(M) /\ Items(M)[n] = Item(M[n])
    BY <1>2 DEF Items
  <2> QED BY <1>2, <2>1 DEF Reads
<1> QED BY <1>1, <1>2 DEF Reads

\* A queue of what belongs to nobody, with one more or without the first.
LEMMA ChatterMoves ==
    ASSUME NEW T, NEW q \in Seq(T)
    PROVE  /\ \A x \in T : Append(q, x) \in Seq(T)
           /\ q # <<>> => Head(q) \in T /\ SubSeq(q, 2, Len(q)) \in Seq(T)
<1>1. ASSUME NEW x \in T PROVE Append(q, x) \in Seq(T)
  OBVIOUS
<1>2. ASSUME q # <<>> PROVE Head(q) \in T /\ SubSeq(q, 2, Len(q)) \in Seq(T)
  <2>1. PICK t : t = SubSeq(q, 2, Len(q))
    OBVIOUS
  <2> QED BY <1>2, <2>1, Behind
<1> QED BY <1>1, <1>2

\* How the inbox takes a frame in: one more item, or it overflows.
Hears(f, box, lag, box2, lag2) ==
    lag2 = TRUE \/ (lag # TRUE /\ box2 = Append(box, Item(f)))

\* The actor handles a frame that does not end the pending request.
LEMMA TaleHeard ==
    ASSUME NEW o, NEW p, NEW a, NEW in, NEW box, NEW lag, NEW s, NEW what,
           Tale(o, p, a, in, box, lag, s, what), in # <<>>,
           NEW f, f = Head(in), NEW in2, in2 = SubSeq(in, 2, Len(in)),
           NEW box2, NEW lag2, Hears(f, box, lag, box2, lag2),
           p # NoRequest => f.command # ConfirmationOf(p.kind), o.kind \in OpKinds
    PROVE  Tale(o, p, a, in2, box2, lag2, s, what)
<1>1. ASSUME Babbles(box, lag), f \in Chatter PROVE Babbles(box2, lag2)
  <2>1. CASE lag2 = TRUE
    BY <2>1 DEF Babbles
  <2>2. CASE lag # TRUE /\ box2 = Append(box, Item(f))
    <3>1. PICK item \in Babble : item = Item(f)
      BY <1>1 DEF Babble
    <3>2. box \in Seq(Babble)
      BY <1>1, <2>2 DEF Babbles
    <3>3. box2 \in Seq(Babble)
      BY <2>2, <3>1, <3>2, ChatterMoves
    <3> QED BY <3>3 DEF Babbles
  <2> QED BY <2>1, <2>2 DEF Hears
<1>2. CASE Unanswered(o, p, a, in, box, lag, s)
  <2>1. f \in Chatter /\ in2 \in Seq(Chatter)
    BY <1>2, ChatterMoves DEF Unanswered
  <2>2. Unanswered(o, p, a, in2, box2, lag2, s)
    BY <1>1, <1>2, <2>1 DEF Unanswered
  <2> QED BY <2>2 DEF Tale
<1>3. ASSUME NEW M, NEW j, Answering(M, j, o, a, s, what), Confirming(M, j, o, p, in, box, lag)
      PROVE  Tale(o, p, a, in2, box2, lag2, s, what)
  <2>1. PICK m \in Nat : Reads(f, 0, m, M, Chatter) /\ Carries(in2, m, j, M, Chatter)
    BY <1>3, CarriesHead DEF Confirming
  <2>2. p # NoRequest /\ M[1].command = ConfirmationOf(p.kind)
    BY <1>3, RequestFields DEF Confirming, Answering, Told
  <2>3. m = 0 /\ f \in Chatter
    BY <2>1, <2>2 DEF Reads
  <2>4. Confirming(M, j, o, p, in2, box2, lag2)
    BY <1>1, <1>3, <2>1, <2>3 DEF Confirming
  <2> QED BY <1>3, <2>4 DEF Tale
<1>4. ASSUME NEW M, NEW j, NEW d, NEW e, Onward(M, d, e, j, in, box, lag)
      PROVE  \E m : Onward(M, d, m, j, in2, box2, lag2)
  <2>1. PICK m \in Nat : Reads(f, e, m, M, Chatter) /\ Carries(in2, m, j, M, Chatter)
    BY <1>4, CarriesHead DEF Onward
  <2>2. CASE lag2 = TRUE
    BY <2>1, <2>2 DEF Onward
  <2>3. CASE lag # TRUE /\ box2 = Append(box, Item(f))
    <3>1. PICK S, N, x : S = Items(M) /\ N = Babble /\ x = Item(f)
      OBVIOUS
    <3>2. Carries(box, d, e, S, N)
      BY <1>4, <2>3, <3>1 DEF Onward
    <3>3. Reads(x, e, m, S, N)
      BY <2>1, <3>1, ReadsItem
    <3>4. Carries(box2, d, m, S, N)
      BY <2>3, <3>1, <3>2, <3>3, CarriesAppend
    <3> QED BY <2>1, <3>1, <3>4 DEF Onward
  <2> QED BY <2>2, <2>3 DEF Hears
<1>5. ASSUME NEW M, NEW j, Answering(M, j, o, a, s, what), NEW e, Confirmed(M, j, e, o, p, in, box, lag)
      PROVE  Tale(o, p, a, in2, box2, lag2, s, what)
  <2>1. PICK m : Onward(M, 1, m, j, in2, box2, lag2)
    BY <1>4, <1>5 DEF Confirmed
  <2>2. Confirmed(M, j, m, o, p, in2, box2, lag2)
    BY <1>5, <2>1 DEF Confirmed
  <2> QED BY <1>5, <2>2 DEF Tale
<1>6. ASSUME NEW M, NEW j, Answering(M, j, o, a, s, what), NEW d, NEW e,
             Collecting(M, j, d, e, o, p, in, box, lag, what)
      PROVE  Tale(o, p, a, in2, box2, lag2, s, what)
  <2>1. PICK m : Onward(M, d, m, j, in2, box2, lag2)
    BY <1>4, <1>6 DEF Collecting
  <2>2. Collecting(M, j, d, m, o, p, in2, box2, lag2, what)
    BY <1>6, <2>1 DEF Collecting
  <2> QED BY <1>6, <2>2 DEF Tale
<1> QED BY <1>2, <1>3, <1>5, <1>6 DEF Tale

\* The actor handles the confirmation.
LEMMA TaleConfirmed ==
    ASSUME NEW o, NEW p, NEW a, NEW in, NEW box, NEW lag, NEW s, NEW what,
           Tale(o, p, a, in, box, lag, s, what), in # <<>>,
           NEW f, f = Head(in), NEW in2, in2 = SubSeq(in, 2, Len(in)),
           p # NoRequest, f.command = ConfirmationOf(p.kind), o.kind \in OpKinds,
           DOMAIN o = OpFields, NEW o2, o2 = [o EXCEPT !.stage = "answered", !.answer = f]
    PROVE  o.stage = "waiting" /\ Tale(o2, NoRequest, a, in2, box, lag, s, what)
<1>1. PICK r : r = RequestOf(o.kind, o.object)
  OBVIOUS
<1>2. r.kind \in StreamKinds
  BY <1>1, RequestFields
<1>3. p = r /\ o.stage = "waiting"
  BY <1>1 DEF Tale, Unanswered, Confirming, Confirmed, Collecting
<1>4. f \notin Chatter
  BY <1>2, <1>3, StreamAwaited
<1>5. /\ o2.stage = "answered" /\ o2.answer = f /\ o2.kind = o.kind /\ o2.object = o.object
      /\ o2.found = o.found
  BY DEF OpFields
<1>6. ~Unanswered(o, p, a, in, box, lag, s)
  BY <1>4, ChatterMoves DEF Unanswered
<1>7. PICK M, j : Answering(M, j, o, a, s, what) /\ Confirming(M, j, o, p, in, box, lag)
  BY <1>3, <1>6 DEF Tale, Confirmed, Collecting
<1>8. PICK m \in Nat : Reads(f, 0, m, M, Chatter) /\ Carries(in2, m, j, M, Chatter)
  BY <1>7, CarriesHead DEF Confirming
<1>9. m = 1 /\ f = M[1]
  BY <1>4, <1>8 DEF Reads
<1>10. lag = TRUE \/ Carries(box, 1, 1, Items(M), Babble)
  <2>1. PICK S, N : S = Items(M) /\ N = Babble
    OBVIOUS
  <2>2. lag = TRUE \/ box \in Seq(N)
    BY <1>7, <2>1 DEF Confirming, Babbles
  <2>3. 1 \in Nat
    OBVIOUS
  <2>4. box \in Seq(N) => Carries(box, 1, 1, S, N)
    BY <2>3, CarriesNothing
  <2> QED BY <2>1, <2>2, <2>4
<1>11. Confirmed(M, j, 1, o2, NoRequest, in2, box, lag)
  BY <1>5, <1>7, <1>8, <1>9, <1>10 DEF Confirmed, Onward, Confirming
<1>12. Answering(M, j, o2, a, s, what)
  BY <1>5, <1>7 DEF Answering
<1> QED BY <1>3, <1>11, <1>12 DEF Tale

\* A frame joins those on their way: one that belongs to nobody, or the next of the stream.
LEMMA TaleSent ==
    ASSUME NEW o, NEW p, NEW a, NEW in, NEW box, NEW lag, NEW s, NEW what,
           Tale(o, p, a, in, box, lag, s, what),
           NEW f, NEW in2, in2 = Append(in, f), NEW s2,
           \/ f \in Chatter /\ s2 = s
           \/ s # <<>> /\ f = Head(s) /\ s2 = SubSeq(s, 2, Len(s))
    PROVE  Tale(o, p, a, in2, box, lag, s2, what)
<1>1. CASE Unanswered(o, p, a, in, box, lag, s)
  <2>1. f \in Chatter /\ s2 = s /\ in \in Seq(Chatter)
    BY <1>1 DEF Unanswered
  <2>2. in2 \in Seq(Chatter)
    BY <2>1, ChatterMoves
  <2>3. Unanswered(o, p, a, in2, box, lag, s2)
    BY <1>1, <2>1, <2>2 DEF Unanswered
  <2> QED BY <2>3 DEF Tale
<1>2. ASSUME NEW M, NEW j, Answering(M, j, o, a, s, what)
      PROVE  \E k : /\ Answering(M, k, o, a, s2, what)
                    /\ \A e : Carries(in, e, j, M, Chatter) => Carries(in2, e, k, M, Chatter)
  <2>1. Remains(s, M, j)
    BY <1>2 DEF Answering
  <2>2. PICK l \in Nat : l = Len(M) /\ DOMAIN M = 1..l
    BY <1>2 DEF Answering, Told
  <2>3. j \in 0..l
    BY <2>1, <2>2 DEF Remains
  <2>4. \E k \in Nat : Reads(f, j, k, M, Chatter) /\ Remains(s2, M, k)
    <3>1. CASE f \in Chatter /\ s2 = s
      <4>1. Reads(f, j, j, M, Chatter) /\ j \in Nat
        BY <2>3, <3>1 DEF Reads
      <4> QED BY <2>1, <3>1, <4>1
    <3>2. CASE s # <<>> /\ f = Head(s) /\ s2 = SubSeq(s, 2, Len(s))
      <4>1. PICK T : s \in Seq(T)
        BY <2>1 DEF Remains
      <4>2. PICK n \in Nat : n = Len(s) /\ n = l - j /\ \A i \in 1..n : s[i] = M[j + i]
        <5>1. PICK n \in Nat : n = Len(s)
          BY <4>1
        <5>2. n = l - j
          BY <2>1, <2>2, <5>1 DEF Remains
        <5>3. \A i \in 1..n : s[i] = M[j + i]
          BY <2>1, <5>1 DEF Remains
        <5> QED BY <5>1, <5>2, <5>3
      <4>3. /\ s2 \in Seq(T) /\ n > 0 /\ Len(s2) = n - 1 /\ f = s[1]
            /\ \A i \in 1..(n - 1) : s2[i] = s[i + 1]
        <5>1. /\ s2 \in Seq(T) /\ Len(s) > 0 /\ Len(s2) = Len(s) - 1 /\ Head(s) = s[1]
              /\ \A i \in 1..(Len(s) - 1) : s2[i] = s[i + 1]
          BY <3>2, <4>1, Behind
        <5> QED BY <3>2, <4>2, <5>1
      <4>4. PICK k \in Nat : k = j + 1 /\ k \in 1..l /\ k \in 0..l /\ n - 1 = l - k
        BY <2>3, <4>2, <4>3
      <4>5. f = M[k]
        <5>1. 1 \in 1..n
          BY <4>3
        <5> QED BY <4>2, <4>3, <4>4, <5>1
      <4>6. Reads(f, j, k, M, Chatter)
        BY <2>2, <4>4, <4>5 DEF Reads
      <4>7. ASSUME NEW i \in 1..(n - 1) PROVE s2[i] = M[k + i]
        <5>1. i + 1 \in 1..n /\ j + (i + 1) = k + i
          BY <2>3, <4>2, <4>4
        <5> QED BY <4>2, <4>3, <5>1
      <4>8. Remains(s2, M, k)
        BY <2>2, <4>3, <4>4, <4>7 DEF Remains
      <4> QED BY <4>6, <4>8
    <3> QED BY <3>1, <3>2
  <2>5. PICK k \in Nat : Reads(f, j, k, M, Chatter) /\ Remains(s2, M, k)
    BY <2>4
  <2>6. Answering(M, k, o, a, s2, what)
    BY <1>2, <2>5 DEF Answering
  <2>7. PICK N : N = Chatter
    OBVIOUS
  <2>8. ASSUME NEW e, Carries(in, e, j, M, N) PROVE Carries(in2, e, k, M, N)
    BY <2>5, <2>7, <2>8, CarriesAppend
  <2> QED BY <2>6, <2>7, <2>8
<1>3. ASSUME NEW M, NEW j, Answering(M, j, o, a, s, what), Confirming(M, j, o, p, in, box, lag)
      PROVE  Tale(o, p, a, in2, box, lag, s2, what)
  <2>1. PICK k : /\ Answering(M, k, o, a, s2, what)
                 /\ \A e : Carries(in, e, j, M, Chatter) => Carries(in2, e, k, M, Chatter)
    BY <1>2, <1>3
  <2>2. Confirming(M, k, o, p, in2, box, lag)
    BY <1>3, <2>1 DEF Confirming
  <2> QED BY <2>1, <2>2 DEF Tale
<1>4. ASSUME NEW M, NEW j, Answering(M, j, o, a, s, what), NEW e, Confirmed(M, j, e, o, p, in, box, lag)
      PROVE  Tale(o, p, a, in2, box, lag, s2, what)
  <2>1. PICK k : /\ Answering(M, k, o, a, s2, what)
                 /\ \A x : Carries(in, x, j, M, Chatter) => Carries(in2, x, k, M, Chatter)
    BY <1>2, <1>4
  <2>2. Confirmed(M, k, e, o, p, in2, box, lag)
    BY <1>4, <2>1 DEF Confirmed, Onward
  <2> QED BY <2>1, <2>2 DEF Tale
<1>5. ASSUME NEW M, NEW j, Answering(M, j, o, a, s, what), NEW d, NEW e,
             Collecting(M, j, d, e, o, p, in, box, lag, what)
      PROVE  Tale(o, p, a, in2, box, lag, s2, what)
  <2>1. PICK k : /\ Answering(M, k, o, a, s2, what)
                 /\ \A x : Carries(in, x, j, M, Chatter) => Carries(in2, x, k, M, Chatter)
    BY <1>2, <1>5
  <2>2. Collecting(M, k, d, e, o, p, in2, box, lag, what)
    BY <1>5, <2>1 DEF Collecting, Onward
  <2> QED BY <2>1, <2>2 DEF Tale
<1> QED BY <1>1, <1>3, <1>4, <1>5 DEF Tale

\* The gateway answers the request of the operation: with the script of the confirmation
\* and the stream.
LEMMA TaleAnswered ==
    ASSUME NEW o, NEW p, NEW a, NEW in, NEW box, NEW lag, NEW s, NEW what,
           Tale(o, p, a, in, box, lag, s, what), a # NoRequest, o.kind \in OpKinds,
           NEW f, NEW in2, in2 = Append(in, f), NEW s2, NEW told, NEW M, Told(M, a, told),
           f = M[1], Remains(s2, M, 1)
    PROVE  Tale(o, p, NoRequest, in2, box, lag, s2, told)
<1>1. Unanswered(o, p, a, in, box, lag, s)
  BY DEF Tale, Answering
<1>2. a = RequestOf(o.kind, o.object) /\ p = a /\ o.stage = "waiting"
  BY <1>1 DEF Unanswered
<1>3. Answering(M, 1, o, NoRequest, s2, told)
  BY <1>2 DEF Answering
<1>4. Carries(in2, 0, 1, M, Chatter)
  <2>1. PICK N : N = Chatter
    OBVIOUS
  <2>2. in \in Seq(N) /\ 0 \in Nat /\ 1 \in Nat
    BY <1>1, <2>1 DEF Unanswered
  <2>3. Carries(in, 0, 0, M, N)
    BY <2>2, CarriesNothing
  <2>4. 1 \in DOMAIN M /\ 0 + 1 = 1
    BY DEF Told
  <2>5. Reads(f, 0, 1, M, N)
    BY <2>4 DEF Reads
  <2>6. Carries(in2, 0, 1, M, N)
    BY <2>2, <2>3, <2>5, CarriesAppend
  <2> QED BY <2>1, <2>6
<1>5. Confirming(M, 1, o, p, in2, box, lag)
  BY <1>1, <1>2, <1>4 DEF Confirming, Unanswered
<1> QED BY <1>3, <1>5 DEF Tale

\* The confirmation without notifications: the gateway reports nothing.
LEMMA ToldNothing ==
    ASSUME NEW f, NEW request, f.command = ConfirmationOf(request.kind), f.status # 0,
           NEW M, M = <<f>>, NEW what, what = <<>>, NEW s, s = <<>>
    PROVE  Told(M, request, what) /\ Remains(s, M, 1) /\ M[1] = f
<1>1. M \in Seq({f}) /\ Len(M) = 1 /\ M[1] = f
  OBVIOUS
<1>2. what \in Seq({f}) /\ s \in Seq({f}) /\ Len(s) = 0
  OBVIOUS
<1>3. Told(M, request, what)
  <2>1. (\E W : M \in Seq(W)) /\ (\E W : what \in Seq(W)) /\ Len(M) >= 1
    <3>1. Len(M) >= 1
      BY <1>1
    <3>2. PICK W : W = {f}
      OBVIOUS
    <3>3. M \in Seq(W) /\ what \in Seq(W)
      BY <1>1, <1>2, <3>2
    <3> QED BY <3>1, <3>3, Zenon
  <2>2. M[1].command = ConfirmationOf(request.kind) /\ M[1].status # 0 /\ 2..Len(M) = {}
    BY <1>1
  <2> QED BY <2>1, <2>2 DEF Told
<1>4. Remains(s, M, 1)
  BY <1>1, <1>2 DEF Remains
<1> QED BY <1>1, <1>3, <1>4

\* The confirmation and the notifications of what the gateway reports.
LEMMA ToldAll ==
    ASSUME NEW f, NEW request, f.command = ConfirmationOf(request.kind), f.status = 0,
           NEW T, NEW what \in Seq(T), NEW s, s = Notifications(request.kind, what),
           request.kind = "GetNodeInformation" => what = <<request.subject>>
    PROVE  \E M : Told(M, request, what) /\ Remains(s, M, 1) /\ M[1] = f
<1> DEFINE all == [i \in DOMAIN what |-> About(NotificationOf[request.kind], what[i])]
           last == About(FinishedOf[request.kind], 0)
           U == {About(NotificationOf[request.kind], what[i]) : i \in DOMAIN what} \cup {last}
<1>1. PICK n \in Nat : n = Len(what) /\ DOMAIN what = 1..n
  OBVIOUS
<1>2. all \in Seq(U) /\ Len(all) = n /\ \A i \in 1..n : all[i] = About(NotificationOf[request.kind], what[i])
  <2>1. \A i \in 1..n : all[i] \in U
    BY <1>1
  <2> QED BY <1>1, <2>1
<1>3. last \in U
  OBVIOUS
<1>4. \/ request.kind \in DOMAIN FinishedOf /\ s = all \o <<last>>
      \/ request.kind \notin DOMAIN FinishedOf /\ s = all \o <<>>
  BY Zenon DEF Notifications
<1> HIDE DEF all, last, U
<1>5. PICK l \in Nat :
         /\ s \in Seq(U) /\ Len(s) = l
         /\ \A i \in 1..n : s[i] = all[i]
         /\ l = n \/ (l = n + 1 /\ s[l] = last /\ request.kind \in DOMAIN FinishedOf)
  <2>1. CASE request.kind \in DOMAIN FinishedOf /\ s = all \o <<last>>
    <3>1. <<last>> \in Seq(U) /\ Len(<<last>>) = 1 /\ <<last>>[1] = last
      BY <1>3
    <3>2. PICK t : t = <<last>>
      OBVIOUS
    <3>3. s \in Seq(U) /\ Len(s) = n + 1 /\ (\A i \in 1..n : s[i] = all[i]) /\ s[n + 1] = t[1]
      BY <1>2, <2>1, <3>1, <3>2
    <3> QED BY <2>1, <3>1, <3>2, <3>3
  <2>2. CASE request.kind \notin DOMAIN FinishedOf /\ s = all \o <<>>
    <3>1. s = all
      BY <1>2, <2>2
    <3> QED BY <1>2, <3>1
  <2> QED BY <1>4, <2>1, <2>2
<1>6. PICK M : M = [i \in 1..(l + 1) |-> IF i = 1 THEN f ELSE s[i - 1]]
  OBVIOUS
<1>7. PICK V : V = U \cup {f}
  OBVIOUS
<1>8. M \in Seq(V) /\ Len(M) = l + 1 /\ M[1] = f /\ \A i \in 2..(l + 1) : M[i] = s[i - 1]
  <2>1. \A i \in 1..(l + 1) : M[i] = IF i = 1 THEN f ELSE s[i - 1]
    BY <1>6
  <2>2. \A i \in 1..l : s[i] \in U
    BY <1>5
  <2>3. \A i \in 1..(l + 1) : M[i] \in V
    <3>1. ASSUME NEW i \in 1..(l + 1), i # 1 PROVE i - 1 \in 1..l
      BY <3>1
    <3> QED BY <1>7, <2>1, <2>2, <3>1
  <2>4. M \in [1..(l + 1) -> V] /\ l + 1 \in Nat
    BY <1>6, <2>1, <2>3
  <2>5. M \in Seq(V) /\ Len(M) = l + 1
    BY <2>4
  <2> QED BY <2>1, <2>5
<1>9. Remains(s, M, 1)
  <2>1. ASSUME NEW i \in 1..l PROVE s[i] = M[1 + i]
    <3>1. PICK k \in 2..(l + 1) : k = 1 + i /\ k - 1 = i
      OBVIOUS
    <3> QED BY <1>8, <3>1
  <2> QED BY <1>5, <1>8, <2>1 DEF Remains
<1>10. ASSUME NEW i \in 2..Len(M)
       PROVE  \/ i - 1 <= Len(what) /\ M[i] = About(NotificationOf[request.kind], what[i - 1])
              \/ /\ i = Len(what) + 2 /\ request.kind \in DOMAIN FinishedOf
                 /\ M[i] = About(FinishedOf[request.kind], 0)
  <2>1. PICK k \in 1..l : k = i - 1 /\ M[i] = s[k] /\ i = k + 1
    BY <1>8
  <2>2. CASE k <= n
    BY <1>1, <1>2, <1>5, <2>1, <2>2
  <2>3. CASE k > n
    <3>1. l = n + 1 /\ k = l /\ s[k] = last /\ request.kind \in DOMAIN FinishedOf
      BY <1>5, <2>3
    <3>2. i = n + 2
      BY <2>1, <3>1
    <3> QED BY <1>1, <2>1, <3>1, <3>2 DEF last
  <2> QED BY <2>2, <2>3
<1>11. Told(M, request, what)
  <2>1. (\E W : M \in Seq(W)) /\ (\E W : what \in Seq(W)) /\ Len(M) >= 1
    BY <1>8
  <2>2. M[1].command = ConfirmationOf(request.kind) /\ M[1].status = 0
    BY <1>8
  <2> QED BY <1>10, <2>1, <2>2 DEF Told
<1> QED BY <1>8, <1>9, <1>11

\* The operation asks.
LEMMA TaleAsked ==
    ASSUME NEW o, NEW p, NEW a, NEW in, NEW box, NEW lag, NEW s, NEW what,
           Tale(o, p, a, in, box, lag, s, what), o.stage = "asking", DOMAIN o = OpFields,
           NEW o2, o2 = [o EXCEPT !.stage = "waiting"], NEW p2,
           p2 \in {NoRequest, RequestOf(o.kind, o.object)}
    PROVE  Tale(o2, p2, p2, in, box, lag, s, what)
<1>1. Unanswered(o, p, a, in, box, lag, s)
  BY DEF Tale, Confirming, Confirmed, Collecting
<1>2. o2.stage = "waiting" /\ o2.kind = o.kind /\ o2.object = o.object /\ o2.found = o.found
  BY DEF OpFields
<1>3. Unanswered(o2, p2, p2, in, box, lag, s)
  BY <1>1, <1>2 DEF Unanswered
<1> QED BY <1>3 DEF Tale

\* The operation reads the confirmation: it is told to collect, or that there is nothing.
LEMMA TaleRead ==
    ASSUME NEW o, NEW p, NEW a, NEW in, NEW box, NEW lag, NEW s, NEW what,
           Tale(o, p, a, in, box, lag, s, what), o.stage = "answered",
           NEW o2, o2.stage = "collecting", o2.kind = o.kind, o2.object = o.object,
           o2.found = o.found, NEW c, c = o.answer
    PROVE  IF c.status = 0 THEN Tale(o2, p, a, in, box, lag, s, what) ELSE what = <<>>
<1>1. PICK M, j : /\ Answering(M, j, o, a, s, what)
                  /\ \E e : Confirmed(M, j, e, o, p, in, box, lag)
  BY DEF Tale, Unanswered, Confirming, Collecting
<1>2. PICK e : Confirmed(M, j, e, o, p, in, box, lag)
  BY <1>1
<1>3. c = M[1] /\ p = NoRequest /\ o.found = <<>> /\ Onward(M, 1, e, j, in, box, lag)
  BY <1>2 DEF Confirmed
<1>4. ASSUME c.status # 0 PROVE what = <<>>
  BY <1>1, <1>3, <1>4 DEF Answering, Told
<1>5. ASSUME c.status = 0 PROVE Tale(o2, p, a, in, box, lag, s, what)
  <2>2. Answering(M, j, o2, a, s, what)
    BY <1>1 DEF Answering
  <2>3. PICK T : what \in Seq(T)
    BY <1>1 DEF Answering, Told
  <2>4. 1 \in 1..(Len(what) + 1) /\ 1 - 1 = 0
    BY <2>3
  <2>5. <<>> = SubSeq(what, 1, 0)
    BY <2>3
  <2>6. Collecting(M, j, 1, e, o2, p, in, box, lag, what)
    BY <1>3, <1>5, <2>4, <2>5 DEF Collecting
  <2> QED BY <2>2, <2>6 DEF Tale
<1> QED BY <1>4, <1>5

\* The objects up to the next one.
LEMMA NextObject ==
    ASSUME NEW T, NEW what \in Seq(T), NEW d \in 1..Len(what)
    PROVE  Append(SubSeq(what, 1, d - 1), what[d]) = SubSeq(what, 1, d)
<1>1. PICK n \in Nat : n = Len(what) /\ d <= n
  OBVIOUS
<1>2. PICK x, y : x = SubSeq(what, 1, d - 1) /\ y = SubSeq(what, 1, d)
  OBVIOUS
<1>3. \A i \in 1..n : what[i] \in T
  BY <1>1
<1>4. /\ x \in Seq(T) /\ Len(x) = d - 1 /\ \A i \in 1..(d - 1) : x[i] = what[i]
  BY <1>1, <1>2
<1>5. /\ y \in Seq(T) /\ Len(y) = d /\ \A i \in 1..d : y[i] = what[i]
  BY <1>1, <1>2
<1>6. PICK z : z = Append(x, what[d])
  OBVIOUS
<1>7. z \in Seq(T) /\ Len(z) = d /\ (\A i \in 1..(d - 1) : z[i] = x[i]) /\ z[d] = what[d]
  BY <1>1, <1>3, <1>4, <1>6
<1>8. \A i \in 1..d : z[i] = y[i]
  <2>1. ASSUME NEW i \in 1..d, i # d PROVE i \in 1..(d - 1)
    BY <2>1
  <2> QED BY <1>4, <1>5, <1>7, <2>1
<1>9. z = y
  BY <1>5, <1>7, <1>8
<1> QED BY <1>2, <1>6, <1>9

\* What the operation makes of an item: of one that belongs to nobody nothing.
LEMMA BabblePassed ==
    ASSUME op.kind \in OpKinds, NEW item \in Babble
    PROVE  ~Taken(item) /\ ~Complete(item)
<1>1. /\ item.response # "NodeInformation" /\ item.response # "Acknowledgement"
      /\ item.command # Id[NTF(NotificationOf.GetAllGroups)]
  BY BabbleItem
<1>2. NotificationOf.GetAllGroups = "GET_ALL_GROUPS_INFORMATION"
  BY DEF NotificationOf
<1>3. ~Complete(item)
  BY <1>1 DEF Complete
<1>4. CASE op.kind = "discover_nodes"
  BY <1>1, <1>3, <1>4 DEF Taken
<1>5. CASE op.kind = "discover_groups"
  BY <1>1, <1>2, <1>3, <1>5 DEF Taken
<1>6. CASE op.kind = "node_information"
  BY <1>1, <1>3, <1>6 DEF Taken
<1> QED BY <1>4, <1>5, <1>6 DEF OpKinds

\* Of one about an object, that object.
LEMMA ObjectTaken ==
    ASSUME op.kind \in OpKinds, NEW r, r = RequestOf(op.kind, op.object), NEW subject,
           op.kind = "node_information" => subject = op.object,
           NEW item, item = Item(About(NotificationOf[r.kind], subject)), item.response # Error
    PROVE  Taken(item) /\ ~Complete(item) /\ item.subject = subject
<1>1. /\ r.kind \in StreamKinds
      /\ op.kind = "discover_nodes" => r.kind = "GetAllNodesInformation"
      /\ op.kind = "discover_groups" => r.kind = "GetAllGroups"
      /\ op.kind = "node_information" => r.kind = "GetNodeInformation"
  BY RequestFields
<1>2. PICK variant : variant = IF r.kind = "GetAllGroups" THEN "GroupInformation" ELSE "NodeInformation"
  OBVIOUS
<1>3. NotifiedAs(NotificationOf[r.kind], variant)
  BY <1>1, <1>2, StreamTables
<1>4. PICK stem : stem = NotificationOf[r.kind]
  OBVIOUS
<1>5. item.response = variant /\ item.command = Id[NTF(stem)] /\ item.subject = subject
  BY <1>3, <1>4, AboutItem
<1>6. ~Complete(item)
  BY <1>2, <1>5 DEF Complete
<1>7. CASE op.kind = "discover_nodes"
  BY <1>1, <1>2, <1>5, <1>6, <1>7 DEF Taken
<1>8. CASE op.kind = "discover_groups"
  <2>1. stem = "GET_ALL_GROUPS_INFORMATION"
    BY <1>1, <1>4, <1>8 DEF NotificationOf
  <2> QED BY <1>1, <1>2, <1>5, <1>6, <1>8, <2>1 DEF Taken
<1>9. CASE op.kind = "node_information"
  BY <1>1, <1>2, <1>5, <1>6, <1>9 DEF Taken
<1> QED BY <1>7, <1>8, <1>9 DEF OpKinds

\* And of the end, that it is the end.
LEMMA EndRead ==
    ASSUME op.kind \in OpKinds, NEW r, r = RequestOf(op.kind, op.object),
           r.kind \in DOMAIN FinishedOf,
           NEW item, item = Item(About(FinishedOf[r.kind], 0)), item.response # Error
    PROVE  Complete(item) /\ ~Taken(item)
<1>1. /\ op.kind = "discover_nodes" => r.kind = "GetAllNodesInformation"
      /\ op.kind = "discover_groups" => r.kind = "GetAllGroups"
      /\ op.kind = "node_information" => r.kind = "GetNodeInformation"
  BY RequestFields
<1>2. NotifiedAs(FinishedOf[r.kind], "Acknowledgement")
  BY StreamTables
<1>3. PICK stem : stem = FinishedOf[r.kind]
  OBVIOUS
<1>4. item.response = "Acknowledgement" /\ item.command = Id[NTF(stem)]
  BY <1>2, <1>3, AboutItem
<1>5. op.kind # "node_information"
  BY <1>1 DEF FinishedOf
<1>6. CASE op.kind = "discover_nodes"
  <2>1. stem = FinishedOf.GetAllNodesInformation
    BY <1>1, <1>3, <1>6
  <2> QED BY <1>4, <1>6, <2>1 DEF Complete, Taken
<1>7. CASE op.kind = "discover_groups"
  <2>1. stem = FinishedOf.GetAllGroups
    BY <1>1, <1>3, <1>7
  <2> QED BY <1>4, <1>7, <2>1 DEF Complete, Taken
<1> QED BY <1>5, <1>6, <1>7 DEF OpKinds

\* The operation reads an item: it goes on, or returns what the gateway has reported.
LEMMA TaleCollected ==
    ASSUME TaleNow, op.stage = "collecting", lagged # TRUE, inbox # <<>>,
           op.kind \in OpKinds, DOMAIN op = OpFields,
           NEW item, item = Head(inbox), item.response # Error,
           NEW found, found = IF Taken(item) THEN Append(op.found, item.subject) ELSE op.found,
           NEW o2, o2 = [op EXCEPT !.found = found],
           NEW box2, box2 = SubSeq(inbox, 2, Len(inbox))
    PROVE  IF Complete(item) \/ (Taken(item) /\ op.kind = "node_information")
           THEN found = reported
           ELSE Tale(o2, pending, asked, incoming, box2, lagged, stream, reported)
<1> DEFINE Goal == IF Complete(item) \/ (Taken(item) /\ op.kind = "node_information")
                   THEN found = reported
                   ELSE Tale(o2, pending, asked, incoming, box2, lagged, stream, reported)
<1>1. PICK M, j : /\ Answering(M, j, op, asked, stream, reported)
                  /\ \E d, e : Collecting(M, j, d, e, op, pending, incoming, inbox, lagged, reported)
  BY DEF TaleNow, Tale, Unanswered, Confirming, Confirmed
<1>2. PICK d, e : Collecting(M, j, d, e, op, pending, incoming, inbox, lagged, reported)
  BY <1>1
<1>3. /\ pending = NoRequest /\ M[1].status = 0 /\ d \in 1..(Len(reported) + 1)
      /\ op.found = SubSeq(reported, 1, d - 1)
      /\ Carries(incoming, e, j, M, Chatter)
  BY <1>2 DEF Collecting, Onward
<1>4. PICK S, N : S = Items(M) /\ N = Babble
  OBVIOUS
<1>5. Carries(inbox, d, e, S, N)
  BY <1>2, <1>4 DEF Collecting, Onward
<1>6. PICK m \in Nat : Reads(item, d, m, S, N) /\ Carries(box2, m, e, S, N)
  BY <1>5, CarriesHead
<1>7. PICK r : r = RequestOf(op.kind, op.object)
  OBVIOUS
<1>8. Told(M, r, reported)
  BY <1>1, <1>7 DEF Answering
<1>9. PICK T : reported \in Seq(T)
  BY <1>8 DEF Told
<1>10. PICK n \in Nat : n = Len(reported)
  BY <1>9
<1>11. /\ o2.stage = "collecting" /\ o2.kind = op.kind /\ o2.object = op.object /\ o2.found = found
  BY DEF OpFields
<1>12. Answering(M, j, o2, asked, stream, reported)
  BY <1>1, <1>11 DEF Answering
<1>13. ASSUME m \in 1..(n + 1), found = SubSeq(reported, 1, m - 1)
       PROVE  Tale(o2, pending, asked, incoming, box2, lagged, stream, reported)
  <2>1. Collecting(M, j, m, e, o2, pending, incoming, box2, lagged, reported)
    BY <1>3, <1>4, <1>6, <1>10, <1>11, <1>13 DEF Collecting, Onward
  <2> QED BY <1>12, <2>1 DEF Tale
<1>14. CASE m = d /\ item \in N
  <2>1. ~Taken(item) /\ ~Complete(item)
    BY <1>4, <1>14, BabblePassed
  <2>2. found = op.found
    BY <2>1
  <2>3. m \in 1..(n + 1) /\ found = SubSeq(reported, 1, m - 1)
    BY <1>3, <1>10, <1>14, <2>2
  <2> QED BY <1>13, <2>1, <2>3
<1>15. CASE m = d + 1 /\ m \in DOMAIN S /\ item = S[m]
  <2>1. m \in DOMAIN M /\ item = Item(M[m])
    BY <1>4, <1>15 DEF Items
  <2>2. m \in 2..Len(M) /\ m - 1 = d
    <3>1. PICK W : M \in Seq(W)
      BY <1>8 DEF Told
    <3>2. DOMAIN M = 1..Len(M) /\ Len(M) \in Nat
      BY <3>1
    <3> QED BY <1>3, <1>10, <1>15, <2>1, <3>2
  <2>3. \/ m - 1 <= Len(reported) /\ M[m] = About(NotificationOf[r.kind], reported[m - 1])
        \/ /\ m = Len(reported) + 2 /\ r.kind \in DOMAIN FinishedOf
           /\ M[m] = About(FinishedOf[r.kind], 0)
    BY <1>8, <2>2 DEF Told
  <2>4. op.kind = "node_information" => reported = <<op.object>>
    <3>1. ASSUME op.kind = "node_information" PROVE r.kind = "GetNodeInformation" /\ r.subject = op.object
      BY <1>7, <3>1, RequestFields
    <3> QED BY <1>3, <1>8, <3>1 DEF Told
  <2>5. CASE d <= n /\ M[m] = About(NotificationOf[r.kind], reported[d])
    <3>1. d \in 1..n
      BY <1>3, <1>10, <2>5
    <3>2. PICK subject : subject = reported[d]
      OBVIOUS
    <3>3. ASSUME op.kind = "node_information" PROVE n = 1 /\ d = 1 /\ subject = op.object
      <4>1. reported = <<op.object>>
        BY <2>4, <3>3
      <4>2. Len(reported) = 1 /\ reported[1] = op.object
        BY <4>1
      <4>3. n = 1 /\ d = 1
        BY <1>10, <3>1, <4>2
      <4> QED BY <3>2, <4>2, <4>3
    <3>4. Taken(item) /\ ~Complete(item) /\ item.subject = subject
      BY <1>7, <2>1, <2>5, <3>2, <3>3, ObjectTaken
    <3>5. found = SubSeq(reported, 1, d)
      <4>1. found = Append(op.found, subject)
        BY <3>4
      <4> QED BY <1>3, <1>9, <1>10, <3>1, <3>2, <4>1, NextObject
    <3>6. CASE op.kind = "node_information"
      <4>1. found = reported
        BY <1>9, <1>10, <3>3, <3>5, <3>6, SubSeqFull
      <4> QED BY <3>4, <3>6, <4>1
    <3>7. CASE op.kind # "node_information"
      <4>1. m \in 1..(n + 1) /\ m - 1 = d
        BY <1>15, <2>2, <3>1
      <4>2. Tale(o2, pending, asked, incoming, box2, lagged, stream, reported)
        BY <1>13, <3>5, <4>1
      <4> QED BY <3>4, <3>7, <4>2
    <3> QED BY <3>6, <3>7
  <2>6. CASE /\ m = n + 2 /\ r.kind \in DOMAIN FinishedOf
             /\ M[m] = About(FinishedOf[r.kind], 0)
    <3>1. Complete(item) /\ ~Taken(item)
      BY <1>7, <2>1, <2>6, EndRead
    <3>2. d - 1 = n
      BY <1>3, <1>10, <1>15, <2>6
    <3>3. found = reported
      <4>1. found = SubSeq(reported, 1, n)
        BY <1>3, <3>1, <3>2
      <4> QED BY <1>9, <1>10, <4>1, SubSeqFull
    <3> QED BY <3>1, <3>3
  <2> QED BY <1>10, <2>2, <2>3, <2>5, <2>6
<1> QED BY <1>6, <1>14, <1>15 DEF Reads

-----------------------------------------------------------------------------
\* An operation that began with nothing outstanding, and its tale.
Sincere == op # NoOp /\ op.clean
FindInv == DiscoveryTrue /\ (Sincere => orphan = NoRequest /\ TaleNow)
NewTale == Tale(op', pending', asked', incoming', inbox', lagged', stream', reported')

\* To keep FindInv it is enough to return nothing and to go on with the tale, or to end.
LEMMA FindKept ==
    ASSUME event'.kind # "found",
           op' = NoOp \/ (op'.clean => orphan' = NoRequest /\ NewTale)
    PROVE  FindInv'
<1>1. DiscoveryTrue'
  BY Zenon DEF DiscoveryTrue
<1>2. NewTale => TaleNow'
  BY TaleNext DEF NewTale
<1>3. op' # NoOp /\ op'.clean => orphan' = NoRequest /\ TaleNow'
  BY <1>2, Zenon
<1> QED BY <1>1, <1>3, Zenon DEF FindInv, Sincere

\* What FindInv says of a sincere operation.
LEMMA SincereTale ==
    ASSUME SessionInv, FindInv, op # NoOp, op.clean
    PROVE  /\ orphan = NoRequest /\ Apart /\ op.kind \in OpKinds /\ DOMAIN op = OpFields
           /\ Tale(op, pending, asked, incoming, inbox, lagged, stream, reported)
           /\ asked = NoRequest \/ (asked = RequestOf(op.kind, op.object) /\ asked.kind \in StreamKinds)
           /\ pending = NoRequest \/ (/\ pending = RequestOf(op.kind, op.object)
                                      /\ pending.kind \in StreamKinds /\ op.stage = "waiting")
<1>1. orphan = NoRequest /\ TaleNow
  BY Zenon DEF FindInv, Sincere
<1>2. Apart /\ op.kind \in OpKinds /\ DOMAIN op = OpFields
  BY OperationApart
<1>3. RequestOf(op.kind, op.object).kind \in StreamKinds
  BY <1>2, OperationStreams
<1>4. Tale(op, pending, asked, incoming, inbox, lagged, stream, reported)
  BY <1>1 DEF TaleNow
<1>5. pending = NoRequest \/ (pending = RequestOf(op.kind, op.object) /\ op.stage = "waiting")
  BY <1>4 DEF Tale, Unanswered, Confirming, Confirmed, Collecting
<1>6. asked = NoRequest \/ asked = RequestOf(op.kind, op.object)
  BY <1>4 DEF Tale, Unanswered, Answering
<1> QED BY <1>1, <1>2, <1>3, <1>4, <1>5, <1>6

\* The gateway and the actor go on with something else than a sincere operation.
LEMMA FindExchange ==
    ASSUME SessionInv, FindInv, ExchangeStep
    PROVE  FindInv'
<1>1. UNCHANGED <<op, orphan>>
  BY DEF ExchangeStep, client
<1>2. ~(op # NoOp /\ op.clean)
  <2> SUFFICES ASSUME op # NoOp, op.clean PROVE FALSE
    OBVIOUS
  <2>1. /\ sessions = {} /\ asked.kind \notin SessionKinds /\ \A s \in Ids : running[s] = 0
    BY SincereTale DEF Apart
  <2>2. asked = NoRequest \/ asked.kind \in StreamKinds
    BY SincereTale
  <2>3. ~GatewayAccepts
    BY <2>1 DEF GatewayAccepts
  <2>4. ~GatewayAnswers
    BY <2>2 DEF GatewayAnswers
  <2>5. ~GatewayFinishes
    <3> SUFFICES ASSUME NEW s \in Ids, running[s] > 0 PROVE FALSE
      BY DEF GatewayFinishes
    <3>1. running[s] = 0
      BY <2>1
    <3> QED BY <3>1
  <2>6. ~expire_sessions
    BY <2>1 DEF expire_sessions
  <2> QED BY <2>3, <2>4, <2>5, <2>6 DEF ExchangeStep
<1>3. event'.kind # "found"
  <2>1. CASE Send
    BY <2>1 DEF Send, Dispatch, Nothing
  <2>2. CASE AllocatorStep
    BY <2>2 DEF AllocatorStep, Nothing
  <2>3. CASE Noise
    <3>1. event' = Nothing
      BY <2>3, Zenon DEF Noise
    <3> QED BY <3>1 DEF Nothing
  <2>4. CASE Carry
    <3>1. \E frame, wire, received, result :
             event' = [kind |-> "carried", frame |-> frame, wire |-> wire,
                       received |-> received, result |-> result]
      BY <2>4, Zenon DEF Carry
    <3> QED BY <3>1
  <2>5. CASE GatewayAccepts \/ GatewayAnswers \/ GatewayFinishes \/ expire_sessions
    <3>1. event' = Nothing
      BY <2>5 DEF GatewayAccepts, GatewayAnswers, GatewayFinishes, expire_sessions
    <3> QED BY <3>1 DEF Nothing
  <2> QED BY <2>1, <2>2, <2>3, <2>4, <2>5 DEF ExchangeStep
<1>4. op' = NoOp \/ ~op'.clean
  BY <1>1, <1>2, Zenon
<1> QED BY <1>3, <1>4, FindKept, Zenon

\* The gateway answers the operation and goes on with its answer.
LEMMA FindGateway ==
    ASSUME SessionInv, FindInv, GatewayStreams \/ GatewayNotifies \/ GatewayChatters
    PROVE  FindInv'
<1>1. UNCHANGED <<op, pending, inbox, lagged, orphan>> /\ event' = Nothing
  BY DEF GatewayStreams, GatewayNotifies, GatewayChatters, client
<1>2. event'.kind # "found"
  BY <1>1 DEF Nothing
<1>3. ASSUME op # NoOp, op.clean PROVE orphan' = NoRequest /\ NewTale
  <2>1. /\ orphan = NoRequest /\ op.kind \in OpKinds
        /\ Tale(op, pending, asked, incoming, inbox, lagged, stream, reported)
    BY <1>3, SincereTale
  <2>2. CASE GatewayNotifies
    <3>1. PICK f : /\ stream # <<>> /\ f = Head(stream) /\ stream' = SubSeq(stream, 2, Len(stream))
                   /\ incoming' = Append(incoming, f) /\ UNCHANGED <<asked, reported>>
      BY <2>2 DEF GatewayNotifies, gateway
    <3>2. Tale(op, pending, asked, incoming', inbox, lagged, stream', reported)
      BY <2>1, <3>1, TaleSent
    <3> QED BY <1>1, <2>1, <3>1, <3>2 DEF NewTale
  <2>3. CASE GatewayChatters
    <3>1. PICK f \in Chatter : incoming' = Append(incoming, f) /\ UNCHANGED <<asked, stream, reported>>
      BY <2>3 DEF GatewayChatters, gateway, streams
    <3>2. Tale(op, pending, asked, incoming', inbox, lagged, stream', reported)
      BY <2>1, <3>1, TaleSent
    <3> QED BY <1>1, <2>1, <3>1, <3>2 DEF NewTale
  <2>4. CASE GatewayStreams
    <3>1. asked # NoRequest /\ stream = <<>> /\ asked' = NoRequest /\ asked.kind \in StreamKinds
      BY <2>4 DEF GatewayStreams
    <3>2. ConfirmationOf(asked.kind) = Id[CFM(StemAsked(asked))]
      BY <3>1, StreamAwaited DEF ConfirmationOf
    <3>3. ASSUME NEW status, NEW f, f = Confirmation(asked, status)
          PROVE  f.command = ConfirmationOf(asked.kind) /\ f.status = status
      <4>1. PICK c, s, x : c = Id[CFM(StemAsked(asked))] /\ s = SessionAnswered(asked) /\ x = asked.subject
        OBVIOUS
      <4>2. PICK l \in Nat : f = Content(c, l, s, status, x)
        BY <3>3, <4>1, ConfirmationMade
      <4> QED BY <3>2, <4>1, <4>2, ContentRead
    <3>4. ASSUME NEW subject, NEW f, f = [Confirmation(asked, 0) EXCEPT !.subject = subject]
          PROVE  f.command = ConfirmationOf(asked.kind) /\ f.status = 0
      <4>1. PICK c, s, x, g : /\ c = Id[CFM(StemAsked(asked))] /\ s = SessionAnswered(asked)
                              /\ x = asked.subject /\ g = Confirmation(asked, 0)
        OBVIOUS
      <4>2. PICK l \in Nat : g = Content(c, l, s, 0, x)
        BY <4>1, ConfirmationMade
      <4>3. f = Content(c, l, s, 0, subject)
        BY <3>4, <4>1, <4>2, SubjectChanged
      <4> QED BY <3>2, <4>1, <4>3, ContentRead
    <3>5. ASSUME NEW f, incoming' = Append(incoming, f), NEW M, Told(M, asked, reported'),
                 f = M[1], Remains(stream', M, 1)
          PROVE  NewTale
      <4>1. PICK s2, told : s2 = stream' /\ told = reported'
        OBVIOUS
      <4>2. Tale(op, pending, NoRequest, incoming', inbox, lagged, s2, told)
        BY <2>1, <3>1, <3>5, <4>1, TaleAnswered
      <4> QED BY <1>1, <3>1, <4>1, <4>2 DEF NewTale
    <3>6. ASSUME NEW subjects \in Subjects(asked), NEW confirmed,
                 stream' = Notifications(asked.kind, subjects), reported' = subjects,
                 incoming' = Append(incoming, [Confirmation(asked, 0) EXCEPT !.subject = confirmed])
          PROVE  NewTale
      <4>1. PICK f : f = [Confirmation(asked, 0) EXCEPT !.subject = confirmed]
        OBVIOUS
      <4>2. f.command = ConfirmationOf(asked.kind) /\ f.status = 0
        BY <3>4, <4>1
      <4>3. asked.kind = "GetNodeInformation" => subjects = <<asked.subject>>
        BY <3>6 DEF Subjects
      <4>4. PICK T : subjects \in Seq(T)
        BY <3>6, SubjectsSequence
      <4>5. PICK s : s = stream'
        OBVIOUS
      <4>6. PICK M : Told(M, asked, subjects) /\ Remains(s, M, 1) /\ M[1] = f
        BY <3>6, <4>2, <4>3, <4>4, <4>5, ToldAll
      <4> QED BY <3>5, <3>6, <4>1, <4>5, <4>6
    <3>7. ASSUME NEW status \in {1, 2}, incoming' = Append(incoming, Confirmation(asked, status)),
                 reported' = <<>>, UNCHANGED stream
          PROVE  NewTale
      <4>1. PICK f : f = Confirmation(asked, status)
        OBVIOUS
      <4>2. f.command = ConfirmationOf(asked.kind) /\ f.status # 0
        BY <3>3, <3>7, <4>1
      <4>3. PICK M, s, told : M = <<f>> /\ s = stream' /\ told = reported'
        OBVIOUS
      <4>4. s = <<>> /\ told = <<>>
        BY <3>1, <3>7, <4>3
      <4>5. Told(M, asked, told) /\ Remains(s, M, 1) /\ M[1] = f
        BY <4>2, <4>3, <4>4, ToldNothing
      <4> QED BY <3>5, <3>7, <4>1, <4>3, <4>5
    <3>8. NewTale
      BY <2>4, <3>6, <3>7 DEF GatewayStreams
    <3> QED BY <1>1, <2>1, <3>8
  <2> QED BY <2>2, <2>3, <2>4
<1> QED BY <1>1, <1>2, <1>3, FindKept, Zenon

\* An operation begins.
LEMMA FindBegin ==
    ASSUME QueueInv, Begin
    PROVE  FindInv'
<1>1. PICK call \in Calls :
         op' = [kind |-> call[1], object |-> call[2], stage |-> "asking", found |-> <<>>,
                answer |-> Nothing, clean |-> Clean]
  BY DEF Begin
<1>2. /\ inbox' = <<>> /\ event' = Nothing
      /\ UNCHANGED <<pending, asked, incoming, orphan, stream, reported>>
  BY DEF Begin, gateway, streams
<1>3. op'.stage = "asking" /\ op'.found = <<>>
  BY <1>1
<1>4. op'.clean = Clean
  BY <1>1, Zenon
<1>5. ASSUME Clean PROVE orphan' = NoRequest /\ NewTale
  <2>1. /\ pending = NoRequest /\ asked = NoRequest /\ stream = <<>> /\ orphan = NoRequest
        /\ \A i \in DOMAIN incoming : incoming[i] \in Chatter
    BY <1>5 DEF Clean
  <2>2. PICK T : incoming \in Seq(T)
    BY DEF QueueInv, Queue
  <2>3. PICK n \in Nat : DOMAIN incoming = 1..n /\ Len(incoming) = n
    BY <2>2
  <2>4. incoming \in [1..n -> Chatter]
    BY <2>1, <2>2, <2>3
  <2>5. incoming \in Seq(Chatter)
    BY <2>4, SeqDef
  <2>6. <<>> \in Seq(Babble)
    OBVIOUS
  <2>7. Babbles(inbox', lagged')
    BY <1>2, <2>6 DEF Babbles
  <2>8. Unanswered(op', pending', asked', incoming', inbox', lagged', stream')
    BY <1>2, <1>3, <2>1, <2>5, <2>7 DEF Unanswered
  <2> QED BY <1>2, <2>1, <2>8 DEF NewTale, Tale
<1>6. event'.kind # "found"
  BY <1>2 DEF Nothing
<1> QED BY <1>4, <1>5, <1>6, FindKept, Zenon

\* The actor dispatches a request.
LEMMA FindAsk ==
    ASSUME SessionInv, FindInv, Ask \/ AskOrphaned
    PROVE  FindInv'
<1>1. event' = Nothing
  BY DEF Ask, AskOrphaned, Dispatch
<1>2. event'.kind # "found"
  BY <1>1 DEF Nothing
<1>3. CASE AskOrphaned
  <2>1. op' = op /\ orphan # NoRequest
    BY <1>3 DEF AskOrphaned
  <2>2. ~(op # NoOp /\ op.clean)
    BY <2>1, SincereTale
  <2>3. op' = NoOp \/ ~op'.clean
    BY <2>1, <2>2, Zenon
  <2> QED BY <1>2, <2>3, FindKept, Zenon
<1>4. CASE Ask
  <2>1. /\ op # NoOp /\ op.stage = "asking" /\ op' = [op EXCEPT !.stage = "waiting"]
        /\ UNCHANGED <<inbox, lagged, orphan, stream, reported>>
    BY <1>4 DEF Ask, streams
  <2>2. PICK r : r = RequestOf(op.kind, op.object)
    OBVIOUS
  <2>3. Dispatch(r)
    BY <1>4, <2>2 DEF Ask
  <2>4. /\ pending' = asked' /\ pending' \in {NoRequest, r} /\ incoming' = incoming
    BY <2>3 DEF Dispatch
  <2>5. ASSUME op.clean PROVE orphan' = NoRequest /\ NewTale
    <3>1. /\ orphan = NoRequest /\ DOMAIN op = OpFields
          /\ Tale(op, pending, asked, incoming, inbox, lagged, stream, reported)
      BY <2>1, <2>5, SincereTale
    <3>2. PICK o2, p2 : o2 = op' /\ p2 = pending'
      OBVIOUS
    <3>3. o2 = [op EXCEPT !.stage = "waiting"] /\ p2 \in {NoRequest, RequestOf(op.kind, op.object)}
      BY <2>1, <2>2, <2>4, <3>2
    <3>4. Tale(o2, p2, p2, incoming, inbox, lagged, stream, reported)
      BY <2>1, <3>1, <3>3, TaleAsked
    <3> QED BY <2>1, <2>4, <3>1, <3>2, <3>4 DEF NewTale
  <2>6. DOMAIN op = OpFields
    BY <2>1, OperationApart
  <2>7. op'.clean = op.clean
    BY <2>1, <2>6 DEF OpFields
  <2> QED BY <1>2, <2>5, <2>7, FindKept, Zenon
<1> QED BY <1>3, <1>4

\* The actor handles a frame.
LEMMA FindReceive ==
    ASSUME SessionInv, FindInv, Receive
    PROVE  FindInv'
<1>1. PICK f : f = Head(incoming)
  OBVIOUS
<1>2. /\ incoming # <<>> /\ incoming' = SubSeq(incoming, 2, Len(incoming)) /\ event' = Nothing
      /\ IF Confirms(f) THEN Confirm(f, Decode(f)) ELSE Publish(f, Decode(f))
      /\ UNCHANGED <<asked, orphan, stream, reported>>
  BY <1>1 DEF Receive, handle_frame, gateway, streams
<1>3. event'.kind # "found"
  BY <1>2 DEF Nothing
<1>4. CASE op = NoOp
  <2>1. op' = NoOp
    BY <1>4 DEF Receive, client
  <2> QED BY <1>3, <2>1, FindKept
<1>5. CASE op # NoOp /\ pending' = pending
  <2>1. op' = op
    BY <1>5 DEF Receive
  <2>2. Hears(f, inbox, lagged, inbox', lagged')
    <3>1. /\ lagged' = (lagged \/ Len(inbox) = EventBuffer)
          /\ Len(inbox) # EventBuffer => inbox' = Append(inbox, Item(f))
      BY <1>1, <1>5, Zenon DEF Receive, Item
    <3>2. lagged' = TRUE \/ (lagged # TRUE /\ Len(inbox) # EventBuffer)
      BY <3>1
    <3> QED BY <3>1, <3>2 DEF Hears
  <2>3. ASSUME op.clean PROVE orphan' = NoRequest /\ NewTale
    <3>1. /\ orphan = NoRequest /\ op.kind \in OpKinds
          /\ Tale(op, pending, asked, incoming, inbox, lagged, stream, reported)
          /\ pending = NoRequest \/ pending.kind \in StreamKinds
      BY <1>5, <2>3, SincereTale
    <3>2. pending # NoRequest => f.command # ConfirmationOf(pending.kind)
      <4> SUFFICES ASSUME pending # NoRequest, f.command = ConfirmationOf(pending.kind) PROVE FALSE
        OBVIOUS
      <4>1. /\ expected_confirmation(command_id(pending)) = f.command
            /\ session_id(pending) = NoSession
        BY <3>1, StreamAwaited
      <4>2. Confirm(f, Decode(f))
        BY <1>2, <4>1 DEF Confirms
      <4>3. confirmation_session_matches(pending, Decode(f), f)
        BY <4>1 DEF confirmation_session_matches
      <4>4. pending' = NoRequest
        BY <4>2, <4>3 DEF Confirm
      <4> QED BY <1>5, <4>4
    <3>3. PICK in2, box2, lag2 : in2 = incoming' /\ box2 = inbox' /\ lag2 = lagged'
      OBVIOUS
    <3>4. Hears(f, inbox, lagged, box2, lag2)
      BY <2>2, <3>3
    <3>5. Tale(op, pending, asked, in2, box2, lag2, stream, reported)
      BY <1>1, <1>2, <3>1, <3>2, <3>3, <3>4, TaleHeard
    <3> QED BY <1>2, <1>5, <2>1, <3>1, <3>3, <3>5 DEF NewTale
  <2> QED BY <1>3, <2>1, <2>3, FindKept, Zenon
<1>6. CASE op # NoOp /\ pending' # pending
  <2>1. /\ UNCHANGED <<inbox, lagged>>
        /\ op' = IF op.stage = "waiting"
                 THEN [op EXCEPT !.stage = "answered", !.answer = f] ELSE op
    BY <1>1, <1>6, Zenon DEF Receive
  <2>2. Confirms(f) /\ pending' = NoRequest
    <3>1. CASE Confirms(f)
      BY <1>2, <1>6, <3>1 DEF Confirm
    <3>2. CASE ~Confirms(f)
      BY <1>2, <1>6, <3>2 DEF Publish
    <3> QED BY <3>1, <3>2
  <2>3. ASSUME op.clean PROVE orphan' = NoRequest /\ NewTale
    <3>1. /\ orphan = NoRequest /\ op.kind \in OpKinds /\ DOMAIN op = OpFields
          /\ Tale(op, pending, asked, incoming, inbox, lagged, stream, reported)
          /\ pending = NoRequest \/ pending.kind \in StreamKinds
      BY <1>6, <2>3, SincereTale
    <3>2. pending # NoRequest /\ f.command = ConfirmationOf(pending.kind)
      BY <2>2, <3>1, StreamAwaited DEF Confirms
    <3>3. PICK in2, o2 : in2 = incoming' /\ o2 = [op EXCEPT !.stage = "answered", !.answer = f]
      OBVIOUS
    <3>4. op.stage = "waiting" /\ Tale(o2, NoRequest, asked, in2, inbox, lagged, stream, reported)
      BY <1>1, <1>2, <3>1, <3>2, <3>3, TaleConfirmed
    <3> QED BY <1>2, <2>1, <2>2, <3>1, <3>3, <3>4 DEF NewTale
  <2>4. DOMAIN op = OpFields
    BY <1>6, OperationApart
  <2>5. op'.clean = op.clean
    BY <2>1, <2>4 DEF OpFields
  <2> QED BY <1>3, <2>3, <2>5, FindKept, Zenon
<1> QED BY <1>4, <1>5, <1>6

\* What an operation returns that is what the gateway has reported, if it is sincere.
LEMMA FindReturn ==
    ASSUME NEW found, Return(found), op.clean => found = reported, UNCHANGED reported
    PROVE  FindInv'
<1>1. op' = NoOp /\ event' = [kind |-> "found", found |-> found, clean |-> op.clean]
  BY DEF Return, Leave
<1>2. event'.found = found
  BY <1>1
<1>3. event'.clean = op.clean
  BY <1>1
<1>4. event'.clean => event'.found = reported'
  BY <1>2, <1>3, Zenon
<1> QED BY <1>1, <1>4, Zenon DEF FindInv, DiscoveryTrue, Sincere

\* An operation that fails returns nothing.
LEMMA FindFail ==
    ASSUME Fail
    PROVE  FindInv'
<1>1. op' = NoOp /\ event'.kind # "found"
  BY DEF Fail, Leave, Nothing
<1> QED BY <1>1, FindKept

\* The operation reads the confirmation.
LEMMA FindRead ==
    ASSUME SessionInv, FindInv, ReadAnswer
    PROVE  FindInv'
<1>1. /\ op # NoOp /\ op.stage = "answered"
      /\ UNCHANGED <<pending, asked, incoming, orphan, stream, reported>>
  BY DEF ReadAnswer, gateway, streams
<1>2. DOMAIN op = OpFields
  BY <1>1, OperationApart
<1>3. PICK o2 : o2 = [op EXCEPT !.stage = "collecting", !.answer = Nothing]
  OBVIOUS
<1>4. op.clean => /\ orphan = NoRequest
                  /\ op.answer.status = 0 =>
                        Tale(o2, pending, asked, incoming, inbox, lagged, stream, reported)
                  /\ op.answer.status # 0 => reported = <<>>
  <2> SUFFICES ASSUME op.clean
               PROVE  /\ orphan = NoRequest
                      /\ op.answer.status = 0 =>
                            Tale(o2, pending, asked, incoming, inbox, lagged, stream, reported)
                      /\ op.answer.status # 0 => reported = <<>>
    BY Zenon
  <2>1. /\ orphan = NoRequest
        /\ Tale(op, pending, asked, incoming, inbox, lagged, stream, reported)
    BY <1>1, SincereTale
  <2>2. op.stage = "answered"
    BY <1>1
  <2>3. /\ op.answer.status = 0 => Tale(o2, pending, asked, incoming, inbox, lagged, stream, reported)
        /\ op.answer.status # 0 => reported = <<>>
    <3>2. /\ o2.stage = "collecting" /\ o2.kind = op.kind /\ o2.object = op.object
          /\ o2.found = op.found
      BY <1>2, <1>3 DEF OpFields
    <3>3. PICK c : c = op.answer
      OBVIOUS
    <3>4. IF c.status = 0
          THEN Tale(o2, pending, asked, incoming, inbox, lagged, stream, reported)
          ELSE reported = <<>>
      BY <2>1, <2>2, <3>2, <3>3, TaleRead
    <3> QED BY <3>3, <3>4
  <2> QED BY <2>1, <2>3
<1>5. Accepted(op.answer) => op.answer.status = 0
  BY DEF Accepted
<1>6. NoGroups(op.answer) => op.answer.status # 0
  BY DEF NoGroups
<1>7. \/ Accepted(op.answer) /\ op' = o2 /\ event' = Nothing /\ UNCHANGED <<inbox, lagged>>
      \/ NoGroups(op.answer) /\ Return(<<>>)
      \/ Fail
  BY <1>3, Zenon DEF ReadAnswer
<1>8. CASE Accepted(op.answer) /\ op' = o2 /\ event' = Nothing /\ UNCHANGED <<inbox, lagged>>
  <2>1. event'.kind # "found"
    BY <1>8 DEF Nothing
  <2>2. op'.clean = op.clean
    BY <1>2, <1>3, <1>8 DEF OpFields
  <2>3. ASSUME op.clean PROVE orphan' = NoRequest /\ NewTale
    BY <1>1, <1>4, <1>5, <1>8, <2>3, Zenon DEF NewTale
  <2> QED BY <2>1, <2>2, <2>3, FindKept, Zenon
<1>9. CASE NoGroups(op.answer) /\ Return(<<>>)
  <2>1. op.clean => <<>> = reported
    BY <1>4, <1>6, <1>9, Zenon
  <2> QED BY <1>1, <1>9, <2>1, FindReturn
<1> QED BY <1>7, <1>8, <1>9, FindFail

\* The operation reads an event.
LEMMA FindCollect ==
    ASSUME SessionInv, FindInv, Collect
    PROVE  FindInv'
<1>1. /\ op # NoOp /\ op.stage = "collecting" /\ ~lagged /\ inbox # <<>>
      /\ UNCHANGED <<pending, asked, incoming, orphan, stream, reported>>
  BY DEF Collect, gateway, streams
<1>2. DOMAIN op = OpFields /\ op.kind \in OpKinds
  BY <1>1, OperationApart
<1>3. PICK item : item = Head(inbox)
  OBVIOUS
<1>4. PICK found : found = IF Taken(item) THEN Append(op.found, item.subject) ELSE op.found
  OBVIOUS
<1>5. PICK o2, box2 : o2 = [op EXCEPT !.found = found] /\ box2 = SubSeq(inbox, 2, Len(inbox))
  OBVIOUS
<1> DEFINE Over == Complete(item) \/ (Taken(item) /\ op.kind = "node_information")
<1>6. \/ Fail
      \/ item.response # Error /\ Over /\ Return(found)
      \/ /\ item.response # Error /\ ~Over
         /\ op' = o2 /\ inbox' = box2 /\ event' = Nothing /\ UNCHANGED lagged
  <2>1. CASE item.response = Error
    <3>1. ~Complete(item)
      BY <2>1 DEF Complete, Error
    <3>2. ~Taken(item)
      BY <1>2, <2>1 DEF Taken, Error, OpKinds
    <3> QED BY <1>3, <1>4, <1>5, <2>1, <3>1, <3>2, Zenon DEF Collect
  <2>2. CASE item.response # Error
    BY <1>3, <1>4, <1>5, <2>2, Zenon DEF Collect
  <2> QED BY <2>1, <2>2
<1>7. lagged # TRUE
  BY <1>1, Zenon
<1>8. ASSUME op.clean, item.response # Error
      PROVE  /\ orphan = NoRequest
             /\ Over => found = reported
             /\ ~Over => Tale(o2, pending, asked, incoming, box2, lagged, stream, reported)
  <2>1. /\ orphan = NoRequest
        /\ Tale(op, pending, asked, incoming, inbox, lagged, stream, reported)
    BY <1>1, <1>8, SincereTale
  <2>2. TaleNow
    BY <2>1 DEF TaleNow
  <2>3. IF Over THEN found = reported
        ELSE Tale(o2, pending, asked, incoming, box2, lagged, stream, reported)
    BY <1>1, <1>2, <1>3, <1>4, <1>5, <1>7, <1>8, <2>2, TaleCollected
  <2> QED BY <2>1, <2>3, Zenon
<1> HIDE DEF Over
<1>9. CASE item.response # Error /\ Over /\ Return(found)
  <2>1. op.clean => found = reported
    BY <1>8, <1>9, Zenon
  <2> QED BY <1>1, <1>9, <2>1, FindReturn
<1>10. CASE /\ item.response # Error /\ ~Over
            /\ op' = o2 /\ inbox' = box2 /\ event' = Nothing /\ UNCHANGED lagged
  <2>1. event'.kind # "found"
    BY <1>10 DEF Nothing
  <2>2. op'.clean = op.clean
    BY <1>2, <1>5, <1>10 DEF OpFields
  <2>3. ASSUME op.clean PROVE orphan' = NoRequest /\ NewTale
    BY <1>1, <1>8, <1>10, <2>3, Zenon DEF NewTale
  <2> QED BY <2>1, <2>2, <2>3, FindKept, Zenon
<1> QED BY <1>6, <1>9, <1>10, FindFail

\* Every step keeps FindInv.
LEMMA FindNext ==
    SessionInv /\ QueueInv /\ FindInv /\ [DiscoveryNext]_discoveryVars => FindInv'
<1> SUFFICES ASSUME SessionInv, QueueInv, FindInv, [DiscoveryNext]_discoveryVars PROVE FindInv'
  OBVIOUS
<1>1. CASE UNCHANGED discoveryVars
  <2>1. UNCHANGED <<event, op, pending, asked, incoming, inbox, lagged, stream, reported, orphan>>
    BY <1>1 DEF discoveryVars, exchange, client, streams
  <2>2. DiscoveryTrue'
    BY <2>1, Zenon DEF FindInv, DiscoveryTrue
  <2>3. ASSUME op # NoOp, op.clean PROVE orphan' = NoRequest /\ TaleNow'
    <3>1. /\ orphan = NoRequest
          /\ Tale(op, pending, asked, incoming, inbox, lagged, stream, reported)
      BY <2>3, SincereTale
    <3>2. Tale(op', pending', asked', incoming', inbox', lagged', stream', reported')
      BY <2>1, <3>1
    <3> QED BY <2>1, <3>1, <3>2, TaleNext
  <2> QED BY <2>1, <2>2, <2>3, Zenon DEF FindInv, Sincere
<1>2. CASE ExchangeStep
  BY <1>2, FindExchange
<1>3. CASE GatewayStreams \/ GatewayNotifies \/ GatewayChatters
  BY <1>3, FindGateway
<1>4. CASE Begin
  BY <1>4, FindBegin
<1>5. CASE Ask \/ AskOrphaned
  BY <1>5, FindAsk
<1>6. CASE Receive
  BY <1>6, FindReceive
<1>7. CASE Expire
  <2>1. /\ op' = op /\ event' = Nothing /\ pending # NoRequest /\ ~(op # NoOp /\ op.stage = "waiting")
    BY <1>7 DEF Expire, expire_request, client
  <2>2. ~(op # NoOp /\ op.clean)
    BY <2>1, SincereTale
  <2>3. event'.kind # "found"
    BY <2>1 DEF Nothing
  <2>4. op' = NoOp \/ ~op'.clean
    BY <2>1, <2>2, Zenon
  <2> QED BY <2>3, <2>4, FindKept, Zenon
<1>8. CASE AskExpires \/ GiveUp \/ Drop \/ Disconnect
  BY <1>8, FindFail DEF AskExpires, GiveUp, Drop, Disconnect
<1>9. CASE ReadAnswer
  BY <1>9, FindRead
<1>10. CASE Collect
  BY <1>10, FindCollect
<1> QED BY <1>1, <1>2, <1>3, <1>4, <1>5, <1>6, <1>7, <1>8, <1>9, <1>10 DEF DiscoveryNext

\* A discovery that begins with nothing outstanding and succeeds returns what the gateway
\* has reported, all of it, in its order and nothing else.
THEOREM DiscoveriesTrue == DiscoverySpec => []DiscoveryTrue
<1>1. DiscoveryInit => FindInv
  BY DEF DiscoveryInit, ExchangeInit, FindInv, Sincere, DiscoveryTrue, Nothing
<1>2. FindInv => DiscoveryTrue
  BY DEF FindInv
<1>3. DiscoverySpec => []QueueInv
  BY QueueInit, QueueNext, PTL DEF DiscoverySpec
<1> QED BY <1>1, <1>2, <1>3, SessionInvariant, FindNext, PTL DEF DiscoverySpec
-----------------------------------------------------------------------------
(***************************************************************************)
(* Answers.  Whatever arrives while nothing is going on is gone before a    *)
(* request is sent, and until then nothing is pending.                      *)
(***************************************************************************)
AllMade(q) == \E T : q \in Seq(T) /\ \A f \in T : Made(f)
Alone ==
    /\ active = {} /\ pending = NoRequest /\ asked = NoRequest /\ orphan = NoRequest
    /\ op = NoOp /\ stream = <<>>

\* A request the actor has sent: its confirmation is known, a raw one asks for the state,
\* and one for a session names it.
KindAsked(request) == IF request.kind = "Raw" THEN "GetState" ELSE request.kind
Wanted(request) ==
    /\ expected_confirmation(command_id(request)) # NoCommand
    /\ KindAsked(request) \in Kinds /\ command_id(request) = Id[REQ(StemOf[KindAsked(request)])]
    /\ request.kind \in SessionKinds => request.session # NoSession
AnswerInv ==
    /\ pending # NoRequest => Wanted(pending)
    /\ AllMade(stream)
    /\ AllMade(incoming) \/ Alone

\* A queue with a frame more.
LEMMA MadeAppend ==
    ASSUME NEW q, NEW f, AllMade(q), Made(f)
    PROVE  AllMade(Append(q, f))
<1>1. PICK T : q \in Seq(T) /\ \A g \in T : Made(g)
  BY DEF AllMade
<1>2. PICK U : U = T \cup {f}
  OBVIOUS
<1>3. q \in Seq(U) /\ f \in U /\ \A g \in U : Made(g)
  BY <1>1, <1>2
<1>4. Append(q, f) \in Seq(U)
  BY <1>3
<1> QED BY <1>3, <1>4 DEF AllMade

\* A queue without its first frame.
LEMMA MadeRest ==
    ASSUME NEW q, AllMade(q), q # <<>>
    PROVE  Made(Head(q)) /\ AllMade(SubSeq(q, 2, Len(q)))
<1>1. PICK T : q \in Seq(T) /\ \A g \in T : Made(g)
  BY DEF AllMade
<1>2. PICK t : t = SubSeq(q, 2, Len(q))
  OBVIOUS
<1>3. Head(q) \in T /\ t \in Seq(T)
  BY <1>1, <1>2, Behind
<1> QED BY <1>1, <1>2, <1>3 DEF AllMade

\* The queue in which nothing is.
LEMMA MadeEmpty == AllMade(<<>>)
<1>1. PICK T : T = {}
  OBVIOUS
<1>2. <<>> \in Seq(T) /\ \A f \in T : Made(f)
  BY <1>1
<1> QED BY <1>2 DEF AllMade

\* A queue of which every frame belongs to nothing.
LEMMA ChatterQueue ==
    ASSUME NEW q, NEW T, q \in Seq(T), \A i \in DOMAIN q : q[i] \in Chatter
    PROVE  AllMade(q)
<1>1. q \in Seq(Chatter)
  OBVIOUS
<1> QED BY <1>1, ChatterMade DEF AllMade

\* What the actor sends is wanted.
LEMMA RequestWanted ==
    ASSUME TypeOK, NEW request \in Requests, Refusal(request) = "none"
    PROVE  Wanted(request)
<1>1. expected_confirmation(command_id(request)) # NoCommand
  BY DEF Refusal
<1>2. request.kind \in SessionKinds => request.session # NoSession
  <2>1. request.kind \in SessionKinds => request.session \in Ids
    BY RequestShape DEF Opens
  <2> QED BY <2>1 DEF Ids, NoSession
<1>3. CASE OfKind(request)
  <2>1. request.kind \in Kinds
    BY <1>3 DEF OfKind
  <2>2. request.kind # "Raw"
    BY <2>1, RequestTables
  <2> QED BY <1>1, <1>2, <2>1, <2>2 DEF Wanted, KindAsked, command_id
<1>4. CASE request.kind = "Raw" /\ request.command \in RawCommands
  <2>1. command_id(request) = request.command /\ KindAsked(request) = "GetState"
    BY <1>4 DEF command_id, KindAsked
  <2>2. Kind(request.command) = "Request"
    BY <1>1, <2>1 DEF expected_confirmation
  <2>3. request.command = Id[REQ(StemOf["GetState"])] /\ "GetState" \in Kinds
    BY <1>4, <2>2, AnswerTables
  <2> QED BY <1>1, <1>2, <2>1, <2>3 DEF Wanted
<1> QED BY <1>3, <1>4, RequestsPosed

\* So is what an operation asks.
LEMMA OperationWanted ==
    ASSUME NEW request, request.kind \in StreamKinds, Refusal(request) = "none"
    PROVE  Wanted(request)
<1>1. expected_confirmation(command_id(request)) # NoCommand
  BY DEF Refusal
<1>2. request.kind \in Kinds /\ request.kind # "Raw" /\ request.kind \notin SessionKinds
  BY RequestTables, StreamTables
<1> QED BY <1>1, <1>2 DEF Wanted, KindAsked, command_id

\* The confirmation of a request, by its name and its session, is the one the actor waits
\* for, and it is read as something.
LEMMA AnswerTyped ==
    ASSUME NEW f, Made(f), pending # NoRequest, Wanted(pending), AnswersPending(f)
    PROVE  /\ Confirms(f) /\ Decode(f) \notin {Error, Panic, "Unknown"}
           /\ confirmation_session_matches(pending, Decode(f), f)
<1>1. PICK kind \in Kinds : kind = KindAsked(pending)
  BY DEF Wanted
<1>2. command_id(pending) = Id[REQ(StemOf[kind])]
  BY <1>1 DEF Wanted
<1>3. StemAsked(pending) = StemOf[kind]
  BY <1>1, <1>2, AnswerTables DEF StemAsked
<1>4. f.command \in KnownIds /\ known[f.command] = CFM(StemOf[kind])
  BY <1>3 DEF AnswersPending
<1>5. f.command = ConfirmationOf(kind)
  BY <1>4, AnswerTables DEF ConfirmationOf
<1>6. Confirms(f)
  <2>1. expected_confirmation(command_id(pending)) = Id[CFM(known[command_id(pending)][1])]
    BY DEF Wanted, expected_confirmation
  <2>2. known[command_id(pending)][1] = StemOf[kind]
    BY <1>2, AnswerTables
  <2> QED BY <1>5, <2>1, <2>2 DEF Confirms, ConfirmationOf
<1>7. Legible(f) /\ f.count = 0 /\ f.sort = 0 /\ f.text = Readable
  BY MadeLegible
<1>8. PICK layout : layout = LayoutOf(f)
  OBVIOUS
<1>9. layout = Tables[0][ConfirmationOf(kind)]
  BY <1>4, <1>5, <1>7, <1>8 DEF LayoutOf
<1>10. /\ layout.need <= layout.base /\ layout.variant # "Unknown"
       /\ "session_id" \in DOMAIN layout.fields => kind \in SessionKinds \cup {"GetLine"}
  BY <1>9, AnswerTables
<1>11. LayoutSound(layout)
  BY <1>7, <1>8, LayoutsSound DEF Legible
<1>12. f.length = layout.base /\ f.session = SessionAnswered(pending)
  BY <1>8 DEF AnswersPending
<1>13. /\ kind \in SessionKinds => pending.kind = kind /\ f.session = pending.session
       /\ kind = "GetLine" => f.session = 1
  <2>1. "GetState" \notin SessionKinds /\ "GetLine" \notin SessionKinds
    BY DEF SessionKinds, CommandExtensionRequest
  <2>2. kind \in SessionKinds \/ kind = "GetLine" => pending.kind = kind
    BY <1>1, <2>1 DEF KindAsked
  <2> QED BY <1>12, <2>1, <2>2 DEF SessionAnswered, session_id
<1>14. "session_id" \in DOMAIN layout.fields => f.session # NoSession
  BY <1>10, <1>13 DEF Wanted, NoSession
<1>15. Decode(f) # Error
  <2>1. {layout.need, layout.base, layout.limit} \subseteq Nat
    BY <1>11 DEF LayoutSound
  <2>2. Entries(layout, f) = 0 /\ ~(f.count > layout.limit) /\ ~(f.length < layout.need)
    BY <1>7, <1>10, <1>12, <2>1 DEF Entries
  <2>3. layout.width \in Nat
    BY <1>11 DEF LayoutSound
  <2>4. LengthRequired(layout, f)
    BY <1>10, <1>12, <2>1, <2>2, <2>3 DEF LengthRequired
  <2>5. f.text
    BY <1>7 DEF Readable
  <2>6. layout.variant # Error
    BY <1>11 DEF LayoutSound
  <2>7. DecodeAs(layout, f) # Error
    BY <1>14, <2>2, <2>4, <2>5, <2>6 DEF DecodeAs, Error, Panic
  <2> QED BY <1>8, <2>7 DEF Decode
<1>16. Decode(f) # Panic
  BY <1>7, EveryFrameRead
<1>17. Decode(f) = layout.variant
  BY <1>8, <1>15, <1>16 DEF Decode, DecodeAs
<1>18. ASSUME session_id(pending) # NoSession
       PROVE  response_session_id(Decode(f), f) = session_id(pending)
  <2>1. pending.kind \in SessionKinds /\ session_id(pending) = pending.session
    BY <1>18 DEF session_id
  <2>2. kind = pending.kind
    <3>1. pending.kind # "Raw"
      BY <2>1, SessionTables
    <3> QED BY <1>1, <3>1 DEF KindAsked
  <2>3. layout.variant = SessionResult(kind)
    BY <1>9, <2>1, <2>2, SessionTables DEF FixedLayout
  <2>4. SessionResult(kind) \in SessionResults
    BY DEF SessionResult, SessionResults
  <2> QED BY <1>13, <1>17, <2>1, <2>2, <2>3, <2>4 DEF response_session_id
<1> QED BY <1>6, <1>10, <1>15, <1>16, <1>17, <1>18 DEF confirmation_session_matches

\* Every step keeps AnswerInv.
LEMMA AnswerNext ==
    TypeOK /\ SessionInv /\ RequestInv /\ QueueInv /\ AnswerInv /\ [DiscoveryNext]_discoveryVars
    => AnswerInv'
<1> SUFFICES ASSUME TypeOK, SessionInv, RequestInv, QueueInv, AnswerInv, [DiscoveryNext]_discoveryVars
             PROVE  AnswerInv'
  OBVIOUS
<1>0. AllMade(stream) /\ (AllMade(incoming) \/ Alone)
  BY DEF AnswerInv
<1>q. \E T : incoming \in Seq(T)
  BY DEF QueueInv, Queue
<1>a. ASSUME pending' \in {pending, NoRequest} \/ Wanted(pending'), AllMade(stream'),
             AllMade(incoming') \/ Alone'
      PROVE  AnswerInv'
  <2>1. pending' # NoRequest => Wanted(pending)'
    BY <1>a DEF AnswerInv, Wanted, KindAsked, command_id
  <2>2. AllMade(stream)' /\ (AllMade(incoming)' \/ Alone')
    BY <1>a DEF AllMade, Made
  <2> QED BY <2>1, <2>2 DEF AnswerInv
<1>b. ASSUME UNCHANGED <<active, pending, asked, orphan, op, stream, incoming>> PROVE AnswerInv'
  <2>1. Alone => Alone'
    BY <1>b DEF Alone
  <2> QED BY <1>0, <1>a, <1>b, <2>1
<1>c. ASSUME AllMade(incoming), UNCHANGED incoming, UNCHANGED stream,
             pending' \in {pending, NoRequest} \/ Wanted(pending')
      PROVE  AnswerInv'
  BY <1>0, <1>a, <1>c
<1>d. ASSUME NEW f, Made(f), AllMade(incoming), incoming' = Append(incoming, f), UNCHANGED pending,
             AllMade(stream')
      PROVE  AnswerInv'
  BY <1>a, <1>d, MadeAppend
<1>e. ASSUME NEW request, Dispatch(request), Refusal(request) = "none" => Wanted(request)
      PROVE  pending' \in {pending, NoRequest} \/ Wanted(pending')
  BY <1>e DEF Dispatch
<1>1. CASE UNCHANGED discoveryVars
  BY <1>1, <1>b DEF discoveryVars, allocator, exchange, client, streams
<1>2. CASE ExchangeStep
  <2>1. UNCHANGED <<op, orphan, stream>>
    BY <1>2 DEF ExchangeStep, client, streams
  <2>2. CASE Send
    <3>1. PICK request \in Requests : Dispatch(request)
      BY <2>2 DEF Send
    <3>2. Refusal(request) = "none" => Wanted(request)
      BY RequestWanted
    <3>3. AllMade(incoming)
      <4>1. CASE Quiet /\ Fresh
        BY <4>1, MadeEmpty DEF Quiet
      <4>2. CASE ~(Quiet /\ Fresh)
        <5>1. active # {}
          BY <3>1, <4>2 DEF Requests
        <5> QED BY <1>0, <5>1 DEF Alone
      <4> QED BY <4>1, <4>2
    <3>4. incoming' = incoming
      BY <3>1 DEF Dispatch
    <3> QED BY <1>c, <1>e, <2>1, <3>1, <3>2, <3>3, <3>4
  <2>3. CASE AllocatorStep
    <3>1. incoming = <<>> /\ UNCHANGED <<incoming, pending>>
      BY <2>3 DEF AllocatorStep
    <3> QED BY <1>c, <2>1, <3>1, MadeEmpty
  <2>4. CASE Noise
    <3>1. op = NoOp /\ orphan = NoRequest /\ stream = <<>>
      BY <1>2, <2>4 DEF ExchangeStep, Noise, GatewayAccepts, GatewayAnswers, GatewayFinishes,
                        expire_sessions, Quiet
    <3>2. /\ active = {} /\ pending = NoRequest /\ asked = NoRequest
          /\ UNCHANGED <<active, pending, asked>>
      BY <2>4, Zenon DEF Noise, Quiet, allocator, gateway
    <3>3. Alone'
      BY <2>1, <3>1, <3>2 DEF Alone
    <3> QED BY <1>0, <1>a, <2>1, <3>2, <3>3
  <2>5. CASE Carry
    BY <1>b, <2>1, <2>5, Zenon DEF Carry, allocator, gateway
  <2>6. CASE GatewayAccepts
    <3>1. PICK extra \in {0, 1} : incoming' =
             Append(incoming, [Confirmation(asked, AcceptStatus(asked.kind)) EXCEPT !.length = @ + extra])
      BY <2>6 DEF GatewayAccepts
    <3>2. PICK f : f = [Confirmation(asked, AcceptStatus(asked.kind)) EXCEPT !.length = @ + extra]
      OBVIOUS
    <3>3. Made(f)
      BY <3>2, ConfirmationsMade
    <3>4. asked # NoRequest /\ UNCHANGED pending
      BY <2>6 DEF GatewayAccepts
    <3>5. AllMade(incoming)
      BY <1>0, <3>4 DEF Alone
    <3> QED BY <1>0, <1>d, <2>1, <3>1, <3>2, <3>3, <3>4, <3>5
  <2>7. CASE GatewayAnswers
    <3>1. PICK status : status = IF asked.kind \in SessionKinds THEN 1 - AcceptStatus(asked.kind) ELSE 0
      OBVIOUS
    <3>2. PICK extra \in {0, 1} : incoming' =
             Append(incoming, [Confirmation(asked, status) EXCEPT !.length = @ + extra])
      BY <2>7, <3>1 DEF GatewayAnswers
    <3>3. PICK f : f = [Confirmation(asked, status) EXCEPT !.length = @ + extra]
      OBVIOUS
    <3>4. Made(f)
      BY <3>3, ConfirmationsMade
    <3>5. asked # NoRequest /\ UNCHANGED pending
      BY <2>7 DEF GatewayAnswers
    <3>6. AllMade(incoming)
      BY <1>0, <3>5 DEF Alone
    <3> QED BY <1>0, <1>d, <2>1, <3>2, <3>3, <3>4, <3>5, <3>6
  <2>8. CASE GatewayFinishes
    <3>1. PICK s \in Ids, kind \in {"Wink", "CommandSend"} : incoming' = Append(incoming, Finished(kind, s))
      BY <2>8 DEF GatewayFinishes
    <3>2. PICK c, f : f = Finished(kind, s) /\ f = WellFormed(Frame(c, 0, s, 0))
      BY DEF Finished
    <3>3. PICK l \in Nat : f = Content(c, l, s, 0, 0)
      BY <3>2, Measured
    <3>4. Made(f)
      BY <3>3, Zenon DEF Made
    <3>5. UNCHANGED <<active, pending, asked>>
      BY <2>8 DEF GatewayFinishes, allocator
    <3>6. CASE AllMade(incoming)
      BY <1>0, <1>d, <2>1, <3>1, <3>2, <3>4, <3>5, <3>6
    <3>7. CASE Alone
      <4>1. Alone'
        BY <2>1, <3>5, <3>7 DEF Alone
      <4> QED BY <1>0, <1>a, <2>1, <3>5, <4>1
    <3> QED BY <1>0, <3>6, <3>7
  <2>9. CASE expire_sessions
    BY <1>b, <2>1, <2>9 DEF expire_sessions, allocator, gateway
  <2> QED BY <1>2, <2>2, <2>3, <2>4, <2>5, <2>6, <2>7, <2>8, <2>9 DEF ExchangeStep
<1>3. CASE GatewayStreams
  <2>1. asked # NoRequest /\ UNCHANGED pending
    BY <1>3 DEF GatewayStreams
  <2>2. AllMade(incoming)
    BY <1>0, <2>1 DEF Alone
  <2>3. ASSUME NEW subjects \in Subjects(asked), NEW confirmed,
               stream' = Notifications(asked.kind, subjects),
               incoming' = Append(incoming, [Confirmation(asked, 0) EXCEPT !.subject = confirmed])
        PROVE  AnswerInv'
    <3>1. PICK T : subjects \in Seq(T)
      BY SubjectsSequence
    <3>2. AllMade(stream')
      BY <2>3, <3>1, StreamMade DEF AllMade
    <3>3. PICK f : f = [Confirmation(asked, 0) EXCEPT !.subject = confirmed]
      OBVIOUS
    <3>4. Made(f)
      <4>1. 0 \in {0, 1}
        OBVIOUS
      <4> QED BY <3>3, <4>1, ConfirmationsMade
    <3> QED BY <1>d, <2>1, <2>2, <2>3, <3>2, <3>3, <3>4
  <2>4. ASSUME NEW status, incoming' = Append(incoming, Confirmation(asked, status)), UNCHANGED stream
        PROVE  AnswerInv'
    <3>1. PICK f : f = Confirmation(asked, status)
      OBVIOUS
    <3>2. Made(f)
      <4>1. 0 \in {0, 1}
        OBVIOUS
      <4> QED BY <3>1, <4>1, ConfirmationsMade
    <3> QED BY <1>0, <1>d, <2>1, <2>2, <2>4, <3>1, <3>2
  <2> QED BY <1>3, <2>3, <2>4 DEF GatewayStreams
<1>4. CASE GatewayNotifies
  <2>1. /\ stream # <<>> /\ incoming' = Append(incoming, Head(stream)) /\ UNCHANGED pending
        /\ stream' = SubSeq(stream, 2, Len(stream))
    BY <1>4 DEF GatewayNotifies
  <2>2. Made(Head(stream)) /\ AllMade(stream')
    BY <1>0, <2>1, MadeRest
  <2>3. AllMade(incoming)
    BY <1>0, <2>1 DEF Alone
  <2> QED BY <1>d, <2>1, <2>2, <2>3
<1>5. CASE GatewayChatters
  <2>1. PICK f \in Chatter : incoming' = Append(incoming, f)
    BY <1>5 DEF GatewayChatters
  <2>2. Made(f) /\ UNCHANGED <<stream, pending>> /\ op # NoOp
    BY <1>5, ChatterMade DEF GatewayChatters, streams
  <2>3. AllMade(incoming)
    BY <1>0, <2>2 DEF Alone
  <2> QED BY <1>0, <1>d, <2>1, <2>2, <2>3
<1>6. CASE Begin
  <2>1. UNCHANGED <<pending, incoming, stream>> /\ (Clean \/ incoming = <<>>)
    BY <1>6 DEF Begin, streams
  <2>2. Clean => AllMade(incoming)
    BY <1>q, ChatterQueue DEF Clean
  <2>3. AllMade(incoming)
    BY <2>1, <2>2, MadeEmpty
  <2> QED BY <1>c, <2>1, <2>3
<1>7. CASE Ask
  <2>1. op # NoOp /\ Dispatch(RequestOf(op.kind, op.object)) /\ UNCHANGED stream
    BY <1>7 DEF Ask, streams
  <2>2. PICK request : request = RequestOf(op.kind, op.object)
    OBVIOUS
  <2>3. request.kind \in StreamKinds
    BY <2>1, <2>2, OperationApart, OperationStreams
  <2>4. AllMade(incoming) /\ UNCHANGED incoming
    BY <1>0, <2>1 DEF Alone, Dispatch
  <2> QED BY <1>c, <1>e, <2>1, <2>2, <2>3, <2>4, OperationWanted
<1>8. CASE AskOrphaned
  <2>1. orphan # NoRequest /\ Dispatch(orphan) /\ UNCHANGED stream
    BY <1>8 DEF AskOrphaned, streams
  <2>2. orphan.kind \in StreamKinds
    BY <2>1 DEF RequestInv
  <2>3. AllMade(incoming) /\ UNCHANGED incoming
    BY <1>0, <2>1 DEF Alone, Dispatch
  <2> QED BY <1>c, <1>e, <2>1, <2>2, <2>3, OperationWanted
<1>9. CASE Receive
  <2>1. /\ incoming # <<>> /\ incoming' = SubSeq(incoming, 2, Len(incoming))
        /\ UNCHANGED <<stream, orphan, active, asked>> /\ handle_frame
    BY <1>9 DEF Receive, handle_frame, streams, allocator, gateway
  <2>2. PICK f, response : IF Confirms(f) THEN Confirm(f, response) ELSE Publish(f, response)
    BY <2>1 DEF handle_frame
  <2>3. pending' \in {pending, NoRequest}
    BY <2>2 DEF Confirm, Publish
  <2>4. CASE AllMade(incoming)
    BY <1>0, <1>a, <2>1, <2>3, <2>4, MadeRest
  <2>5. CASE Alone
    <3>1. op' = op
      BY <1>9, <2>5 DEF Receive, Alone, client
    <3>2. Alone'
      BY <2>1, <2>3, <2>5, <3>1 DEF Alone
    <3> QED BY <1>0, <1>a, <2>1, <2>3, <3>2
  <2> QED BY <1>0, <2>4, <2>5
<1>10. CASE Expire
  <2>1. pending # NoRequest /\ pending' = NoRequest /\ UNCHANGED <<incoming, stream>>
    BY <1>10 DEF Expire, expire_request, streams
  <2>2. AllMade(incoming)
    BY <1>0, <2>1 DEF Alone
  <2> QED BY <1>c, <2>1, <2>2
<1>11. CASE AskExpires \/ ReadAnswer \/ Collect \/ GiveUp \/ Drop
  <2>1. op # NoOp /\ pending' \in {pending, NoRequest} /\ UNCHANGED <<incoming, stream>>
    BY <1>11 DEF AskExpires, ReadAnswer, Collect, GiveUp, Drop, streams
  <2>2. AllMade(incoming)
    BY <1>0, <2>1 DEF Alone
  <2> QED BY <1>c, <2>1, <2>2
<1>12. CASE Disconnect
  BY <1>12, <1>a, MadeEmpty DEF Disconnect
<1> QED BY <1>1, <1>2, <1>3, <1>4, <1>5, <1>6, <1>7, <1>8, <1>9, <1>10, <1>11, <1>12 DEF DiscoveryNext

\* The frame that answers the pending request ends it when it is handled.
LEMMA AnswerEnds ==
    ASSUME AnswerInv, QueueInv, [DiscoveryNext]_discoveryVars, incoming # <<>>,
           Len(incoming') < Len(incoming), AnswersPending(Head(incoming))
    PROVE  /\ pending' = NoRequest
           /\ Decode(Head(incoming)) \notin {Error, Panic, "Unknown"}
<1>1. pending # NoRequest /\ Wanted(pending)
  BY DEF AnswersPending, AnswerInv
<1>2. PICK f : f = Head(incoming)
  OBVIOUS
<1>3. Made(f)
  <2>1. AllMade(incoming)
    BY <1>1 DEF AnswerInv, Alone
  <2> QED BY <1>2, <2>1, MadeRest
<1>4. /\ Confirms(f) /\ Decode(f) \notin {Error, Panic, "Unknown"}
      /\ confirmation_session_matches(pending, Decode(f), f)
  BY <1>1, <1>2, <1>3, AnswerTyped
<1>5. PICK T : incoming \in Seq(T)
  BY DEF QueueInv, Queue
<1>6. incoming' # incoming /\ \A g : incoming' # Append(incoming, g)
  <2>1. \A g : Append(incoming, g) \in Seq(T \cup {g}) /\ Len(Append(incoming, g)) = Len(incoming) + 1
    BY <1>5
  <2> QED BY <1>5, <2>1
<1>7. CASE Receive
  <2>1. Confirm(f, Decode(f))
    BY <1>2, <1>4, <1>7 DEF Receive, handle_frame
  <2> QED BY <1>2, <1>4, <2>1 DEF Confirm
<1>8. CASE Disconnect
  BY <1>2, <1>4, <1>8 DEF Disconnect
<1>9. ~ExchangeStep
  <2>1. ~Send
    BY <1>6 DEF Send, Dispatch
  <2>2. ~AllocatorStep
    BY <1>6 DEF AllocatorStep
  <2>3. ~Noise
    BY <1>1 DEF Noise, Quiet
  <2>4. ~Carry
    BY <1>1 DEF Carry, Quiet
  <2>5. ~GatewayAccepts
    BY <1>6 DEF GatewayAccepts
  <2>6. ~GatewayAnswers
    BY <1>6 DEF GatewayAnswers
  <2>7. ~GatewayFinishes
    BY <1>6 DEF GatewayFinishes
  <2>8. ~expire_sessions
    BY <1>6 DEF expire_sessions
  <2> QED BY <2>1, <2>2, <2>3, <2>4, <2>5, <2>6, <2>7, <2>8 DEF ExchangeStep
<1>10. ~(GatewayStreams \/ GatewayNotifies \/ GatewayChatters)
  BY <1>6 DEF GatewayStreams, GatewayNotifies, GatewayChatters
<1>11. ~(Begin \/ Ask \/ AskOrphaned)
  BY <1>6 DEF Begin, Ask, AskOrphaned, Dispatch
<1>12. ~(Expire \/ AskExpires \/ ReadAnswer \/ Collect \/ GiveUp \/ Drop)
  BY <1>6 DEF Expire, expire_request, AskExpires, ReadAnswer, Collect, GiveUp, Drop
<1>13. ~UNCHANGED discoveryVars
  BY <1>6 DEF discoveryVars, exchange
<1> QED BY <1>7, <1>8, <1>9, <1>10, <1>11, <1>12, <1>13 DEF DiscoveryNext

\* The confirmation of the pending request ends it, with a typed response.
THEOREM AnswersTyped == DiscoverySpec => TypedAnswer
<1>1. DiscoveryInit => AnswerInv
  BY MadeEmpty DEF DiscoveryInit, ExchangeInit, AnswerInv
<1>2. DiscoveryInit => RequestInv
  BY DEF DiscoveryInit, ExchangeInit, RequestInv, RequestReadable
<1>3. AnswerInv /\ QueueInv /\ [DiscoveryNext]_discoveryVars
      => [incoming # <<>> /\ Len(incoming') < Len(incoming) /\ AnswersPending(Head(incoming))
          => /\ pending' = NoRequest
             /\ Decode(Head(incoming)) \notin {Error, Panic, "Unknown"}]_exchange
  BY AnswerEnds
<1> QED BY <1>1, <1>2, <1>3, AllocatorInside, SessionInvariant, QueueInit, QueueNext, RequestNext,
           AnswerNext, PTL DEF DiscoverySpec, TypedAnswer
=============================================================================
