---------------------------- MODULE SequenceLemmas ----------------------------
(***************************************************************************)
(* Facts about the operators of the community modules with which the       *)
(* models build sequences from sets: FlattenSeq, SetToSeq, Max and Min.    *)
(***************************************************************************)
EXTENDS Integers, Sequences, SequencesExt, SequenceTheorems, FiniteSetTheorems,
        WellFoundedInduction, TLAPS

\* A set of numbers that is not empty has a smallest element.
LEMMA Smallest ==
    ASSUME NEW S \in SUBSET Nat, S # {}
    PROVE  \E x \in S : \A y \in S : x <= y
<1> DEFINE R == OpToRel(<, Nat)
<1>1. IsWellFoundedOn(R, Nat)
    BY NatLessThanWellFounded
<1> HIDE DEF R
<1>2. PICK x \in S : \A y \in S : ~ (<<y, x>> \in R)
    BY <1>1, WFMin
<1>3. \A y \in S : ~ (y < x)
    BY <1>2 DEF R, OpToRel
<1> QED
    BY <1>3

\* What holds of zero, and of the successor of every number it holds of, holds of
\* every number.
LEMMA Induction ==
    ASSUME NEW S, 0 \in S, \A n \in Nat : n \in S => n + 1 \in S
    PROVE  Nat \subseteq S
<1> SUFFICES ASSUME Nat \ S # {}
             PROVE  FALSE
    OBVIOUS
<1>1. PICK x \in Nat \ S : \A y \in Nat \ S : x <= y
    BY Smallest
<1>2. x # 0 /\ x - 1 \in Nat /\ x - 1 \in S
    BY <1>1
<1> QED
    BY <1>2

\* The smallest element of a set of numbers.
LEMMA MinSmallest ==
    ASSUME NEW S \in SUBSET Nat, S # {}
    PROVE  Min(S) \in S /\ \A y \in S : Min(S) <= y
BY Smallest DEF Min

\* The largest element of a set of numbers with a bound.
LEMMA MaxLargest ==
    ASSUME NEW b \in Nat, NEW S \in SUBSET (1..b), S # {}
    PROVE  Max(S) \in S /\ \A y \in S : Max(S) >= y
<1> DEFINE Bounds == {k \in Nat : \A y \in S : k >= y}
<1>1. b \in Bounds /\ Bounds \in SUBSET Nat
    OBVIOUS
<1>2. PICK k \in Bounds : \A j \in Bounds : k <= j
    BY <1>1, Smallest
<1>3. k \in S
    <2> SUFFICES ASSUME k \notin S
                 PROVE  FALSE
        OBVIOUS
    <2>1. \A y \in S : y < k /\ y \in Nat
        BY <1>2
    <2>2. PICK z \in S : TRUE
        OBVIOUS
    <2>3. k \in Nat /\ z \in Nat /\ z < k /\ k - 1 \in Nat
        BY <2>1, <2>2
    <2>4. \A y \in S : k - 1 >= y
        BY <2>1, <2>3
    <2>5. k - 1 \in Bounds
        BY <2>3, <2>4
    <2> QED
        BY <2>3, <2>5, <1>2
<1> QED
    BY <1>2, <1>3 DEF Max

\* The elements of a finite set, in some order.
LEMMA SetToSeqElements ==
    ASSUME NEW S, IsFiniteSet(S)
    PROVE  /\ Cardinality(S) \in Nat
           /\ SetToSeq(S) \in [1..Cardinality(S) -> S]
           /\ SetToSeq(S) \in Seq(S)
           /\ \A x \in S : \E i \in 1..Cardinality(S) : SetToSeq(S)[i] = x
<1> DEFINE n == Cardinality(S)
           f == SetToSeq(S)
<1>1. n \in Nat /\ ExistsBijection(1..n, S)
    BY FS_CardinalityType
<1>2. \E g \in [1..n -> S] : IsInjective(g)
    BY <1>1 DEF ExistsBijection, Bijection, Injection, IsInjective
<1>3. f \in [1..n -> S] /\ IsInjective(f)
    BY <1>2 DEF SetToSeq
<1> HIDE DEF f
<1>4. f \in Injection(1..n, S)
    BY <1>3 DEF Injection, IsInjective
<1>5. IsFiniteSet(1..n) /\ Cardinality(1..n) = n
    BY <1>1, FS_Interval
<1>6. f \in Surjection(1..n, S)
    BY <1>4, <1>5, FS_Injection
<1>7. \A x \in S : \E i \in 1..n : f[i] = x
    BY <1>6 DEF Surjection
<1> QED
    BY <1>1, <1>3, <1>7, SeqDef DEF f

-----------------------------------------------------------------------------
(***************************************************************************)
(* FlattenSeq.  Its recursive function exists for every length.            *)
(***************************************************************************)
Chained(s, f, n) == f = [i \in 1..n |-> IF i = 1 THEN s[i] ELSE f[i - 1] \o s[i]]

\* For every length there is a function that satisfies the recursion.
LEMMA ChainExists ==
    ASSUME NEW s, NEW N \in Nat
    PROVE  \E f : Chained(s, f, N)
<1> DEFINE S == {n \in Nat : \E f : Chained(s, f, n)}
<1>1. 0 \in S
    <2>1. Chained(s, [i \in 1..0 |-> s[i]], 0)
        BY DEF Chained
    <2> QED
        BY <2>1
<1>2. ASSUME NEW n \in Nat, n \in S
      PROVE  n + 1 \in S
    <2>1. PICK f : Chained(s, f, n)
        BY <1>2
    <2> DEFINE g == [i \in 1..(n + 1) |->
                        IF i = n + 1 THEN (IF i = 1 THEN s[i] ELSE f[n] \o s[i]) ELSE f[i]]
    <2>2. \A i \in 1..n : g[i] = f[i]
        OBVIOUS
    <2>3. ASSUME NEW i \in 1..(n + 1)
          PROVE  g[i] = IF i = 1 THEN s[i] ELSE g[i - 1] \o s[i]
        <3>1. CASE i = n + 1
            BY <3>1, <2>2
        <3>2. CASE i # n + 1
            <4>1. i \in 1..n /\ (i # 1 => i - 1 \in 1..n)
                BY <3>2
            <4>2. f[i] = IF i = 1 THEN s[i] ELSE f[i - 1] \o s[i]
                BY <4>1, <2>1 DEF Chained
            <4> QED
                BY <4>1, <4>2, <2>2
        <3> QED
            BY <3>1, <3>2
    <2>4. Chained(s, g, n + 1)
        BY <2>3 DEF Chained
    <2> HIDE DEF g
    <2> QED
        BY <2>4
<1> HIDE DEF S
<1>3. N \in S
    BY <1>1, <1>2, Induction
<1> QED
    BY <1>3 DEF S

\* FlattenSeq is the last value of such a function.
LEMMA FlattenIsChained ==
    ASSUME NEW T, NEW s \in Seq(T), Len(s) # 0
    PROVE  \E f : Chained(s, f, Len(s)) /\ FlattenSeq(s) = f[Len(s)]
<1> DEFINE g == CHOOSE f : Chained(s, f, Len(s))
<1>1. Len(s) \in Nat
    OBVIOUS
<1>2. \E f : Chained(s, f, Len(s))
    BY <1>1, ChainExists
<1>3. Chained(s, g, Len(s))
    BY <1>2
<1>4. FlattenSeq(s) = g[Len(s)]
    BY DEF FlattenSeq, Chained
<1> QED
    BY <1>3, <1>4

\* The elements of two sequences, one after the other.
LEMMA ConcatRange ==
    ASSUME NEW T, NEW p \in Seq(T), NEW q \in Seq(T)
    PROVE  p \o q \in Seq(T) /\ Range(p \o q) = Range(p) \cup Range(q)
<1>1. /\ p \o q \in Seq(T) /\ Len(p \o q) = Len(p) + Len(q)
      /\ DOMAIN p = 1..Len(p) /\ DOMAIN q = 1..Len(q) /\ DOMAIN (p \o q) = 1..Len(p \o q)
      /\ Len(p) \in Nat /\ Len(q) \in Nat
    OBVIOUS
<1>2. \A i \in 1..Len(p) : (p \o q)[i] = p[i]
    OBVIOUS
<1>3. \A i \in 1..Len(q) : Len(p) + i \in 1..Len(p \o q) /\ (p \o q)[Len(p) + i] = q[i]
    BY <1>1
<1>4. \A i \in 1..Len(p \o q) : (p \o q)[i] \in Range(p) \cup Range(q)
    <2> SUFFICES ASSUME NEW i \in 1..Len(p \o q)
                 PROVE  (p \o q)[i] \in Range(p) \cup Range(q)
        OBVIOUS
    <2>1. CASE i <= Len(p)
        BY <1>1, <1>2, <2>1 DEF Range
    <2>2. CASE i > Len(p)
        <3>1. i - Len(p) \in 1..Len(q) /\ (p \o q)[i] = q[i - Len(p)]
            BY <1>1, <2>2
        <3> QED
            BY <3>1, <1>1 DEF Range
    <2> QED
        BY <1>1, <2>1, <2>2
<1>5. \A i \in 1..Len(p) : i \in 1..Len(p \o q)
    BY <1>1
<1>6. Range(p \o q) \subseteq Range(p) \cup Range(q)
    BY <1>1, <1>4 DEF Range
<1>7. Range(p) \subseteq Range(p \o q)
    BY <1>1, <1>2, <1>5 DEF Range
<1>8. Range(q) \subseteq Range(p \o q)
    BY <1>1, <1>3 DEF Range
<1> QED
    BY <1>1, <1>6, <1>7, <1>8

\* FlattenSeq gives a sequence of the elements of the parts.
LEMMA FlattenElements ==
    ASSUME NEW T, NEW s \in Seq(Seq(T))
    PROVE  /\ FlattenSeq(s) \in Seq(T)
           /\ Range(FlattenSeq(s)) = UNION {Range(s[i]) : i \in DOMAIN s}
<1>1. DOMAIN s = 1..Len(s) /\ Len(s) \in Nat /\ \A i \in 1..Len(s) : s[i] \in Seq(T)
    OBVIOUS
<1>2. CASE Len(s) = 0
    <2>1. s = <<>> /\ FlattenSeq(s) = <<>>
        BY <1>1, <1>2 DEF FlattenSeq
    <2>2. \A x : x \notin DOMAIN s
        BY <1>1, <1>2
    <2>3. UNION {Range(s[i]) : i \in DOMAIN s} = {}
        BY <2>2
    <2>4. Range(s) = {}
        BY <2>2 DEF Range
    <2> QED
        BY <2>1, <2>3, <2>4, EmptySeq
<1>3. CASE Len(s) # 0
    <2>1. PICK f : Chained(s, f, Len(s)) /\ FlattenSeq(s) = f[Len(s)]
        BY <1>3, FlattenIsChained
    <2>2. \A i \in 1..Len(s) : f[i] = IF i = 1 THEN s[i] ELSE f[i - 1] \o s[i]
        BY <2>1 DEF Chained
    <2> DEFINE Upto(n) == UNION {Range(s[i]) : i \in 1..n}
               S == {n \in Nat : n \in 1..Len(s) => f[n] \in Seq(T) /\ Range(f[n]) = Upto(n)}
    <2>3. 0 \in S
        OBVIOUS
    <2>4. ASSUME NEW n \in Nat, n \in S
          PROVE  n + 1 \in S
        <3> SUFFICES ASSUME n + 1 \in 1..Len(s)
                     PROVE  f[n + 1] \in Seq(T) /\ Range(f[n + 1]) = Upto(n + 1)
            OBVIOUS
        <3>1. s[n + 1] \in Seq(T)
            BY <1>1
        <3>2. 1..(n + 1) = (1..n) \cup {n + 1}
            OBVIOUS
        <3>3. Upto(n + 1) = Upto(n) \cup Range(s[n + 1])
            BY <3>2
        <3> HIDE DEF Upto
        <3>4. CASE n = 0
            <4>1. f[n + 1] = s[n + 1]
                <5>1. n + 1 = 1
                    BY <3>4
                <5> QED
                    BY <5>1, <2>2
            <4>2. Upto(0) = {}
                BY DEF Upto
            <4> QED
                BY <3>1, <3>3, <3>4, <4>1, <4>2
        <3>5. CASE n # 0
            <4>1. n \in 1..Len(s)
                BY <3>5, <1>1
            <4>2. f[n + 1] = f[n] \o s[n + 1]
                <5>1. n + 1 # 1 /\ (n + 1) - 1 = n
                    BY <3>5
                <5> QED
                    BY <5>1, <2>2
            <4>3. f[n] \in Seq(T) /\ Range(f[n]) = Upto(n)
                BY <2>4, <4>1
            <4>4. f[n] \o s[n + 1] \in Seq(T)
                  /\ Range(f[n] \o s[n + 1]) = Range(f[n]) \cup Range(s[n + 1])
                BY <3>1, <4>3, ConcatRange
            <4> QED
                BY <3>3, <4>2, <4>3, <4>4
        <3> QED
            BY <3>4, <3>5
    <2> HIDE DEF S
    <2>5. Len(s) \in S
        BY <2>3, <2>4, <1>1, Induction
    <2>6. f[Len(s)] \in Seq(T) /\ Range(f[Len(s)]) = Upto(Len(s))
        BY <2>5, <1>1, <1>3 DEF S
    <2> QED
        BY <2>1, <2>6, <1>1
<1> QED
    BY <1>2, <1>3

\* FlattenSeq begins with the first part.
LEMMA FlattenFirst ==
    ASSUME NEW T, NEW s \in Seq(Seq(T)), NEW t \in Seq(Seq(T)), Len(s) = Len(t) + 1,
           \A i \in 1..Len(t) : t[i] = s[i + 1]
    PROVE  FlattenSeq(s) = s[1] \o FlattenSeq(t)
<1>1. /\ Len(s) \in Nat /\ Len(t) \in Nat /\ 1 \in 1..Len(s) /\ s[1] \in Seq(T)
      /\ \A i \in 1..Len(t) : t[i] \in Seq(T)
    OBVIOUS
<1>2. PICK f : Chained(s, f, Len(s)) /\ FlattenSeq(s) = f[Len(s)]
    <2>1. Len(s) # 0
        BY <1>1
    <2> QED
        BY <2>1, FlattenIsChained
<1>3. \A i \in 1..Len(s) : f[i] = IF i = 1 THEN s[i] ELSE f[i - 1] \o s[i]
    BY <1>2 DEF Chained
<1>4. CASE Len(t) = 0
    <2>1. t = <<>> /\ FlattenSeq(t) = <<>>
        BY <1>4 DEF FlattenSeq
    <2>2. f[Len(s)] = s[1]
        BY <1>1, <1>3, <1>4
    <2>3. s[1] \o <<>> = s[1]
        BY <1>1, ConcatEmptySeq
    <2> QED
        BY <1>2, <2>1, <2>2, <2>3
<1>5. CASE Len(t) # 0
    <2>1. PICK g : Chained(t, g, Len(t)) /\ FlattenSeq(t) = g[Len(t)]
        BY <1>5, FlattenIsChained
    <2>2. \A i \in 1..Len(t) : g[i] = IF i = 1 THEN t[i] ELSE g[i - 1] \o t[i]
        BY <2>1 DEF Chained
    <2> DEFINE P(i) == i \in 1..Len(t) => g[i] \in Seq(T) /\ f[i + 1] = s[1] \o g[i]
               S == {i \in Nat : P(i)}
    <2>3. 0 \in S
        OBVIOUS
    <2>4. ASSUME NEW n \in Nat, n \in S
          PROVE  n + 1 \in S
        <3>0. P(n)
            BY <2>4
        <3>a. ASSUME n + 1 \in 1..Len(t)
              PROVE  g[n + 1] \in Seq(T) /\ f[(n + 1) + 1] = s[1] \o g[n + 1]
            <4>1. /\ (n + 1) + 1 \in 1..Len(s) /\ (n + 1) + 1 # 1 /\ ((n + 1) + 1) - 1 = n + 1
                  /\ t[n + 1] = s[(n + 1) + 1] /\ t[n + 1] \in Seq(T)
                BY <1>1, <3>a
            <4>2. f[(n + 1) + 1] = f[n + 1] \o t[n + 1]
                BY <1>3, <4>1
            <4>3. CASE n = 0
                <5>1. f[n + 1] = s[1] /\ g[n + 1] = t[n + 1]
                    BY <1>1, <1>3, <2>2, <3>a, <4>3
                <5> QED
                    BY <4>1, <4>2, <5>1
            <4>4. CASE n # 0
                <5>1. n \in 1..Len(t) /\ n + 1 # 1 /\ (n + 1) - 1 = n
                    <6> HIDE DEF S, P
                    <6> QED
                        BY <1>1, <3>a, <4>4
                <5>2. g[n] \in Seq(T) /\ f[n + 1] = s[1] \o g[n]
                    BY <3>0, <5>1
                <5>3. g[n + 1] = g[n] \o t[n + 1]
                    BY <2>2, <3>a, <5>1
                <5>4. PICK a \in Seq(T), b \in Seq(T), c \in Seq(T) :
                          a = s[1] /\ b = g[n] /\ c = t[n + 1]
                    BY <1>1, <4>1, <5>2
                <5>5. (a \o b) \o c = a \o (b \o c)
                    BY ConcatAssociative, SMTT(60)
                <5>6. b \o c \in Seq(T)
                    BY ConcatRange
                <5> HIDE DEF S, P
                <5> QED
                    BY <4>2, <5>2, <5>3, <5>4, <5>5, <5>6
            <4> QED
                BY <4>3, <4>4
        <3> QED
            <4>1. P(n + 1)
                BY <3>a
            <4> HIDE DEF P
            <4> QED
                BY <4>1
    <2> HIDE DEF S
    <2>5. Len(t) \in S
        BY <1>1, <2>3, <2>4, Induction
    <2>6. f[Len(t) + 1] = s[1] \o g[Len(t)]
        BY <1>1, <1>5, <2>5 DEF S
    <2> QED
        BY <1>2, <2>1, <2>6
<1> QED
    BY <1>4, <1>5

Flattened(S, P) == FlattenSeq([i \in 1..Cardinality(S) |-> P[SetToSeq(S)[i]]])

\* The sequences of a function on a finite set, one after the other.
LEMMA FlattenOverSet ==
    ASSUME NEW S, IsFiniteSet(S), NEW T, NEW P \in [S -> Seq(T)]
    PROVE  /\ Flattened(S, P) \in Seq(T)
           /\ Range(Flattened(S, P)) = UNION {Range(P[x]) : x \in S}
<1> DEFINE n == Cardinality(S)
           e == SetToSeq(S)
           s == [i \in 1..n |-> P[e[i]]]
<1>1. n \in Nat /\ e \in [1..n -> S] /\ \A x \in S : \E i \in 1..n : e[i] = x
    BY SetToSeqElements
<1> HIDE DEF n, e
<1>2. s \in [1..n -> Seq(T)]
    BY <1>1
<1>3. s \in Seq(Seq(T)) /\ DOMAIN s = 1..n
    BY <1>1, <1>2, SeqDef
<1>4. UNION {Range(s[i]) : i \in 1..n} = UNION {Range(P[x]) : x \in S}
    BY <1>1
<1> HIDE DEF s
<1>5. FlattenSeq(s) \in Seq(T) /\ Range(FlattenSeq(s)) = UNION {Range(s[i]) : i \in DOMAIN s}
    BY <1>3, FlattenElements
<1> QED
    BY <1>3, <1>4, <1>5 DEF s, n, e, Flattened

-----------------------------------------------------------------------------
(***************************************************************************)
(* Sequences that are taken apart.                                         *)
(***************************************************************************)
\* What is left of a sequence without its first elements.
LEMMA Suffix ==
    ASSUME NEW T, NEW s \in Seq(T), NEW k \in 0..Len(s)
    PROVE  /\ SubSeq(s, 1, k) \in Seq(T) /\ Len(SubSeq(s, 1, k)) = k
           /\ \A i \in 1..k : SubSeq(s, 1, k)[i] = s[i]
           /\ SubSeq(s, k + 1, Len(s)) \in Seq(T)
           /\ Len(SubSeq(s, k + 1, Len(s))) = Len(s) - k
           /\ \A i \in 1..(Len(s) - k) : SubSeq(s, k + 1, Len(s))[i] = s[k + i]
           /\ s = SubSeq(s, 1, k) \o SubSeq(s, k + 1, Len(s))
<1> DEFINE n == Len(s)
           r == SubSeq(s, k + 1, n)
           p == SubSeq(s, 1, k)
<1>1. n \in Nat /\ k \in Nat /\ k <= n /\ \A i \in 1..n : s[i] \in T
    OBVIOUS
<1> HIDE DEF n
<1>2. \A i \in 1..k : i \in 1..n
    BY <1>1
<1>3. \A i \in (k + 1)..n : i \in 1..n
    BY <1>1
<1>4. p \in Seq(T) /\ Len(p) = k /\ \A i \in 1..k : p[i] = s[i]
    BY <1>1, <1>2
<1>5. /\ r \in Seq(T) /\ Len(r) = (IF k + 1 <= n THEN n - (k + 1) + 1 ELSE 0)
      /\ \A i \in 1..(n - (k + 1) + 1) : r[i] = s[(k + 1) + i - 1]
    <2>1. k + 1 \in Int /\ n \in Int /\ \A i \in (k + 1)..n : s[i] \in T
        BY <1>1, <1>3
    <2> QED
        BY <2>1, SubSeqProperties
<1> HIDE DEF r, p
<1>6. n - (k + 1) + 1 = n - k /\ \A i \in 1..(n - k) : (k + 1) + i - 1 = k + i
    BY <1>1
<1>7. Len(r) = n - k /\ \A i \in 1..(n - k) : r[i] = s[k + i]
    <2>1. Len(r) = n - k
        BY <1>1, <1>5
    <2>2. \A i \in 1..(n - k) : r[i] = s[(k + 1) + i - 1]
        BY <1>5, <1>6
    <2> QED
        BY <1>6, <2>1, <2>2
<1>11. /\ p \o r \in Seq(T) /\ Len(p \o r) = Len(p) + Len(r)
      /\ \A i \in 1..(Len(p) + Len(r)) : (p \o r)[i] = IF i <= Len(p) THEN p[i] ELSE r[i - Len(p)]
    BY <1>4, <1>5, ConcatProperties
<1>8. p \o r \in Seq(T) /\ Len(p \o r) = n
    BY <1>1, <1>4, <1>7, <1>11
<1>9. ASSUME NEW i \in 1..n
      PROVE  (p \o r)[i] = s[i]
    <2>0. (p \o r)[i] = IF i <= k THEN p[i] ELSE r[i - k]
        <3>1. Len(p) + Len(r) = n
            BY <1>1, <1>4, <1>7
        <3> QED
            BY <1>4, <1>11, <3>1
    <2>1. CASE i <= k
        BY <1>1, <1>4, <2>0, <2>1
    <2>2. CASE i > k
        <3>1. i - k \in 1..(n - k) /\ k + (i - k) = i
            BY <1>1, <2>2
        <3>2. (p \o r)[i] = r[i - k]
            BY <1>1, <2>0, <2>2
        <3> QED
            BY <1>7, <3>1, <3>2
    <2>3. i <= k \/ i > k
        BY <1>1
    <2> QED
        BY <2>1, <2>2, <2>3
<1>10. p \o r = s
    BY <1>8, <1>9, SeqEqual DEF n
<1> QED
    BY <1>4, <1>5, <1>7, <1>10 DEF p, r, n

\* A suffix of two sequences, one after the other.
LEMMA SuffixOfConcat ==
    ASSUME NEW T, NEW a \in Seq(T), NEW b \in Seq(T), NEW k \in 0..(Len(a) + Len(b))
    PROVE  SubSeq(a \o b, k + 1, Len(a \o b)) =
               SubSeq(a, k + 1, Len(a)) \o
                   (IF k <= Len(a) THEN b ELSE SubSeq(b, k - Len(a) + 1, Len(b)))
<1> DEFINE m == Len(a)
           n == Len(b)
           w == a \o b
           rest == SubSeq(w, k + 1, Len(w))
<1>1. /\ m \in Nat /\ n \in Nat /\ w \in Seq(T) /\ Len(w) = m + n /\ k \in Nat
      /\ k <= m + n
      /\ (\A i \in 1..m : w[i] = a[i]) /\ (\A i \in 1..n : w[m + i] = b[i])
    OBVIOUS
<1> HIDE DEF w
<1>2. /\ rest \in Seq(T) /\ Len(rest) = m + n - k
      /\ \A i \in 1..(m + n - k) : rest[i] = w[k + i]
    BY <1>1, Suffix
<1>5. m = Len(a) /\ n = Len(b)
    OBVIOUS
<1> HIDE DEF rest, m, n
<1>3. CASE k <= m
    <2> DEFINE kept == SubSeq(a, k + 1, m)
    <2>1. /\ kept \in Seq(T) /\ Len(kept) = m - k
          /\ \A i \in 1..(m - k) : kept[i] = a[k + i]
        BY <1>1, <1>3, <1>5, Suffix
    <2> HIDE DEF kept
    <2>0. /\ kept \o b \in Seq(T) /\ Len(kept \o b) = Len(kept) + Len(b)
          /\ \A i \in 1..(Len(kept) + Len(b)) :
                 (kept \o b)[i] = IF i <= Len(kept) THEN kept[i] ELSE b[i - Len(kept)]
        BY <2>1, ConcatProperties
    <2>2. kept \o b \in Seq(T) /\ Len(kept \o b) = m + n - k
        BY <1>1, <1>3, <1>5, <2>1, <2>0
    <2>3. ASSUME NEW i \in 1..(m + n - k)
          PROVE  (kept \o b)[i] = rest[i]
        <3>0. (kept \o b)[i] = IF i <= m - k THEN kept[i] ELSE b[i - (m - k)]
            <4>1. Len(kept) + Len(b) = m + n - k
                BY <1>1, <1>5, <2>1
            <4> QED
                BY <2>1, <2>0, <4>1
        <3>1. CASE i <= m - k
            <4>1. i \in 1..(m - k) /\ k + i \in 1..m
                BY <1>1, <1>3, <3>1
            <4>2. (kept \o b)[i] = kept[i]
                BY <3>0, <3>1
            <4> QED
                BY <1>1, <1>2, <2>1, <4>1, <4>2
        <3>2. CASE i > m - k
            <4> DEFINE j == i - (m - k)
            <4>1. j \in 1..n /\ m + j = k + i
                BY <1>1, <1>3, <3>2
            <4>2. (kept \o b)[i] = b[j]
                BY <1>1, <1>3, <3>0, <3>2
            <4>3. w[m + j] = b[j]
                BY <1>1, <4>1
            <4> QED
                BY <1>2, <4>1, <4>2, <4>3
        <3>3. i <= m - k \/ i > m - k
            BY <1>1, <1>3
        <3> QED
            BY <3>1, <3>2, <3>3
    <2>4. kept \o b = rest
        BY <1>2, <2>2, <2>3, SeqEqual
    <2> QED
        BY <1>3, <1>5, <2>4 DEF kept, rest, w
<1>4. CASE k > m
    <2> DEFINE j == k - m
               kept == SubSeq(b, j + 1, n)
    <2>1. j \in 0..n /\ n - j = m + n - k /\ m + j = k
        BY <1>1, <1>4
    <2>2. kept \in Seq(T) /\ Len(kept) = n - j /\ \A i \in 1..(n - j) : kept[i] = b[j + i]
        <3> HIDE DEF j
        <3> QED
            BY <1>1, <1>5, <2>1, Suffix
    <2> HIDE DEF j
    <2> HIDE DEF kept
    <2>3. ASSUME NEW i \in 1..(n - j)
          PROVE  kept[i] = rest[i]
        <3>1. j + i \in 1..n /\ m + (j + i) = k + i
            BY <1>1, <2>1
        <3>2. w[m + (j + i)] = b[j + i]
            BY <1>1, <3>1
        <3> QED
            BY <1>2, <2>1, <2>2, <3>1, <3>2
    <2>4. kept = rest
        BY <1>2, <2>1, <2>2, <2>3, SeqEqual
    <2>5. SubSeq(a, k + 1, m) = <<>>
        BY <1>1, <1>4, SubSeqEmpty
    <2>6. <<>> \o kept = kept
        BY <2>2, ConcatEmptySeq
    <2>7. ~ (k <= m)
        BY <1>1, <1>4
    <2> QED
        BY <1>5, <2>4, <2>5, <2>6, <2>7 DEF kept, rest, w, j
<1>6. k <= m \/ k > m
    BY <1>1
<1> QED
    BY <1>3, <1>4, <1>6

\* The empty sequence has empty parts only.
LEMMA NothingInNothing ==
    ASSUME NEW T, NEW p \in Seq(T), NEW q \in Seq(T), <<>> = p \o q
    PROVE  p = <<>>
<1>1. Len(<<>>) = 0 /\ Len(p) \in Nat /\ Len(q) \in Nat
    OBVIOUS
<1>2. Len(p) = 0
    <2>1. Len(p \o q) = Len(p) + Len(q)
        OBVIOUS
    <2>2. Len(p \o q) = 0
        BY <1>1, Zenon
    <2> QED
        BY <1>1, <2>1, <2>2
<1> QED
    BY <1>2, EmptySeq

\* Of two ways to take a sequence apart, the second cuts within the first part.
CutsEarlier(T, a, b, p, q) == \E r \in Seq(T) : a = p \o r /\ q = r \o b

\* It does when its first part is not longer.
LEMMA ShorterCutsEarlier ==
    ASSUME NEW T, NEW a \in Seq(T), NEW b \in Seq(T), NEW p \in Seq(T), NEW q \in Seq(T),
           NEW w, w = a \o b, w = p \o q, Len(p) <= Len(a)
    PROVE  CutsEarlier(T, a, b, p, q)
<1> DEFINE k == Len(p)
           r == SubSeq(a, k + 1, Len(a))
           head == SubSeq(a, 1, k)
<1>1. /\ k \in 0..Len(a) /\ k \in 0..(Len(a) + Len(b)) /\ k \in 0..(Len(p) + Len(q)) /\ k \in Nat
      /\ Len(p) = k
    OBVIOUS
<1> HIDE DEF k
<1>2. /\ head \in Seq(T) /\ Len(head) = k /\ (\A i \in 1..k : head[i] = a[i])
      /\ r \in Seq(T) /\ a = head \o r
    <2>1. \A s \in Seq(T) : \A j \in 0..Len(s) :
              /\ SubSeq(s, 1, j) \in Seq(T) /\ Len(SubSeq(s, 1, j)) = j
              /\ \A i \in 1..j : SubSeq(s, 1, j)[i] = s[i]
              /\ SubSeq(s, j + 1, Len(s)) \in Seq(T)
              /\ s = SubSeq(s, 1, j) \o SubSeq(s, j + 1, Len(s))
        BY Suffix, ZenonT(60)
    <2> QED
        BY <1>1, <2>1, Zenon
<1>3. SubSeq(a \o b, k + 1, Len(a \o b)) = r \o b
    BY <1>1, SuffixOfConcat
<1>4. SubSeq(p \o q, k + 1, Len(p \o q)) = SubSeq(p, k + 1, Len(p)) \o q
    <2>1. SubSeq(p \o q, k + 1, Len(p \o q)) =
              SubSeq(p, k + 1, Len(p)) \o (IF k <= Len(p) THEN q ELSE SubSeq(q, k - Len(p) + 1, Len(q)))
        BY <1>1, SuffixOfConcat
    <2>2. k - Len(p) + 1 = 1 /\ k <= Len(p)
        BY <1>1
    <2> QED
        BY <2>1, <2>2
<1>5. SubSeq(p, k + 1, Len(p)) = <<>>
    BY <1>1, SubSeqEmpty
<1>6. <<>> \o q = q
    BY ConcatEmptySeq
<1>7. q = r \o b
    BY <1>3, <1>4, <1>5, <1>6
<1> HIDE DEF head, r
<1>8. head = p
    <2>1. \A x, y \in Seq(T) : \A i \in 1..Len(x) : (x \o y)[i] = x[i]
        OBVIOUS
    <2>2. \A i \in 1..k : w[i] = a[i]
        <3>1. \A i \in 1..k : i \in 1..Len(a)
            BY <1>1
        <3>2. \A i \in 1..Len(a) : (a \o b)[i] = a[i]
            BY <2>1
        <3> HIDE DEF k
        <3> QED
            BY <3>1, <3>2
    <2>3. \A i \in 1..k : w[i] = p[i]
        BY <1>1, <2>1
    <2>4. \A i \in 1..k : head[i] = p[i]
        BY <1>2, <2>2, <2>3
    <2> QED
        BY <1>1, <1>2, <2>4, SeqEqual
<1> QED
    BY <1>2, <1>7, <1>8 DEF CutsEarlier

\* One of two ways to take a sequence apart cuts within the first part of the other.
LEMMA TwoCuts ==
    ASSUME NEW T, NEW a \in Seq(T), NEW b \in Seq(T), NEW p \in Seq(T), NEW q \in Seq(T),
           NEW w, w = a \o b, w = p \o q
    PROVE  CutsEarlier(T, a, b, p, q) \/ CutsEarlier(T, p, q, a, b)
<1>1. CASE Len(p) <= Len(a)
    BY <1>1, ShorterCutsEarlier
<1>2. CASE Len(a) <= Len(p)
    BY <1>2, ShorterCutsEarlier
<1>3. Len(p) <= Len(a) \/ Len(a) <= Len(p)
    OBVIOUS
<1> QED
    BY <1>1, <1>2, <1>3

-----------------------------------------------------------------------------
(***************************************************************************)
(* The last element of a kind.                                             *)
(***************************************************************************)
LastIn(s, S) == s[Max({i \in DOMAIN s : s[i] \in S})]

\* It is an element of that kind.
LEMMA LastInElement ==
    ASSUME NEW T, NEW s \in Seq(T), NEW S, Range(s) \cap S # {}
    PROVE  LastIn(s, S) \in Range(s) \cap S
<1> DEFINE at == {i \in DOMAIN s : s[i] \in S}
<1>1. at # {} /\ at \in SUBSET (1..Len(s)) /\ Len(s) \in Nat
    BY DEF Range
<1>2. Max(at) \in at
    BY <1>1, MaxLargest
<1> QED
    BY <1>2 DEF LastIn, Range

\* In two sequences, one after the other, it is that of the second if there is one,
\* and otherwise that of the first.
LEMMA LastInConcat ==
    ASSUME NEW T, NEW p \in Seq(T), NEW q \in Seq(T), NEW S
    PROVE  /\ Range(q) \cap S # {} => LastIn(p \o q, S) = LastIn(q, S)
           /\ Range(q) \cap S = {} /\ Range(p) \cap S # {} => LastIn(p \o q, S) = LastIn(p, S)
<1>1. /\ Len(p) \in Nat /\ Len(q) \in Nat /\ Len(p \o q) = Len(p) + Len(q)
      /\ DOMAIN p = 1..Len(p) /\ DOMAIN q = 1..Len(q) /\ DOMAIN (p \o q) = 1..(Len(p) + Len(q))
    OBVIOUS
<1>2. \A i \in DOMAIN p : i \in DOMAIN (p \o q) /\ (p \o q)[i] = p[i]
    BY <1>1
<1>3. \A i \in DOMAIN q : Len(p) + i \in DOMAIN (p \o q) /\ (p \o q)[Len(p) + i] = q[i]
    BY <1>1
<1>4. \A i \in DOMAIN (p \o q) :
          i \in DOMAIN p \/ (i - Len(p) \in DOMAIN q /\ (p \o q)[i] = q[i - Len(p)])
    BY <1>1
<1> DEFINE ap == {i \in DOMAIN p : p[i] \in S}
           aq == {i \in DOMAIN q : q[i] \in S}
           both == {i \in DOMAIN (p \o q) : (p \o q)[i] \in S}
<1>5. ASSUME Range(q) \cap S # {}
      PROVE  LastIn(p \o q, S) = LastIn(q, S)
    <2> DEFINE k == Max(aq)
               l == Max(both)
    <2>1. aq # {} /\ aq \in SUBSET (1..Len(q))
        BY <1>1, <1>5 DEF Range
    <2>2. k \in aq /\ \A i \in aq : k >= i
        BY <1>1, <2>1, MaxLargest
    <2>3. Len(p) + k \in both
        BY <1>3, <2>2
    <2>4. both # {} /\ both \in SUBSET (1..(Len(p) + Len(q))) /\ Len(p) + Len(q) \in Nat
        BY <1>1, <2>3
    <2>5. l \in both /\ \A i \in both : l >= i
        BY <2>4, MaxLargest
    <2> HIDE DEF k, l
    <2>6. k \in Nat /\ k >= 1 /\ l \in Nat
        BY <1>1, <2>2, <2>5
    <2>7. l >= Len(p) + k
        BY <2>3, <2>5
    <2>8. l - Len(p) \in DOMAIN q /\ (p \o q)[l] = q[l - Len(p)]
        BY <1>1, <2>5, <2>6, <2>7
    <2>9. l - Len(p) \in aq
        BY <2>5, <2>8
    <2>10. l = Len(p) + k
        BY <1>1, <2>2, <2>6, <2>7, <2>9
    <2>11. (p \o q)[l] = q[k]
        BY <1>3, <2>2, <2>10
    <2> QED
        BY <2>11 DEF LastIn, k, l
<1>6. ASSUME Range(q) \cap S = {}, Range(p) \cap S # {}
      PROVE  LastIn(p \o q, S) = LastIn(p, S)
    <2>1. \A i \in DOMAIN q : q[i] \notin S
        BY <1>6 DEF Range
    <2>2. both = ap
        BY <1>2, <1>4, <2>1
    <2>3. ap # {} /\ ap \in SUBSET (1..Len(p))
        BY <1>1, <1>6 DEF Range
    <2>4. Max(ap) \in ap
        BY <1>1, <2>3, MaxLargest
    <2>5. LastIn(p \o q, S) = (p \o q)[Max(both)] /\ LastIn(p, S) = p[Max(ap)]
        BY DEF LastIn
    <2> HIDE DEF both
    <2> QED
        BY <1>2, <2>2, <2>4, <2>5
<1> QED
    BY <1>5, <1>6
=============================================================================
