------------------------- MODULE SlipDecoderProofs -------------------------
(***************************************************************************)
(* Proofs about SlipDecoder, for every alphabet and every length.  Where   *)
(* the decoder stands is told by how much of the encoding of the frame is  *)
(* still on the line: Rest(f, k) is what follows the encoding of the first *)
(* k bytes of f.                                                           *)
(***************************************************************************)
EXTENDS SlipDecoder, SequenceLemmas

Escapes(f, k) == [i \in 1..(Len(f) - k) |-> Escape(f[k + i])]
Rest(f, k) == FlattenSeq(Escapes(f, k)) \o <<END>>

\* The byte that follows ESC for a byte that is escaped.
Code(byte) == IF byte = END THEN ESC_END ELSE ESC_ESC

\* The line is x and what follows the encoding of the first k bytes.
Halfway(f, k) == <<Code(f[k + 1])>> \o Rest(f, k + 1)

-----------------------------------------------------------------------------
(***************************************************************************)
(* Where the decoder is in a frame.                                        *)
(***************************************************************************)
\* Nothing of the frame is read, and whatever came before it may be in the buffer.
Before ==
    /\ line = encode(sent) /\ decoded = <<>>
    /\ clean => mode \in {"hunting", "reading"} /\ buffer = <<>>

\* The first k bytes are in the buffer.
Reading(k) ==
    /\ line = Rest(sent, k)
    /\ mode = "reading" /\ k <= MaximumLength /\ buffer = SubSeq(sent, 1, k)
    /\ clean => decoded = <<>>

\* And the ESC of the next one is read.
Escaping(k) ==
    /\ k < Len(sent) /\ sent[k + 1] \in {END, ESC} /\ line = Halfway(sent, k)
    /\ mode = "escaped" /\ k <= MaximumLength /\ buffer = SubSeq(sent, 1, k)
    /\ decoded = <<>>

\* The frame has turned out too long.
Discarding(k) ==
    /\ Len(sent) > MaximumLength
    /\ \/ line = Rest(sent, k)
       \/ k < Len(sent) /\ line = Halfway(sent, k)
    /\ mode = "discarding" /\ buffer = <<>>
    /\ decoded \in {<<>>, <<Error("tooLarge")>>}

\* The frame is read.
After ==
    /\ line = <<>> /\ mode = "reading" /\ buffer = <<>>
    /\ decoded = IF Len(sent) <= MaximumLength THEN <<Ok(sent)>> ELSE <<>>

Progress ==
    \/ Before
    \/ \E k \in 0..Len(sent) : Reading(k) \/ Escaping(k) \/ Discarding(k)
    \/ After

\* No frame was sent and no stray byte either.
Idle == line = <<>> /\ mode = "hunting" /\ buffer = <<>>

FrameInv ==
    /\ sent # <<>> => Progress
    /\ sent = <<>> /\ clean => Idle

-----------------------------------------------------------------------------
(***************************************************************************)
(* The encoding, byte by byte.                                             *)
(***************************************************************************)
\* An escaped byte is one byte or two, none of them END, and the decoder recovers it.
LEMMA EscapeType ==
    ASSUME NEW x \in Bytes
    PROVE  /\ Escape(x) \in Seq(Bytes)
           /\ x \notin {END, ESC} => Escape(x) = <<x>>
           /\ x \in {END, ESC} => Escape(x) = <<ESC, Code(x)>>
           /\ Code(x) \in {ESC_END, ESC_ESC}
           /\ x \in {END, ESC} => Unescaped(Code(x)) = x
<1>1. CASE x = END
    BY <1>1 DEF Escape, Code, Bytes, Unescaped, END, ESC, ESC_END, ESC_ESC
<1>2. CASE x = ESC
    BY <1>2 DEF Escape, Code, Bytes, Unescaped, END, ESC, ESC_END, ESC_ESC
<1>3. CASE x # END /\ x # ESC
    BY <1>3 DEF Escape, Code, Bytes, Unescaped, END, ESC, ESC_END, ESC_ESC
<1> QED
    BY <1>1, <1>2, <1>3

\* What is left on the line is a sequence of bytes, and encode puts an END before the
\* whole of it.
LEMMA RestType ==
    ASSUME NEW f \in Seq(Bytes), NEW k \in 0..Len(f)
    PROVE  /\ Escapes(f, k) \in Seq(Seq(Bytes)) /\ Len(Escapes(f, k)) = Len(f) - k
           /\ FlattenSeq(Escapes(f, k)) \in Seq(Bytes)
           /\ Rest(f, k) \in Seq(Bytes)
<1>1. Len(f) - k \in Nat /\ \A i \in 1..(Len(f) - k) : f[k + i] \in Bytes
    OBVIOUS
<1>2. \A i \in 1..(Len(f) - k) : Escape(f[k + i]) \in Seq(Bytes)
    BY <1>1, EscapeType
<1>3. Escapes(f, k) \in [1..(Len(f) - k) -> Seq(Bytes)]
    BY <1>2 DEF Escapes
<1>4. Escapes(f, k) \in Seq(Seq(Bytes)) /\ Len(Escapes(f, k)) = Len(f) - k
    BY <1>1, <1>3
<1>5. FlattenSeq(Escapes(f, k)) \in Seq(Bytes)
    BY <1>4, FlattenElements
<1>6. <<END>> \in Seq(Bytes)
    BY DEF Bytes
<1> QED
    BY <1>4, <1>5, <1>6, ConcatRange DEF Rest

\* After the last byte only the closing END is left.
LEMMA RestEnd ==
    ASSUME NEW f \in Seq(Bytes)
    PROVE  Rest(f, Len(f)) = <<END>>
<1>1. Len(f) \in 0..Len(f)
    OBVIOUS
<1>2. Escapes(f, Len(f)) \in Seq(Seq(Bytes)) /\ Len(Escapes(f, Len(f))) = 0
    BY <1>1, RestType
<1>3. Escapes(f, Len(f)) = <<>>
    BY <1>2
<1>4. FlattenSeq(<<>>) = <<>>
    BY DEF FlattenSeq
<1>5. <<>> \o <<END>> = <<END>>
    OBVIOUS
<1> QED
    BY <1>3, <1>4, <1>5 DEF Rest

\* The encoding of the next byte, then what follows it.
LEMMA RestStep ==
    ASSUME NEW f \in Seq(Bytes), NEW k \in 0..Len(f), k < Len(f)
    PROVE  Rest(f, k) = Escape(f[k + 1]) \o Rest(f, k + 1)
<1>1. k + 1 \in 0..Len(f) /\ f[k + 1] \in Bytes /\ Len(f) - k \in Nat /\ 1 \in 1..(Len(f) - k)
    OBVIOUS
<1>2. PICK s \in Seq(Seq(Bytes)), t \in Seq(Seq(Bytes)) : s = Escapes(f, k) /\ t = Escapes(f, k + 1)
    BY <1>1, RestType
<1>3. Len(s) = Len(f) - k /\ Len(t) = Len(f) - (k + 1)
    BY <1>1, <1>2, RestType
<1>4. s[1] = Escape(f[k + 1])
    BY <1>1, <1>2 DEF Escapes
<1>5. ASSUME NEW i \in 1..Len(t)
      PROVE  t[i] = s[i + 1]
    <2>1. i \in 1..(Len(f) - (k + 1)) /\ i + 1 \in 1..(Len(f) - k) /\ (k + 1) + i = k + (i + 1)
        BY <1>3
    <2>2. t[i] = Escape(f[(k + 1) + i]) /\ s[i + 1] = Escape(f[k + (i + 1)])
        BY <1>2, <2>1 DEF Escapes
    <2> QED
        BY <2>1, <2>2
<1>6. Len(s) = Len(t) + 1
    BY <1>3
<1>7. FlattenSeq(s) = s[1] \o FlattenSeq(t)
    BY <1>5, <1>6, FlattenFirst
<1>8. PICK a \in Seq(Bytes), b \in Seq(Bytes), c \in Seq(Bytes) :
          a = s[1] /\ b = FlattenSeq(t) /\ c = <<END>>
    <2>1. FlattenSeq(t) \in Seq(Bytes)
        BY <1>1, <1>2, RestType
    <2>2. s[1] \in Seq(Bytes)
        BY <1>1, <1>4, EscapeType
    <2>3. <<END>> \in Seq(Bytes)
        BY DEF Bytes
    <2> QED
        BY <2>1, <2>2, <2>3
<1>9. (a \o b) \o c = a \o (b \o c)
    BY ConcatAssociative, SMTT(60)
<1> QED
    BY <1>2, <1>4, <1>7, <1>8, <1>9 DEF Rest

\* The first byte of a line and the rest.
LEMMA FirstByte ==
    ASSUME NEW T, NEW x \in T, NEW s \in Seq(T)
    PROVE  /\ <<x>> \o s \in Seq(T) /\ <<x>> \o s # <<>>
           /\ Head(<<x>> \o s) = x /\ Tail(<<x>> \o s) = s
<1>1. <<x>> \in Seq(T) /\ Len(<<x>>) = 1
    OBVIOUS
<1>2. <<x>> \o s \in Seq(T) /\ Len(<<x>> \o s) = 1 + Len(s) /\ <<x>> \o s # <<>>
    OBVIOUS
<1>3. Head(<<x>> \o s) = x
    OBVIOUS
<1>4. Tail(<<x>> \o s) \in Seq(T) /\ Len(Tail(<<x>> \o s)) = Len(s)
    BY <1>2
<1>5. \A i \in 1..Len(s) : Tail(<<x>> \o s)[i] = s[i]
    BY <1>2
<1> QED
    BY <1>2, <1>3, <1>4, <1>5, SeqEqual

\* Two bytes before the rest of a line, taken one at a time.
LEMMA TwoBytes ==
    ASSUME NEW T, NEW x \in T, NEW y \in T, NEW s \in Seq(T)
    PROVE  <<x, y>> \o s = <<x>> \o (<<y>> \o s)
<1>1. <<x>> \in Seq(T) /\ <<y>> \in Seq(T) /\ <<x>> \o <<y>> = <<x, y>>
    <2>1. /\ <<x>> \in Seq(T) /\ <<y>> \in Seq(T) /\ <<x, y>> \in Seq(T)
          /\ Len(<<x>>) = 1 /\ Len(<<y>>) = 1 /\ Len(<<x, y>>) = 2
        OBVIOUS
    <2>2. <<x>> \o <<y>> \in Seq(T) /\ Len(<<x>> \o <<y>>) = 2
        OBVIOUS
    <2>3. (<<x>> \o <<y>>)[1] = x /\ (<<x>> \o <<y>>)[2] = y
        OBVIOUS
    <2>4. \A i \in 1..2 : (<<x>> \o <<y>>)[i] = <<x, y>>[i]
        BY <2>3
    <2> QED
        BY <2>1, <2>2, <2>4, SeqEqual
<1>2. (<<x>> \o <<y>>) \o s = <<x>> \o (<<y>> \o s)
    BY <1>1, ConcatAssociative
<1> QED
    BY <1>1, <1>2

\* What the decoder reads next once k bytes of a frame are read, and what is left
\* after it.
LEMMA RestBytes ==
    ASSUME NEW f \in Seq(Bytes), NEW k \in 0..Len(f)
    PROVE  /\ Rest(f, k) \in Seq(Bytes) /\ Rest(f, k) # <<>>
           /\ k = Len(f) => Head(Rest(f, k)) = END /\ Tail(Rest(f, k)) = <<>>
           /\ k < Len(f) /\ f[k + 1] \notin {END, ESC} =>
                 Head(Rest(f, k)) = f[k + 1] /\ Tail(Rest(f, k)) = Rest(f, k + 1)
           /\ k < Len(f) /\ f[k + 1] \in {END, ESC} =>
                 Head(Rest(f, k)) = ESC /\ Tail(Rest(f, k)) = Halfway(f, k)
<1>1. Rest(f, k) \in Seq(Bytes)
    BY RestType
<1>2. CASE k = Len(f)
    <2>1. Rest(f, k) = <<END>>
        BY <1>2, RestEnd
    <2> QED
        BY <1>1, <1>2, <2>1
<1>3. CASE k < Len(f)
    <2>1. k + 1 \in 0..Len(f) /\ f[k + 1] \in Bytes
        BY <1>3
    <2>2. PICK x \in Bytes : x = f[k + 1]
        BY <2>1
    <2>3. PICK r \in Seq(Bytes) : r = Rest(f, k + 1)
        BY <2>1, RestType
    <2>4. Rest(f, k) = Escape(x) \o r
        BY <1>3, <2>2, <2>3, RestStep
    <2>5. CASE x \notin {END, ESC}
        <3>1. Rest(f, k) = <<x>> \o r
            BY <2>4, <2>5, EscapeType
        <3>2. Rest(f, k) # <<>> /\ Head(Rest(f, k)) = x /\ Tail(Rest(f, k)) = r
            BY <3>1, FirstByte
        <3> QED
            BY <1>1, <1>3, <2>2, <2>3, <2>5, <3>2
    <2>6. CASE x \in {END, ESC}
        <3>1. PICK c \in Bytes : c = Code(x)
            BY EscapeType DEF Bytes
        <3>2. ESC \in Bytes
            BY DEF Bytes
        <3>3. Rest(f, k) = <<ESC, c>> \o r
            BY <2>4, <2>6, <3>1, EscapeType
        <3>4. Rest(f, k) = <<ESC>> \o (<<c>> \o r)
            <4>1. <<ESC, c>> \o r = <<ESC>> \o (<<c>> \o r)
                BY <3>2, TwoBytes, SMTT(40)
            <4> QED
                BY <3>3, <4>1, Zenon
        <3>5. <<c>> \o r \in Seq(Bytes)
            BY FirstByte
        <3>6. PICK q \in Seq(Bytes) : q = <<c>> \o r
            BY <3>5
        <3>7. Rest(f, k) # <<>> /\ Head(Rest(f, k)) = ESC /\ Tail(Rest(f, k)) = q
            BY <3>2, <3>4, <3>6, FirstByte
        <3>8. Halfway(f, k) = q
            BY <2>2, <2>3, <3>1, <3>6 DEF Halfway
        <3> QED
            BY <1>1, <1>3, <2>2, <2>6, <3>7, <3>8
    <2> QED
        BY <2>5, <2>6
<1> QED
    BY <1>2, <1>3

\* The same after the ESC of a byte that is escaped.
LEMMA HalfwayBytes ==
    ASSUME NEW f \in Seq(Bytes), NEW k \in 0..Len(f), k < Len(f)
    PROVE  /\ Halfway(f, k) \in Seq(Bytes) /\ Halfway(f, k) # <<>>
           /\ Head(Halfway(f, k)) = Code(f[k + 1]) /\ Tail(Halfway(f, k)) = Rest(f, k + 1)
<1>1. k + 1 \in 0..Len(f) /\ f[k + 1] \in Bytes
    OBVIOUS
<1>2. PICK r \in Seq(Bytes) : r = Rest(f, k + 1)
    BY <1>1, RestType
<1>3. PICK c \in Bytes : c = Code(f[k + 1])
    BY <1>1, EscapeType DEF Bytes
<1>4. Halfway(f, k) = <<c>> \o r
    BY <1>2, <1>3 DEF Halfway
<1> QED
    BY <1>2, <1>3, <1>4, FirstByte

\* The encoding of a frame begins with END.
LEMMA EncodeBytes ==
    ASSUME NEW f \in Seq(Bytes)
    PROVE  /\ encode(f) \in Seq(Bytes) /\ encode(f) # <<>>
           /\ Head(encode(f)) = END /\ Tail(encode(f)) = Rest(f, 0)
<1>1. 0 \in 0..Len(f) /\ END \in Bytes
    BY DEF Bytes
<1>2. Escapes(f, 0) = [i \in 1..Len(f) |-> Escape(f[i])]
    BY DEF Escapes
<1>3. PICK a \in Seq(Bytes), b \in Seq(Bytes) : a = FlattenSeq(Escapes(f, 0)) /\ b = <<END>>
    <2>1. FlattenSeq(Escapes(f, 0)) \in Seq(Bytes)
        BY <1>1, RestType
    <2>2. <<END>> \in Seq(Bytes)
        BY <1>1
    <2> QED
        BY <2>1, <2>2
<1>4. encode(f) = (b \o a) \o b /\ Rest(f, 0) = a \o b
    BY <1>2, <1>3 DEF encode, Rest
<1>5. (b \o a) \o b = b \o (a \o b)
    BY ConcatAssociative
<1>6. PICK r \in Seq(Bytes) : r = Rest(f, 0)
    BY <1>1, RestType
<1>7. encode(f) = <<END>> \o r
    BY <1>3, <1>4, <1>5, <1>6
<1> QED
    BY <1>1, <1>6, <1>7, FirstByte

-----------------------------------------------------------------------------
(***************************************************************************)
(* Types.                                                                  *)
(***************************************************************************)
\* A frame that is sent is not empty.
LEMMA FrameType ==
    ASSUME NEW frame \in Frames
    PROVE  frame \in Seq(Bytes) /\ frame # <<>> /\ Len(frame) \in Nat \ {0}
<1>1. PICK n \in 1..MaxFrame : frame \in [1..n -> Bytes]
    BY DEF Frames
<1>2. n \in Nat \ {0}
    BY LengthAssumption
<1>3. frame \in Seq(Bytes) /\ Len(frame) = n
    BY <1>1, <1>2
<1> QED
    BY <1>2, <1>3

\* Every step keeps the types and the bound on the buffer.
LEMMA TypeStep ==
    ASSUME TypeOK, [Next]_vars
    PROVE  TypeOK'
<1> USE DEF TypeOK
<1>1. CASE Push
    <2>1. line # <<>> /\ line' = Tail(line) /\ sent' = sent /\ clean' = clean
        BY <1>1 DEF Push
    <2>2. Head(line) \in Bytes /\ Tail(line) \in Seq(Bytes)
        BY <2>1
    <2>3. <<>> \in Seq(Bytes) /\ Len(<<>>) = 0 /\ 0 <= MaximumLength
        BY LengthAssumption
    <2>4. \A r : Len(<<r>>) = 1
        OBVIOUS
    <2>5. CASE PushEnd
        BY <2>1, <2>2, <2>3, <2>4, <2>5 DEF PushEnd
    <2>6. CASE PushIgnored
        BY <2>1, <2>2, <2>3, <2>6 DEF PushIgnored
    <2>7. CASE PushEscape
        BY <2>1, <2>2, <2>3, <2>7 DEF PushEscape
    <2>8. CASE PushInvalidEscape
        BY <2>1, <2>2, <2>3, <2>4, <2>8 DEF PushInvalidEscape
    <2>9. CASE PushData
        <3>1. CASE Full
            <4>1. decoded' = <<Error("tooLarge")>> /\ mode' = "discarding" /\ buffer' = <<>>
                BY <2>9, <3>1 DEF PushData
            <4>2. Len(decoded') = 1
                BY <2>4, <4>1
            <4> QED
                BY <2>1, <2>2, <2>3, <4>1, <4>2
        <3>2. CASE ~Full
            <4>1. PICK x \in Bytes : buffer' = Append(buffer, x)
                <5>1. Unescaped(Head(line)) \in Bytes
                    BY DEF Unescaped, Bytes
                <5> QED
                    BY <2>2, <2>9, <3>2, <5>1 DEF PushData
            <4>2. Len(buffer) < MaximumLength
                BY <3>2, LengthAssumption DEF Full
            <4>3. buffer' \in Seq(Bytes) /\ Len(buffer') <= MaximumLength
                BY <4>1, <4>2, LengthAssumption
            <4>4. mode' = "reading" /\ decoded' = <<>>
                BY <2>9, <3>2 DEF PushData
            <4> QED
                BY <2>1, <2>2, <2>3, <4>3, <4>4
        <3> QED
            BY <3>1, <3>2
    <2> QED
        BY <1>1, <2>5, <2>6, <2>7, <2>8, <2>9 DEF Push
<1>2. ASSUME NEW frame \in Frames, Transmit(frame)
      PROVE  TypeOK'
    <2>1. frame \in Seq(Bytes) /\ encode(frame) \in Seq(Bytes)
        BY FrameType, EncodeBytes
    <2>2. clean' \in BOOLEAN
        BY <1>2 DEF Transmit
    <2> QED
        BY <1>2, <2>1, <2>2 DEF Transmit
<1>3. ASSUME NEW byte \in Bytes, Stray(byte)
      PROVE  TypeOK'
    <2>1. <<byte>> \in Seq(Bytes) /\ <<>> \in Seq(Bytes) /\ Len(<<>>) = 0
        OBVIOUS
    <2>2. /\ line' = <<byte>> /\ sent' = <<>> /\ decoded' = <<>>
          /\ buffer' = buffer /\ mode' = mode
        BY <1>3 DEF Stray
    <2>3. clean' \in BOOLEAN
        BY <1>3, Zenon DEF Stray
    <2> QED
        BY <2>1, <2>2, <2>3
<1>4. CASE UNCHANGED vars
    BY <1>4 DEF vars
<1> QED
    BY <1>1, <1>2, <1>3, <1>4 DEF Next

\* Type correctness: the buffer never holds more than MaximumLength bytes, and a byte
\* completes at most one result.
THEOREM TypeCorrect == Spec => []TypeOK
<1>1. Init => TypeOK
    BY LengthAssumption DEF Init, TypeOK
<1>2. TypeOK /\ [Next]_vars => TypeOK'
    BY TypeStep
<1> QED
    BY <1>1, <1>2, PTL DEF Spec

-----------------------------------------------------------------------------
(***************************************************************************)
(* Frames.                                                                 *)
(***************************************************************************)
\* One more byte in the buffer.
LEMMA LongerPrefix ==
    ASSUME NEW T, NEW f \in Seq(T), NEW k \in 0..Len(f), k < Len(f)
    PROVE  Append(SubSeq(f, 1, k), f[k + 1]) = SubSeq(f, 1, k + 1)
<1>1. /\ SubSeq(f, 1, k) \in Seq(T) /\ Len(SubSeq(f, 1, k)) = k /\ f[k + 1] \in T
      /\ SubSeq(f, 1, k + 1) \in Seq(T) /\ Len(SubSeq(f, 1, k + 1)) = k + 1
    OBVIOUS
<1>2. /\ Append(SubSeq(f, 1, k), f[k + 1]) \in Seq(T)
      /\ Len(Append(SubSeq(f, 1, k), f[k + 1])) = k + 1
    BY <1>1
<1>3. ASSUME NEW i \in 1..(k + 1)
      PROVE  Append(SubSeq(f, 1, k), f[k + 1])[i] = SubSeq(f, 1, k + 1)[i]
    <2>1. SubSeq(f, 1, k + 1)[i] = f[i]
        OBVIOUS
    <2>2. CASE i = k + 1
        BY <1>1, <2>1, <2>2
    <2>3. CASE i # k + 1
        <3>1. i \in 1..k
            BY <2>3
        <3>2. SubSeq(f, 1, k)[i] = f[i]
            BY <3>1
        <3> QED
            BY <1>1, <2>1, <3>1, <3>2
    <2> QED
        BY <2>2, <2>3
<1> QED
    BY <1>1, <1>2, <1>3, SeqEqual

\* A byte of the frame that is neither END nor ESC, or the second half of one that is,
\* goes to the buffer or shows that the frame is too long.
LEMMA DataStep ==
    ASSUME TypeOK, NEW f \in Seq(Bytes), f = sent, NEW k \in 0..Len(f), k < Len(f),
           k <= MaximumLength, buffer = SubSeq(f, 1, k), PushData,
           (IF mode = "escaped" THEN Unescaped(Head(line)) ELSE Head(line)) = f[k + 1],
           line' = Rest(f, k + 1), sent' = sent
    PROVE  \E j \in 0..Len(f) : Reading(j)' \/ Discarding(j)'
<1>1. k + 1 \in 0..Len(f) /\ Len(buffer) = k /\ sent' = f
    OBVIOUS
<1>2. CASE Full
    <2>1. Len(f) > MaximumLength
        BY <1>1, <1>2, LengthAssumption DEF Full
    <2>2. mode' = "discarding" /\ buffer' = <<>> /\ decoded' = <<Error("tooLarge")>>
        BY <1>2 DEF PushData
    <2>3. Discarding(k + 1)'
        BY <1>1, <2>1, <2>2 DEF Discarding
    <2> QED
        BY <1>1, <2>3
<1>3. CASE ~Full
    <2>1. k + 1 <= MaximumLength
        BY <1>1, <1>3, LengthAssumption DEF Full
    <2>2. mode' = "reading" /\ decoded' = <<>> /\ buffer' = Append(buffer, f[k + 1])
        BY <1>3 DEF PushData
    <2>3. buffer' = SubSeq(f, 1, k + 1)
        BY <2>2, LongerPrefix
    <2>4. Reading(k + 1)'
        BY <1>1, <2>1, <2>2, <2>3 DEF Reading
    <2> QED
        BY <1>1, <2>4
<1> QED
    BY <1>2, <1>3

\* The first END of a frame, whatever the decoder was doing.
LEMMA PushBefore ==
    ASSUME TypeOK, sent # <<>>, Push, Before
    PROVE  Progress'
<1>1. PICK f \in Seq(Bytes) : f = sent
    BY DEF TypeOK
<1>2. line' = Tail(line) /\ sent' = f /\ clean' = clean
    BY <1>1 DEF Push
<1>3. Head(line) = END /\ line' = Rest(f, 0)
    BY <1>1, <1>2, EncodeBytes DEF Before
<1>4. PushEnd
    BY <1>3 DEF Push, PushIgnored, PushEscape, PushInvalidEscape, PushData, END, ESC,
                ESC_END, ESC_ESC
<1>5. mode' = "reading" /\ buffer' = <<>>
    BY <1>4 DEF PushEnd
<1>6. clean => decoded' = <<>>
    BY <1>4 DEF PushEnd, Before
<1>7. 0 \in 0..Len(f) /\ 0 <= MaximumLength /\ SubSeq(f, 1, 0) = <<>>
    BY LengthAssumption
<1>8. Reading(0)'
    BY <1>2, <1>3, <1>5, <1>6, <1>7 DEF Reading
<1> QED
    BY <1>2, <1>7, <1>8 DEF Progress

\* A byte of a frame of which the first k bytes are in the buffer.
LEMMA PushReading ==
    ASSUME TypeOK, sent # <<>>, Push, NEW k \in 0..Len(sent), Reading(k)
    PROVE  Progress'
<1>1. PICK f \in Seq(Bytes) : f = sent
    BY DEF TypeOK
<1>2. line' = Tail(line) /\ sent' = f /\ clean' = clean /\ k \in 0..Len(f)
    BY <1>1 DEF Push
<1>3. /\ line = Rest(f, k) /\ mode = "reading" /\ k <= MaximumLength
      /\ buffer = SubSeq(f, 1, k)
    BY <1>1 DEF Reading
<1>4. CASE k = Len(f)
    <2>1. Head(line) = END /\ line' = <<>>
        BY <1>2, <1>3, <1>4, RestBytes
    <2>2. PushEnd
        BY <1>3, <2>1 DEF Push, PushIgnored, PushEscape, PushInvalidEscape, PushData, END,
                          ESC, ESC_END, ESC_ESC
    <2>3. SubSeq(f, 1, Len(f)) = f
        OBVIOUS
    <2>4. buffer = f /\ buffer # <<>>
        BY <1>1, <1>3, <1>4, <2>3
    <2>5. mode' = "reading" /\ buffer' = <<>> /\ decoded' = <<Ok(f)>>
        BY <1>3, <2>2, <2>4 DEF PushEnd
    <2>6. After'
        BY <1>2, <1>3, <1>4, <2>1, <2>5 DEF After
    <2> QED
        BY <2>6 DEF Progress
<1>5. CASE k < Len(f) /\ f[k + 1] \notin {END, ESC}
    <2>1. Head(line) = f[k + 1] /\ line' = Rest(f, k + 1)
        BY <1>2, <1>3, <1>5, RestBytes
    <2>2. PushData
        BY <1>3, <1>5, <2>1 DEF Push, PushEnd, PushIgnored, PushEscape, PushInvalidEscape
    <2>3. PICK j \in 0..Len(f) : Reading(j)' \/ Discarding(j)'
        BY <1>1, <1>2, <1>3, <1>5, <2>1, <2>2, DataStep
    <2> QED
        BY <1>2, <2>3 DEF Progress
<1>6. CASE k < Len(f) /\ f[k + 1] \in {END, ESC}
    <2>1. Head(line) = ESC /\ line' = Halfway(f, k)
        BY <1>2, <1>3, <1>6, RestBytes
    <2>2. PushEscape
        BY <1>3, <2>1 DEF Push, PushEnd, PushIgnored, PushInvalidEscape, PushData, END, ESC
    <2>3. mode' = "escaped" /\ buffer' = buffer /\ decoded' = <<>>
        BY <2>2 DEF PushEscape
    <2>4. Escaping(k)'
        BY <1>2, <1>3, <1>6, <2>1, <2>3 DEF Escaping
    <2> QED
        BY <1>2, <2>4 DEF Progress
<1> QED
    BY <1>2, <1>4, <1>5, <1>6

\* The byte after an ESC.
LEMMA PushEscaping ==
    ASSUME TypeOK, sent # <<>>, Push, NEW k \in 0..Len(sent), Escaping(k)
    PROVE  Progress'
<1>1. PICK f \in Seq(Bytes) : f = sent
    BY DEF TypeOK
<1>2. line' = Tail(line) /\ sent' = f /\ clean' = clean /\ k \in 0..Len(f)
    BY <1>1 DEF Push
<1>3. /\ k < Len(f) /\ f[k + 1] \in {END, ESC} /\ line = Halfway(f, k)
      /\ mode = "escaped" /\ k <= MaximumLength /\ buffer = SubSeq(f, 1, k)
    BY <1>1 DEF Escaping
<1>4. Head(line) = Code(f[k + 1]) /\ line' = Rest(f, k + 1)
    BY <1>2, <1>3, HalfwayBytes
<1>5. f[k + 1] \in Bytes
    BY <1>2, <1>3
<1>6. Head(line) \in {ESC_END, ESC_ESC} /\ Unescaped(Head(line)) = f[k + 1]
    BY <1>3, <1>4, <1>5, EscapeType
<1>7. PushData
    BY <1>3, <1>6 DEF Push, PushEnd, PushIgnored, PushEscape, PushInvalidEscape, END, ESC,
                      ESC_END, ESC_ESC
<1>8. PICK j \in 0..Len(f) : Reading(j)' \/ Discarding(j)'
    BY <1>1, <1>2, <1>3, <1>4, <1>6, <1>7, DataStep
<1> QED
    BY <1>2, <1>8 DEF Progress

\* A byte of a frame that is too long.
LEMMA PushDiscarding ==
    ASSUME TypeOK, sent # <<>>, Push, NEW k \in 0..Len(sent), Discarding(k)
    PROVE  Progress'
<1>1. PICK f \in Seq(Bytes) : f = sent
    BY DEF TypeOK
<1>2. line' = Tail(line) /\ sent' = f /\ clean' = clean /\ k \in 0..Len(f)
    BY <1>1 DEF Push
<1>3. /\ Len(f) > MaximumLength /\ mode = "discarding" /\ buffer = <<>>
      /\ line = Rest(f, k) \/ (k < Len(f) /\ line = Halfway(f, k))
    BY <1>1 DEF Discarding
<1>4. CASE k = Len(f)
    <2>1. line = Rest(f, k)
        BY <1>3, <1>4
    <2>2. Head(line) = END /\ line' = <<>>
        BY <1>2, <1>4, <2>1, RestBytes
    <2>3. PushEnd
        BY <1>3, <2>2 DEF Push, PushIgnored, PushEscape, PushInvalidEscape, PushData
    <2>4. mode' = "reading" /\ buffer' = <<>> /\ decoded' = <<>>
        BY <1>3, <2>3 DEF PushEnd
    <2>5. After'
        BY <1>2, <1>3, <2>2, <2>4, LengthAssumption DEF After
    <2> QED
        BY <2>5 DEF Progress
<1>5. CASE k < Len(f)
    <2>1. k + 1 \in 0..Len(f) /\ f[k + 1] \in Bytes
        BY <1>2, <1>5
    <2>2. /\ Head(line) # END
          /\ \/ line' = Rest(f, k + 1)
             \/ line' = Halfway(f, k)
        <3>1. CASE line = Halfway(f, k)
            <4>1. Head(line) = Code(f[k + 1]) /\ line' = Rest(f, k + 1)
                BY <1>2, <1>5, <3>1, HalfwayBytes
            <4> QED
                BY <4>1 DEF Code, END, ESC_END, ESC_ESC
        <3>2. CASE line = Rest(f, k)
            <4>1. CASE f[k + 1] \in {END, ESC}
                <5>1. Head(line) = ESC /\ line' = Halfway(f, k)
                    BY <1>2, <1>5, <3>2, <4>1, RestBytes
                <5> QED
                    BY <5>1 DEF END, ESC
            <4>2. CASE f[k + 1] \notin {END, ESC}
                <5>1. Head(line) = f[k + 1] /\ line' = Rest(f, k + 1)
                    BY <1>2, <1>5, <3>2, <4>2, RestBytes
                <5> QED
                    BY <4>2, <5>1
            <4> QED
                BY <4>1, <4>2
        <3> QED
            BY <1>3, <3>1, <3>2
    <2>3. PushIgnored
        BY <1>3, <2>2 DEF Push, PushEnd, PushEscape, PushInvalidEscape, PushData
    <2>4. mode' = mode /\ buffer' = buffer /\ decoded' = <<>>
        BY <2>3 DEF PushIgnored
    <2>5. CASE line' = Rest(f, k + 1)
        <3>1. Discarding(k + 1)'
            BY <1>2, <1>3, <2>4, <2>5 DEF Discarding
        <3> QED
            BY <1>2, <2>1, <3>1 DEF Progress
    <2>6. CASE line' = Halfway(f, k)
        <3>1. Discarding(k)'
            BY <1>2, <1>3, <1>5, <2>4, <2>6 DEF Discarding
        <3> QED
            BY <1>2, <3>1 DEF Progress
    <2> QED
        BY <2>2, <2>5, <2>6
<1> QED
    BY <1>2, <1>4, <1>5

\* The line is empty only when the frame is read.
LEMMA ReadWhenEmpty ==
    ASSUME TypeOK, FrameInv, sent # <<>>, line = <<>>
    PROVE  After
<1>1. ~Before
    BY EncodeBytes DEF Before, TypeOK
<1>2. \A k \in 0..Len(sent) : ~Reading(k)
    BY RestBytes DEF Reading, TypeOK
<1>3. \A k \in 0..Len(sent) : ~Escaping(k)
    BY HalfwayBytes DEF Escaping, TypeOK
<1>4. \A k \in 0..Len(sent) : ~Discarding(k)
    BY RestBytes, HalfwayBytes DEF Discarding, TypeOK
<1> QED
    BY <1>1, <1>2, <1>3, <1>4 DEF FrameInv, Progress

\* Every step leads from a place in a frame to a place in a frame.
LEMMA FrameStep ==
    ASSUME TypeOK, FrameInv, [Next]_vars
    PROVE  FrameInv'
<1>1. CASE Push
    <2>1. line # <<>> /\ sent' = sent /\ clean' = clean
        BY <1>1 DEF Push
    <2>2. CASE sent # <<>>
        <3>1. Progress
            BY <2>2 DEF FrameInv
        <3>2. ~After
            BY <2>1 DEF After
        <3>3. Progress'
            BY <1>1, <2>2, <3>1, <3>2, PushBefore, PushReading, PushEscaping, PushDiscarding
               DEF Progress
        <3> QED
            BY <2>1, <2>2, <3>3 DEF FrameInv
    <2>3. CASE sent = <<>>
        <3>1. ~clean
            BY <2>1, <2>3 DEF FrameInv, Idle
        <3> QED
            BY <2>1, <2>3, <3>1 DEF FrameInv
    <2> QED
        BY <2>2, <2>3
<1>2. ASSUME NEW frame \in Frames, Transmit(frame)
      PROVE  FrameInv'
    <2>1. /\ line = <<>> /\ sent' = frame /\ line' = encode(frame) /\ decoded' = <<>>
          /\ buffer' = buffer /\ mode' = mode
        BY <1>2 DEF Transmit
    <2>2. clean' => clean \/ sent # <<>>
        BY <1>2 DEF Transmit
    <2>3. sent # <<>> => mode = "reading" /\ buffer = <<>>
        <3> SUFFICES ASSUME sent # <<>>
                     PROVE  mode = "reading" /\ buffer = <<>>
            OBVIOUS
        <3>1. After
            BY <2>1, ReadWhenEmpty
        <3> QED
            BY <3>1 DEF After
    <2>4. clean' => mode' \in {"hunting", "reading"} /\ buffer' = <<>>
        BY <2>1, <2>2, <2>3 DEF FrameInv, Idle
    <2>5. Before'
        BY <2>1, <2>4 DEF Before
    <2>6. sent' # <<>>
        BY <2>1, FrameType
    <2> QED
        BY <2>5, <2>6 DEF FrameInv, Progress
<1>3. ASSUME NEW byte \in Bytes, Stray(byte)
      PROVE  FrameInv'
    BY <1>3 DEF Stray, FrameInv
<1>4. CASE UNCHANGED vars
    BY <1>4 DEF vars, FrameInv, Progress, Before, Reading, Escaping, Discarding, After, Idle
<1> QED
    BY <1>1, <1>2, <1>3, <1>4 DEF Next

\* The place of the decoder in the frame that is being sent is always one of those
\* above: no stray byte, cut-off frame or error before it puts Decoder::push out of step.
THEOREM InStep == Spec => [](TypeOK /\ FrameInv)
<1>1. Init => TypeOK /\ FrameInv
    BY LengthAssumption DEF Init, TypeOK, FrameInv, Idle
<1>2. TypeOK /\ FrameInv /\ [Next]_vars => TypeOK' /\ FrameInv'
    BY TypeStep, FrameStep
<1> QED
    BY <1>1, <1>2, PTL DEF Spec

\* Every frame that fits, of any content, is delivered byte for byte when the last byte
\* of its encoding is read, whatever the decoder read before it.
THEOREM FramesDelivered == Spec => []FrameDelivered
<1>1. TypeOK /\ FrameInv => FrameDelivered
    BY ReadWhenEmpty DEF FrameDelivered, After
<1> QED
    BY <1>1, InStep, PTL

\* Between frames without stray bytes Decoder::push reports the frames and, for one that
\* is too long, that it is; nothing before a frame is complete and no other error.
THEOREM NothingElseReported == Spec => []NothingElse
<1>1. ASSUME TypeOK, FrameInv
      PROVE  NothingElse
    <2> SUFFICES ASSUME clean, sent # <<>>, decoded # <<>>
                 PROVE  IF Len(sent) <= MaximumLength THEN line = <<>>
                        ELSE decoded = <<Error("tooLarge")>>
        BY DEF NothingElse
    <2>1. Len(sent) \in Nat
        BY DEF TypeOK
    <2>2. ~Before /\ \A k \in 0..Len(sent) : ~Reading(k) /\ ~Escaping(k)
        BY DEF Before, Reading, Escaping
    <2>3. ASSUME NEW k \in 0..Len(sent), Discarding(k)
          PROVE  ~(Len(sent) <= MaximumLength) /\ decoded = <<Error("tooLarge")>>
        BY <2>1, <2>3, LengthAssumption DEF Discarding
    <2>4. CASE After
        BY <2>4 DEF After
    <2>5. After \/ \E k \in 0..Len(sent) : Discarding(k)
        <3>1. Progress
            BY <1>1 DEF FrameInv
        <3> QED
            BY <2>2, <3>1, Zenon DEF Progress
    <2> QED
        BY <2>3, <2>4, <2>5
<1> QED
    BY <1>1, InStep, PTL
=============================================================================
