---------------------------- MODULE SlipDecoder ----------------------------
(***************************************************************************)
(* The SLIP framing of src/klf200/slip.rs: encode on the sending side, the *)
(* stateful Decoder on the reading side, and a line between them on which  *)
(* stray bytes may precede, separate or follow the frames.  The decoder    *)
(* keeps its state between calls of push, so a call with several bytes is  *)
(* as many steps here and the chunks in which reads return do not matter.  *)
(*                                                                         *)
(* The flags started, escaped and discarding are one variable: before the  *)
(* first END the decoder is "hunting", and escaped and discarding are      *)
(* never set together.                                                     *)
(***************************************************************************)
EXTENDS Integers, Sequences, SequencesExt

CONSTANTS
    Plain,          \* bytes without a meaning for the framing
    MaximumLength,  \* of a decoded frame
    MaxFrame        \* bound: length of the frames that are sent

ASSUME LengthAssumption == MaximumLength \in Nat \ {0} /\ MaxFrame \in Nat

END == "END"
ESC == "ESC"
ESC_END == "ESC_END"
ESC_ESC == "ESC_ESC"

Bytes == Plain \cup {END, ESC, ESC_END, ESC_ESC}

VARIABLES
    buffer,     \* decoded bytes of the frame being read
    mode,       \* "hunting", "reading", "escaped" or "discarding"
    decoded,    \* what the last byte completed: at most one result
    line,       \* bytes on the line
    sent,       \* history: the frame being sent, <<>> for a stray byte
    clean       \* history: no stray byte since the last frame was complete

vars == <<buffer, mode, decoded, line, sent, clean>>

Ok(frame) == [is |-> "frame", frame |-> frame]
Error(what) == [is |-> what, frame |-> <<>>]

\* Mutant of Escape: ESC is sent as it is.
EscapeEndOnly(byte) == IF byte = END THEN <<ESC, ESC_END>> ELSE <<byte>>

Escape(byte) ==
    CASE byte = END -> <<ESC, ESC_END>>
      [] byte = ESC -> <<ESC, ESC_ESC>>
      [] OTHER -> <<byte>>

encode(frame) == <<END>> \o FlattenSeq([i \in 1..Len(frame) |-> Escape(frame[i])]) \o <<END>>

Init ==
    /\ buffer = <<>> /\ mode = "hunting" /\ decoded = <<>>
    /\ line = <<>> /\ sent = <<>> /\ clean = TRUE

Frames == UNION {[1..n -> Bytes] : n \in 1..MaxFrame}

Transmit(frame) ==
    /\ line = <<>>
    /\ clean' = (clean \/ sent # <<>>)
    /\ line' = encode(frame) /\ sent' = frame
    /\ decoded' = <<>>
    /\ UNCHANGED <<buffer, mode>>

Stray(byte) ==
    /\ line = <<>>
    /\ line' = <<byte>> /\ sent' = <<>> /\ clean' = FALSE
    /\ decoded' = <<>>
    /\ UNCHANGED <<buffer, mode>>

-----------------------------------------------------------------------------
(***************************************************************************)
(* Decoder::push, one byte.                                                *)
(***************************************************************************)
\* Mutant of PushEnd: the end of a discarded frame does not end the discarding.
PushEndStuck ==
    /\ Head(line) = END
    /\ decoded' = CASE mode = "escaped" -> <<Error("incompleteEscape")>>
                    [] mode = "reading" /\ buffer # <<>> -> <<Ok(buffer)>>
                    [] OTHER -> <<>>
    /\ mode' = IF mode = "discarding" THEN mode ELSE "reading"
    /\ buffer' = <<>>

PushEnd ==
    /\ Head(line) = END
    /\ decoded' = CASE mode = "escaped" -> <<Error("incompleteEscape")>>
                    [] mode = "reading" /\ buffer # <<>> -> <<Ok(buffer)>>
                    [] OTHER -> <<>>
    /\ mode' = "reading"
    /\ buffer' = <<>>

PushIgnored ==
    /\ Head(line) # END /\ mode \in {"hunting", "discarding"}
    /\ decoded' = <<>>
    /\ UNCHANGED <<mode, buffer>>

PushEscape ==
    /\ Head(line) = ESC /\ mode = "reading"
    /\ mode' = "escaped"
    /\ decoded' = <<>>
    /\ UNCHANGED buffer

Unescaped(byte) == IF byte = ESC_END THEN END ELSE ESC

PushInvalidEscape ==
    /\ mode = "escaped" /\ Head(line) \notin {END, ESC_END, ESC_ESC}
    /\ decoded' = <<Error("invalidEscape")>>
    /\ mode' = "discarding"
    /\ buffer' = <<>>

\* Mutant of Full: one byte too many fits.
FullLate == Len(buffer) > MaximumLength

Full == Len(buffer) = MaximumLength

PushData ==
    /\ \/ mode = "escaped" /\ Head(line) \in {ESC_END, ESC_ESC}
       \/ mode = "reading" /\ Head(line) \notin {END, ESC}
    /\ IF Full
       THEN /\ decoded' = <<Error("tooLarge")>>
            /\ mode' = "discarding"
            /\ buffer' = <<>>
       ELSE /\ decoded' = <<>>
            /\ mode' = "reading"
            /\ buffer' = Append(buffer, IF mode = "escaped" THEN Unescaped(Head(line))
                                        ELSE Head(line))

Push ==
    /\ line # <<>>
    /\ PushEnd \/ PushIgnored \/ PushEscape \/ PushInvalidEscape \/ PushData
    /\ line' = Tail(line)
    /\ UNCHANGED <<sent, clean>>

Next == Push \/ (\E frame \in Frames : Transmit(frame)) \/ (\E byte \in Bytes : Stray(byte))

Spec == Init /\ [][Next]_vars

-----------------------------------------------------------------------------
\* The buffer holds at most MaximumLength bytes and a byte completes at most one
\* result.
TypeOK ==
    /\ buffer \in Seq(Bytes) /\ Len(buffer) <= MaximumLength
    /\ mode \in {"hunting", "reading", "escaped", "discarding"}
    /\ Len(decoded) <= 1
    /\ line \in Seq(Bytes) /\ sent \in Seq(Bytes)
    /\ clean \in BOOLEAN

\* A frame that fits is delivered, byte for byte, with the last byte of its
\* encoding, whatever stray bytes or cut-off frames the decoder read before it:
\* every END brings it back into step.
FrameDelivered ==
    (line = <<>> /\ sent # <<>> /\ Len(sent) <= MaximumLength) => decoded = <<Ok(sent)>>

\* Between frames with no stray bytes the decoder reports nothing but the frames:
\* no error, and nothing before a frame is complete.  A frame that is too long is
\* reported as such and nothing of it is delivered.
NothingElse ==
    (clean /\ sent # <<>> /\ decoded # <<>>) =>
        IF Len(sent) <= MaximumLength THEN line = <<>> ELSE decoded = <<Error("tooLarge")>>
=============================================================================
