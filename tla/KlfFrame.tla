------------------------------ MODULE KlfFrame ------------------------------
(***************************************************************************)
(* The frame envelope of src/klf200/frame.rs, on sequences of bytes:       *)
(* protocol identifier, length, command (big endian), payload, checksum.   *)
(* A frame here is its command and payload: protocol_id is a field of the  *)
(* struct, but every frame the client makes has KLF_PROTOCOL_ID in it.     *)
(***************************************************************************)
EXTENDS Integers, FiniteSets, Sequences, SequencesExt

KLF_PROTOCOL_ID == 0
FRAME_OVERHEAD == 5
PAYLOAD_LENGTH_OVERHEAD == 3
MAX_PAYLOAD_LENGTH == 252

\* The errors of encode and decode.
PayloadTooLarge == <<>>
FrameError == [command |-> -1, payload |-> <<>>]

\* The bit of a weight in a byte, and in the exclusive or of bytes: it is set if it is
\* set in an odd number of them.
Bit(byte, weight) == (byte \div weight) % 2
Parity(bytes, weight) == Cardinality({i \in DOMAIN bytes : Bit(bytes[i], weight) = 1}) % 2

\* Mutant of checksum: the highest bit is left out.
checksum_seven(bytes) ==
    Parity(bytes, 1) + 2 * Parity(bytes, 2) + 4 * Parity(bytes, 4) + 8 * Parity(bytes, 8)
    + 16 * Parity(bytes, 16) + 32 * Parity(bytes, 32) + 64 * Parity(bytes, 64)

checksum(bytes) ==
    Parity(bytes, 1) + 2 * Parity(bytes, 2) + 4 * Parity(bytes, 4) + 8 * Parity(bytes, 8)
    + 16 * Parity(bytes, 16) + 32 * Parity(bytes, 32) + 64 * Parity(bytes, 64)
    + 128 * Parity(bytes, 128)

\* Frame::encode; the length byte counts itself, the command and the payload.
PayloadFits(length) == length <= MAX_PAYLOAD_LENGTH
encode(frame) ==
    LET body == <<KLF_PROTOCOL_ID, Len(frame.payload) + PAYLOAD_LENGTH_OVERHEAD,
                  frame.command \div 256, frame.command % 256>> \o frame.payload
    IN  IF PayloadFits(Len(frame.payload)) THEN Append(body, checksum(body)) ELSE PayloadTooLarge

\* Frame::decode, with the tests in the order of the code.
decode(encoded) ==
    IF \/ Len(encoded) < FRAME_OVERHEAD
       \/ encoded[1] # KLF_PROTOCOL_ID
       \/ encoded[2] # Len(encoded) - 2
       \/ encoded[Len(encoded)] # checksum(Front(encoded))
    THEN FrameError
    ELSE [command |-> encoded[3] * 256 + encoded[4],
          payload |-> SubSeq(encoded, 5, Len(encoded) - 1)]
=============================================================================
