------------------------------- MODULE Crc32c -------------------------------
(***************************************************************************)
(* crc32c over the segments of a message, with the loops of the software   *)
(* or of the SSE 4.2 variant, and beside it the software variant over the  *)
(* whole message: what the peer may compute.  A word is the set of the     *)
(* numbers of its one bits, 0 the least significant; so is a byte.         *)
(***************************************************************************)
EXTENDS Integers, Sequences, SequencesExt, FiniteSetsExt

VARIABLES
    message,  \* the bytes
    segments, \* the segments left: [address, end], and end counts the message's bytes
    cpu,      \* "software", "i386" or "x86_64"
    crc,      \* the register
    ptr,      \* bytes of the message taken into crc
    peer      \* [crc, ptr] of the peer

crc_vars == <<message, segments, cpu, crc, ptr, peer>>

Xor(x, y) == SymDiff(x, y)
Shifted(x, by) == { i + by : i \in { j \in x : j + by >= 0 } }
AllOnes == 0..31

-----------------------------------------------------------------------------
(* crc32c_software: one byte *)

\* Mutant: the polynomial as it is written in the standards, 0x1EDC6F41.
poly_Unreflected == {0, 6, 8, 9, 10, 11, 13, 14, 18, 19, 20, 22, 23, 25, 26, 27, 28}

\* 0x82F63B78
poly == {3, 4, 5, 6, 8, 9, 11, 12, 13, 17, 18, 20, 21, 22, 23, 25, 31}

\* One turn of the inner loop; the mask is taken before the shift.
SoftwareBit(word) == Xor(Shifted(word, -1), IF 0 \in word THEN poly ELSE {})

\* Turns of it.
SoftwareBits(word, n) ==
    LET turn[i \in Nat] == IF i = 0 THEN word ELSE SoftwareBit(turn[i - 1])
    IN  turn[n]

SoftwareByte(word, byte) == SoftwareBits(Xor(word, byte), 8)

-----------------------------------------------------------------------------
(* The instruction _mm_crc32_u8, u32, u64 as the processor's manual gives  *)
(* it: reflect, append, divide as polynomials, reflect.                    *)

\* A polynomial over GF(2) is the set of its exponents: what is left of p, of
\* at most the given degree, when it is divided by 0x11EDC6F41.
Generator == {0, 6, 8, 9, 10, 11, 13, 14, 18, 19, 20, 22, 23, 25, 26, 27, 28, 32}
Divided(rest, d) == IF d \in rest THEN Xor(rest, Shifted(Generator, d - 32)) ELSE rest
Remainder(p, degree) ==
    LET rest[i \in Nat] == IF i = 0 THEN p ELSE Divided(rest[i - 1], degree + 1 - i)
    IN  rest[degree - 31]

Reflected(x, width) == { width - 1 - i : i \in x }

CrcInstruction(word, value, width) ==
    Reflected(Remainder(Xor(Shifted(Reflected(value, width), 32), Shifted(Reflected(word, 32), width)),
                        width + 31), 32)

\* A little-endian word loaded with memcpy.
Loaded(bytes) == UNION { Shifted(bytes[k], 8 * (k - 1)) : k \in DOMAIN bytes }

-----------------------------------------------------------------------------
CrcInit ==
    /\ message = <<>> /\ segments = <<>> /\ cpu = "none"
    /\ crc = {} /\ ptr = 0 /\ peer = [crc |-> {}, ptr |-> 0]

\* Segments, possibly empty ones, that make up a message of a size.
IsCut(cuts, size) ==
    /\ cuts \in Seq([address : Nat, end : 0..size])
    /\ cuts # <<>> /\ cuts[Len(cuts)].end = size
    /\ \A i \in 1..(Len(cuts) - 1) : cuts[i].end <= cuts[i + 1].end

\* crc32c is called with the segments of a message.
CrcCall(bytes, cuts, kind) ==
    /\ message' = bytes /\ segments' = cuts /\ cpu' = kind
    /\ crc' = AllOnes /\ ptr' = 0 /\ peer' = [crc |-> AllOnes, ptr |-> 0]

Size(segment) == segment.end - ptr

\* The bytes of the next step: one at a time up to a multiple of eight and at
\* the end, between them eight (x86_64) or four at a time.
StepSize(segment) ==
    IF \/ cpu = "software"
       \/ cpu = "x86_64" /\ segment.address % 8 # 0
       \/ Size(segment) < 4
    THEN 1
    ELSE IF cpu = "x86_64" /\ Size(segment) >= 8 THEN 8
    ELSE 4

\* One turn of a loop over the first segment.
CrcStep ==
    /\ segments # <<>> /\ Size(Head(segments)) > 0 /\ peer.ptr = ptr
    /\ LET segment == Head(segments)
           n == StepSize(segment)
       IN  /\ crc' = IF cpu = "software" THEN SoftwareByte(crc, message[ptr + 1])
                     ELSE CrcInstruction(crc, Loaded(SubSeq(message, ptr + 1, ptr + n)), 8 * n)
           /\ ptr' = ptr + n
           /\ segments' = [segments EXCEPT ![1].address = @ + n]
    /\ UNCHANGED <<message, cpu, peer>>

\* Mutant: each segment starts anew.
StartAnew(word) == AllOnes

\* The register the next segment starts with.
Carried(word) == word

NextSegment ==
    /\ segments # <<>> /\ Size(Head(segments)) = 0 /\ peer.ptr = ptr
    /\ segments' = Tail(segments)
    /\ crc' = IF Tail(segments) = <<>> THEN crc ELSE Carried(crc)
    /\ UNCHANGED <<message, cpu, ptr, peer>>

\* The peer has the message in one piece.
PeerByte ==
    /\ peer.ptr < ptr
    /\ peer' = [crc |-> SoftwareByte(peer.crc, message[peer.ptr + 1]), ptr |-> peer.ptr + 1]
    /\ UNCHANGED <<message, segments, cpu, crc, ptr>>

Finished == cpu # "none" /\ segments = <<>> /\ peer.ptr = ptr

CrcReturn ==
    /\ Finished
    /\ message' = <<>> /\ cpu' = "none"
    /\ crc' = {} /\ ptr' = 0 /\ peer' = [crc |-> {}, ptr |-> 0]
    /\ UNCHANGED segments

crc32c == CrcStep \/ NextSegment \/ PeerByte \/ CrcReturn

-----------------------------------------------------------------------------
\* Sender and receiver agree: whatever the processor, the addresses and the
\* cuts between the segments, the register is the software variant's over the
\* same bytes in one piece.  A frame's checksum relies on it, as the sender
\* has one buffer and the receiver the chunks TCP delivered.
VariantsAgree == peer.ptr = ptr => crc = peer.crc

\* The bytes of "zportal".
Zportal == << {1, 3, 4, 5, 6}, {4, 5, 6}, {0, 1, 2, 3, 5, 6}, {1, 4, 5, 6},
              {2, 4, 5, 6}, {0, 5, 6}, {2, 3, 5, 6} >>

\* For the first bytes the register is the remainder of the division that
\* defines a CRC, and the answer of tests/tools/crc_test.cpp:15, 0xa9d08df5,
\* comes out.
CrcIsRemainder ==
    /\ peer.ptr \in 1..6 =>
          LET bits == 8 * peer.ptr
              prefix == Reflected(Loaded(SubSeq(message, 1, peer.ptr)), bits)
          IN  peer.crc = Reflected(Remainder(Xor(Shifted(prefix, 32), Shifted(AllOnes, bits)), bits + 31), 32)
    /\ Finished /\ message = Zportal =>
          Xor(crc, AllOnes) = {0, 2, 4, 5, 6, 7, 8, 10, 11, 15, 20, 22, 23, 24, 27, 29, 31}

=============================================================================
