------------------------------- MODULE Frame -------------------------------
(***************************************************************************)
(* The wire format of zportal::FrameHeader and the bytes of the TCP        *)
(* stream.  A byte is known by what it is part of: byte `at' of a header   *)
(* with given fields, or byte `at' of a packet's payload.  The stream may  *)
(* be cut between any two bytes.                                           *)
(***************************************************************************)
EXTENDS Integers, SequencesExt

\* FrameHeader::wire_size; 16 in the code, any positive number here.
CONSTANT wire_size

ASSUME WireSizeAssumption == wire_size \in Nat \ {0}

\* The bytes a stream may consist of: of a header, or of a packet.
Bytes == [magic : BOOLEAN, size : Nat, crc : Nat \X Nat, at : Nat]
         \cup [packet : Nat, at : Nat]

\* Byte k of the packet with the given id.
PayloadByte(packet, k) == [packet |-> packet, at |-> k]

\* Byte k of a serialised header.  `magic' says whether the magic number is
\* FrameHeader::magic_number; flags are always zero and never read.
HeaderByte(header, k) ==
    [magic |-> header.magic, size |-> header.size, crc |-> header.crc, at |-> k]

\* CRC-32C, taken as collision free on the packets of the model: it tells
\* which packet the bytes are a prefix of and how long that prefix is, and
\* nothing else has the same checksum.  <<0, 0>> is the checksum of bytes that
\* belong to no single packet in order.
crc32c(bytes) ==
    IF /\ bytes # <<>>
       /\ \A k \in 1..Len(bytes) :
             DOMAIN bytes[k] = {"packet", "at"}
             /\ bytes[k] = PayloadByte(bytes[1].packet, k)
    THEN <<bytes[1].packet, Len(bytes)>>
    ELSE <<0, 0>>

\* FrameHeader::FrameHeader, set_size and set_crc.
FrameHeader(size, crc) == [magic |-> TRUE, size |-> size, crc |-> crc]

\* FrameHeader::data().
HeaderBytes(header) == [k \in 1..wire_size |-> HeaderByte(header, k)]

\* Where the field at a byte offset of the 16-byte header of the code lies in
\* a header of wire_size bytes (several fields share a byte below 16).
FieldAt(offset) == 1 + (offset * wire_size) \div 16

\* FrameHeader::get_u32_ on received bytes.  Bytes that are not the field, in
\* its place, read as a value no frame has.
get_u32_(data, offset, field, garbage) ==
    LET byte == data[FieldAt(offset)]
    IN  IF field \in DOMAIN byte /\ byte.at = FieldAt(offset)
        THEN byte[field]
        ELSE garbage

is_magic_valid(data) == get_u32_(data, 0, "magic", FALSE)
get_size(data) == get_u32_(data, 8, "size", 0)
get_crc(data) == get_u32_(data, 12, "crc", <<0, 0>>)

\* Everything the transmitter of one packet puts on the wire.
FrameBytes(packet, size) ==
    LET payload == [k \in 1..size |-> PayloadByte(packet, k)]
    IN  HeaderBytes(FrameHeader(size, crc32c(payload))) \o payload

\* The stream of packets 1, 2, ... of the given sizes.
FrameStream(sizes) ==
    FlattenSeq([p \in DOMAIN sizes |-> FrameBytes(p, sizes[p])])

\* Whether a receiver may have seen exactly these bytes of that stream so far.
IsStreamPrefix(bytes, sizes) == IsPrefix(bytes, FrameStream(sizes))

\* What the frames of a stream mean, from the byte after `from' on, to a receiver
\* whose TUN device has the given MTU: the payloads up to the first frame it
\* must reject, and that frame's error ("None" if there is none or it is not
\* complete yet).
Decoded(bytes, mtu) ==
    LET at[from \in 0..Len(bytes)] ==
          LET header == SubSeq(bytes, from + 1, from + wire_size)
              end == from + wire_size + get_size(header)
              payload == SubSeq(bytes, from + wire_size + 1, end)
              stop(error) == [packets |-> <<>>, error |-> error]
          IN  IF from + wire_size > Len(bytes) THEN stop("None")
              ELSE IF ~is_magic_valid(header) THEN stop("InvalidMagic")
              ELSE IF get_size(header) \notin 1..mtu THEN stop("InvalidSize")
              ELSE IF end > Len(bytes) THEN stop("None")
              ELSE IF crc32c(payload) # get_crc(header) THEN stop("FrameCrcMismatch")
              ELSE [packets |-> <<payload>> \o at[end].packets, error |-> at[end].error]
    IN  at

\* What the whole stream means.
Decode(bytes, mtu) == Decoded(bytes, mtu)[0]

=============================================================================
