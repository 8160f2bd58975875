----------------------------- MODULE MCReceiver -----------------------------
(* The receiver on small buffer groups and short streams, for TLC. *)
EXTENDS Receiver

CONSTANTS MaxFrames, Defects

\* The bytes of packet p of the given size, with a defect of the header or of
\* the payload, or "none".
Encoded(p, size, defect) ==
    LET good == FrameBytes(p, size)
        header == good[1]
    IN  CASE defect = "none" -> good
          [] defect = "magic" ->
               HeaderBytes([magic |-> FALSE, size |-> size, crc |-> header.crc])
               \o SubSeq(good, wire_size + 1, wire_size + size)
          [] defect = "size" ->
               HeaderBytes([magic |-> TRUE, size |-> 0, crc |-> header.crc])
               \o SubSeq(good, wire_size + 1, wire_size + size)
          [] defect = "crc" ->
               HeaderBytes(FrameHeader(size, header.crc))
               \o [k \in 1..size |-> PayloadByte(p + MaxFrames, k)]

\* Valid frames of these sizes, one behind the other.
Valid(sizes) == FrameStream(sizes)

\* Up to MaxFrames valid frames whose sizes alternate or stay the same, and,
\* where there are defects, two frames, each valid, defective, or (from a peer
\* with a larger MTU) of more than mtu bytes.
MCWires ==
    { Valid([p \in 1..MaxFrames |-> IF p % 2 = 1 THEN odd ELSE even]) :
        odd \in 1..mtu, even \in 1..mtu }
    \cup IF Defects = {} THEN {} ELSE
    { Encoded(1, first.size, first.defect) \o Encoded(2, second.size, second.defect) :
        first, second \in [size : 1..(mtu + 1), defect : Defects \cup {"none"}] }
=============================================================================
