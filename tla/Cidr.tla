-------------------------------- MODULE Cidr --------------------------------
(***************************************************************************)
(* zportal::Cidr: the arithmetic of networks.  An address is its bits, the *)
(* most significant one first: an IPv4 address is one word, masked at      *)
(* once, an IPv6 address is a sequence of bytes, masked byte by byte.      *)
(***************************************************************************)
EXTENDS Integers

Bits(n) == [0..(n - 1) -> {0, 1}]

\* What SockAddress holds of an IP address.
Ip4 == [family : {"AF_INET"}, bits : Bits(32)]
Ip6 == [family : {"AF_INET6"}, bytes : [0..15 -> Bits(8)]]

Width(family) == IF family = "AF_INET" THEN 32 ELSE 128

\* Bit i of an address, wherever it is kept.
Bit(address, i) ==
    IF address.family = "AF_INET" THEN address.bits[i]
    ELSE address.bytes[i \div 8][i % 8]

-----------------------------------------------------------------------------
\* Cidr's constructor: whether it accepts the prefix (otherwise it throws).
PrefixAccepted(address, prefix) ==
    \/ address.family = "AF_INET" /\ prefix <= 32
    \/ address.family = "AF_INET6" /\ prefix <= 128

Networks == { c \in [address : Ip4 \cup Ip6, prefix : 0..255] :
                PrefixAccepted(c.address, c.prefix) }

And(x, y) == [i \in DOMAIN x |-> IF x[i] = 1 /\ y[i] = 1 THEN 1 ELSE 0]

\* 0xFFFFFFFF << count on a word.  C++ defines it below the width only; the
\* processor takes the count modulo 32.
ShiftedOnes(count) ==
    [i \in 0..31 |-> IF i + (count % 32) < 32 THEN 1 ELSE 0]

\* Mutant: no special case for the empty prefix.
MaskAlwaysShifted(prefix) == ShiftedOnes(32 - prefix)

Mask(prefix) ==
    IF prefix = 0 THEN [i \in 0..31 |-> 0]
    ELSE ShiftedOnes(32 - prefix)

\* The byte 0xFF << (8 - rem_bits), shifted as an int and cut to a byte.
ByteMask(rem_bits) ==
    [i \in 0..7 |-> IF i + (8 - rem_bits) < 8 THEN 1 ELSE 0]

FullBytes(prefix) == prefix \div 8
RemBits(prefix) == prefix % 8

\* The bytes get_network clears, and the one it masks.
Cleared(prefix) ==
    (FullBytes(prefix) + (IF RemBits(prefix) # 0 THEN 1 ELSE 0))..15
Masked(prefix) ==
    IF RemBits(prefix) # 0 /\ FullBytes(prefix) < 16 THEN {FullBytes(prefix)} ELSE {}

\* Cidr::get_network of a valid Cidr.
get_network(c) ==
    IF c.address.family = "AF_INET"
    THEN [c EXCEPT !.address.bits = And(@, Mask(c.prefix))]
    ELSE [c EXCEPT !.address.bytes =
            [b \in 0..15 |->
                IF b \in Masked(c.prefix) THEN And(@[b], ByteMask(RemBits(c.prefix)))
                ELSE IF b \in Cleared(c.prefix) THEN [i \in 0..7 |-> 0]
                ELSE @[b]]]

\* Cidr::is_in_network of a valid Cidr, for an IP address.
is_in_network(c, address) ==
    /\ c.address.family = address.family
    /\ IF c.address.family = "AF_INET"
       THEN And(c.address.bits, Mask(c.prefix)) = And(address.bits, Mask(c.prefix))
       ELSE /\ \A b \in 0..(FullBytes(c.prefix) - 1) : c.address.bytes[b] = address.bytes[b]
            /\ \A b \in Masked(c.prefix) :
                  And(c.address.bytes[b], ByteMask(RemBits(c.prefix)))
                    = And(address.bytes[b], ByteMask(RemBits(c.prefix)))

-----------------------------------------------------------------------------
(* What the two operations are for. *)

\* Two addresses of one family that agree in their first bits.
SamePrefix(x, y, prefix) ==
    /\ x.family = y.family
    /\ \A i \in 0..(prefix - 1) : Bit(x, i) = Bit(y, i)

\* The address of a network: the first bits of c's, then zeros.
IsNetworkOf(n, c) ==
    /\ n.prefix = c.prefix
    /\ n.address.family = c.address.family
    /\ \A i \in 0..(Width(c.address.family) - 1) :
          Bit(n.address, i) = IF i < c.prefix THEN Bit(c.address, i) ELSE 0

=============================================================================
