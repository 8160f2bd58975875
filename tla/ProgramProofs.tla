--------------------------- MODULE ProgramProofs ---------------------------
(***************************************************************************)
(* Proofs about the program outside a session: the calls of Algorithms     *)
(* (networks, addresses and their texts, the checksum) and Startup's main, *)
(* from the command line to the end of the process.                        *)
(***************************************************************************)
EXTENDS Startup, Algorithms, SequenceTheorems, NaturalsInduction, WellFoundedInduction, TLAPS

-----------------------------------------------------------------------------
(* Networks *)

\* The mask of a word keeps exactly the first prefix bits.
LEMMA MaskKeepsPrefix ==
    ASSUME NEW prefix \in 0..32, NEW i \in 0..31
    PROVE  Mask(prefix)[i] = IF i < prefix THEN 1 ELSE 0
BY SMT DEF Mask, ShiftedOnes

\* Masked words are equal exactly when their first bits are.
LEMMA WordsAgree ==
    ASSUME NEW x \in Bits(32), NEW y \in Bits(32), NEW prefix \in 0..32
    PROVE  And(x, Mask(prefix)) = And(y, Mask(prefix))
             <=> \A i \in 0..(prefix - 1) : x[i] = y[i]
<1>1. /\ And(x, Mask(prefix)) = [i \in 0..31 |-> IF i < prefix /\ x[i] = 1 THEN 1 ELSE 0]
      /\ And(y, Mask(prefix)) = [i \in 0..31 |-> IF i < prefix /\ y[i] = 1 THEN 1 ELSE 0]
    BY MaskKeepsPrefix DEF And, Bits
<1> DEFINE X == [i \in 0..31 |-> IF i < prefix /\ x[i] = 1 THEN 1 ELSE 0]
           Y == [i \in 0..31 |-> IF i < prefix /\ y[i] = 1 THEN 1 ELSE 0]
<1>2. ASSUME X = Y, NEW i \in 0..(prefix - 1) PROVE x[i] = y[i]
    <2>1. X[i] = Y[i]
        BY <1>2
    <2>2. i \in 0..31 /\ i < prefix
        OBVIOUS
    <2> QED BY <2>1, <2>2 DEF Bits
<1>3. ASSUME \A i \in 0..(prefix - 1) : x[i] = y[i] PROVE X = Y
    BY <1>3
<1> QED BY <1>1, <1>2, <1>3

\* The same for the byte that the prefix ends in.
LEMMA BytesAgree ==
    ASSUME NEW x \in Bits(8), NEW y \in Bits(8), NEW rem_bits \in 1..7
    PROVE  And(x, ByteMask(rem_bits)) = And(y, ByteMask(rem_bits))
             <=> \A i \in 0..(rem_bits - 1) : x[i] = y[i]
<1> DEFINE X == [i \in 0..7 |-> IF i < rem_bits /\ x[i] = 1 THEN 1 ELSE 0]
           Y == [i \in 0..7 |-> IF i < rem_bits /\ y[i] = 1 THEN 1 ELSE 0]
<1>1. \A i \in 0..7 : ByteMask(rem_bits)[i] = IF i < rem_bits THEN 1 ELSE 0
    BY DEF ByteMask
<1>2. And(x, ByteMask(rem_bits)) = X /\ And(y, ByteMask(rem_bits)) = Y
    BY <1>1 DEF And, Bits
<1>3. ASSUME X = Y, NEW i \in 0..(rem_bits - 1) PROVE x[i] = y[i]
    <2>1. X[i] = Y[i]
        BY <1>3
    <2>2. i \in 0..7 /\ i < rem_bits
        OBVIOUS
    <2> QED BY <2>1, <2>2 DEF Bits
<1>4. ASSUME \A i \in 0..(rem_bits - 1) : x[i] = y[i] PROVE X = Y
    BY <1>4
<1> QED BY <1>2, <1>3, <1>4

-----------------------------------------------------------------------------
\* is_in_network, for IPv4 and for IPv6, byte loop and masked byte included,
\* compares exactly the first prefix bits, for every prefix from none to all.
THEOREM MembershipIsPrefix ==
    ASSUME NEW c \in Networks, NEW address \in Ip4 \cup Ip6
    PROVE  is_in_network(c, address) <=> SamePrefix(c.address, address, c.prefix)
<1> DEFINE x == c.address
           p == c.prefix
<1>0. /\ x \in Ip4 \cup Ip6 /\ p \in 0..255 /\ PrefixAccepted(x, p)
      /\ x \in Ip4 => x.family = "AF_INET" /\ x.bits \in Bits(32)
      /\ x \in Ip6 => x.family = "AF_INET6" /\ x.bytes \in [0..15 -> Bits(8)]
      /\ address \in Ip4 => address.family = "AF_INET" /\ address.bits \in Bits(32)
      /\ address \in Ip6 => address.family = "AF_INET6" /\ address.bytes \in [0..15 -> Bits(8)]
    BY DEF Networks, Ip4, Ip6
<1>1. CASE x.family # address.family
    BY <1>1 DEF is_in_network, SamePrefix
<1>2. CASE x \in Ip4 /\ address \in Ip4
    <2>1. p \in 0..32
        BY <1>0, <1>2 DEF PrefixAccepted
    <2>2. And(x.bits, Mask(p)) = And(address.bits, Mask(p))
            <=> \A i \in 0..(p - 1) : x.bits[i] = address.bits[i]
        BY <1>0, <1>2, <2>1, WordsAgree
    <2> QED BY <1>0, <1>2, <2>2 DEF is_in_network, SamePrefix, Bit
<1>3. CASE x \in Ip6 /\ address \in Ip6
    <2> DEFINE y == address
               full == FullBytes(p)
               rem == RemBits(p)
    <2>1. /\ p \in 0..128 /\ full \in 0..16 /\ rem \in 0..7 /\ p = 8 * full + rem
          /\ full = 16 => rem = 0
        BY <1>0, <1>3 DEF PrefixAccepted, FullBytes, RemBits
    <2>2. is_in_network(c, y) <=>
            /\ \A b \in 0..(full - 1) : x.bytes[b] = y.bytes[b]
            /\ rem # 0 => And(x.bytes[full], ByteMask(rem)) = And(y.bytes[full], ByteMask(rem))
        BY <1>0, <1>3, <2>1 DEF is_in_network, Masked
    <2>3. \A b \in 0..15 : x.bytes[b] \in Bits(8) /\ y.bytes[b] \in Bits(8)
        BY <1>0, <1>3
    <2>4. \A b \in 0..15 : x.bytes[b] = y.bytes[b]
            <=> \A k \in 0..7 : x.bytes[b][k] = y.bytes[b][k]
        BY <2>3, SMTT(30) DEF Bits
    <2>5. rem # 0 => (And(x.bytes[full], ByteMask(rem)) = And(y.bytes[full], ByteMask(rem))
            <=> \A k \in 0..(rem - 1) : x.bytes[full][k] = y.bytes[full][k])
        <3>1. SUFFICES ASSUME rem # 0
              PROVE  And(x.bytes[full], ByteMask(rem)) = And(y.bytes[full], ByteMask(rem))
                       <=> \A k \in 0..(rem - 1) : x.bytes[full][k] = y.bytes[full][k]
            OBVIOUS
        <3>2. rem \in 1..7 /\ full \in 0..15
            BY <2>1, <3>1
        <3>3. x.bytes[full] \in Bits(8) /\ y.bytes[full] \in Bits(8)
            BY <2>3, <3>2
        <3> HIDE DEF rem, full
        <3> QED BY ONLY <3>2, <3>3, BytesAgree
    <2>6. SamePrefix(x, y, p) <=>
            \A i \in 0..(p - 1) : x.bytes[i \div 8][i % 8] = y.bytes[i \div 8][i % 8]
        BY <1>0, <1>3 DEF SamePrefix, Bit
    <2>7. ASSUME is_in_network(c, y), NEW i \in 0..(p - 1)
          PROVE  x.bytes[i \div 8][i % 8] = y.bytes[i \div 8][i % 8]
        <3>1. /\ i \div 8 \in 0..15 /\ i % 8 \in 0..7
              /\ i \div 8 < full \/ (i \div 8 = full /\ i % 8 < rem)
            BY <2>1
        <3>2. CASE i \div 8 < full
            BY <2>1, <2>2, <2>7, <3>1, <3>2
        <3>3. CASE i \div 8 = full /\ i % 8 < rem
            <4>1. rem # 0 /\ i % 8 \in 0..(rem - 1)
                BY <3>1, <3>3, <2>1
            <4> QED BY <4>1, <2>2, <2>5, <2>7, <3>3
        <3> QED BY <3>1, <3>2, <3>3
    <2>8. ASSUME \A i \in 0..(p - 1) : x.bytes[i \div 8][i % 8] = y.bytes[i \div 8][i % 8]
          PROVE  is_in_network(c, y)
        <3>1. ASSUME NEW b \in 0..15, NEW k \in 0..7, 8 * b + k < p
              PROVE  x.bytes[b][k] = y.bytes[b][k]
            <4>1. 8 * b + k \in 0..(p - 1) /\ (8 * b + k) \div 8 = b /\ (8 * b + k) % 8 = k
                BY <3>1, <2>1, SMTT(30)
            <4> QED BY <4>1, <2>8
        <3>2. ASSUME NEW b \in 0..(full - 1) PROVE x.bytes[b] = y.bytes[b]
            <4>1. b \in 0..15 /\ \A k \in 0..7 : 8 * b + k < p
                <5> HIDE DEF full, rem, p
                <5> QED BY <2>1
            <4>2. \A k \in 0..7 : x.bytes[b][k] = y.bytes[b][k]
                BY ONLY <4>1, <3>1
            <4> QED BY ONLY <4>1, <4>2, <2>4
        <3>3. ASSUME rem # 0, NEW k \in 0..(rem - 1) PROVE x.bytes[full][k] = y.bytes[full][k]
            <4>1. full \in 0..15 /\ k \in 0..7 /\ 8 * full + k < p
                <5> HIDE DEF full, rem, p
                <5> QED BY <2>1, <3>3
            <4> QED BY ONLY <4>1, <3>1
        <3> QED BY <2>2, <2>5, <3>2, <3>3
    <2> QED BY <2>6, <2>7, <2>8
<1> QED BY <1>0, <1>1, <1>2, <1>3

\* get_network keeps the first prefix bits and clears all others.
THEOREM NetworkIsPrefix ==
    ASSUME NEW c \in Networks
    PROVE  get_network(c) \in Networks /\ IsNetworkOf(get_network(c), c)
<1> DEFINE x == c.address
           p == c.prefix
           n == get_network(c)
<1>0. /\ c \in [address : Ip4 \cup Ip6, prefix : 0..255]
      /\ x \in Ip4 \cup Ip6 /\ p \in 0..255 /\ PrefixAccepted(x, p)
      /\ x \in Ip4 => x.family = "AF_INET" /\ x.bits \in Bits(32)
      /\ x \in Ip6 => x.family = "AF_INET6" /\ x.bytes \in [0..15 -> Bits(8)]
    BY DEF Networks, Ip4, Ip6
<1>1. CASE x \in Ip4
    <2>1. p \in 0..32
        BY <1>0, <1>1 DEF PrefixAccepted
    <2>2. n = [c EXCEPT !.address.bits = And(x.bits, Mask(p))]
        BY <1>0, <1>1 DEF get_network
    <2>3. And(x.bits, Mask(p)) = [i \in 0..31 |-> IF i < p THEN x.bits[i] ELSE 0]
        <3>1. \A i \in 0..31 : (IF x.bits[i] = 1 /\ Mask(p)[i] = 1 THEN 1 ELSE 0)
                                 = (IF i < p THEN x.bits[i] ELSE 0)
            BY <1>0, <1>1, <2>1, MaskKeepsPrefix, SMTT(30) DEF Bits
        <3> QED BY <1>0, <1>1, <3>1 DEF And, Bits
    <2>4. /\ n.prefix = p /\ n.address.family = "AF_INET"
          /\ n.address = [family |-> "AF_INET", bits |-> And(x.bits, Mask(p))]
          /\ n = [address |-> n.address, prefix |-> p]
        BY <1>0, <1>1, <2>2 DEF Ip4
    <2>5. And(x.bits, Mask(p)) \in Bits(32)
        BY <1>0, <1>1, <2>3 DEF Bits
    <2>6. n \in Networks
        BY <1>0, <1>1, <2>1, <2>4, <2>5 DEF Networks, Ip4, PrefixAccepted
    <2>7. \A i \in 0..31 : Bit(n.address, i) = IF i < p THEN Bit(x, i) ELSE 0
        BY <1>0, <1>1, <2>3, <2>4 DEF Bit
    <2> QED BY <1>0, <1>1, <2>4, <2>6, <2>7 DEF IsNetworkOf, Width
<1>2. CASE x \in Ip6
    <2> DEFINE full == FullBytes(p)
               rem == RemBits(p)
               Byte(b) == IF b \in Masked(p) THEN And(x.bytes[b], ByteMask(rem))
                          ELSE IF b \in Cleared(p) THEN [i \in 0..7 |-> 0]
                          ELSE x.bytes[b]
    <2>1. /\ p \in 0..128 /\ full \in 0..16 /\ rem \in 0..7 /\ p = 8 * full + rem
          /\ full = 16 => rem = 0
        BY <1>0, <1>2 DEF PrefixAccepted, FullBytes, RemBits
    <2>2. n = [c EXCEPT !.address.bytes = [b \in 0..15 |-> Byte(b)]]
        BY <1>0, <1>2 DEF get_network
    <2>3. /\ n.prefix = p /\ n.address.family = "AF_INET6"
          /\ n.address = [family |-> "AF_INET6", bytes |-> [b \in 0..15 |-> Byte(b)]]
          /\ n = [address |-> n.address, prefix |-> p]
        BY <1>0, <1>2, <2>2, ZenonT(40) DEF Ip6
    <2>4. ASSUME NEW b \in 0..15
          PROVE  /\ Byte(b) \in Bits(8)
                 /\ \A k \in 0..7 : Byte(b)[k] = IF 8 * b + k < p THEN x.bytes[b][k] ELSE 0
        <3>0. x.bytes[b] \in Bits(8)
            BY <1>0, <1>2
        <3>1. CASE b < full
            <4>1. b \notin Masked(p) /\ b \notin Cleared(p)
                BY <2>1, <3>1 DEF Masked, Cleared
            <4>2. \A k \in 0..7 : 8 * b + k < p
                BY <2>1, <3>1
            <4> QED BY <3>0, <4>1, <4>2
        <3>2. CASE b = full /\ rem # 0
            <4>1. b \in Masked(p) /\ rem \in 1..7
                BY <2>1, <3>2 DEF Masked
            <4>2. \A k \in 0..7 : ByteMask(rem)[k] = IF k < rem THEN 1 ELSE 0
                BY <4>1 DEF ByteMask
            <4>3. \A k \in 0..7 : 8 * b + k < p <=> k < rem
                BY <2>1, <3>2
            <4>4. Byte(b) = [k \in 0..7 |-> IF x.bytes[b][k] = 1 /\ ByteMask(rem)[k] = 1 THEN 1 ELSE 0]
                BY <3>0, <4>1 DEF And, Bits
            <4> HIDE DEF Byte, full, rem
            <4> QED BY <3>0, <4>2, <4>3, <4>4 DEF Bits
        <3>3. CASE b > full \/ (b = full /\ rem = 0)
            <4>1. b \notin Masked(p) /\ b \in Cleared(p)
                BY <2>1, <3>3 DEF Masked, Cleared
            <4>2. \A k \in 0..7 : ~(8 * b + k < p)
                BY <2>1, <3>3
            <4>3. Byte(b) = [i \in 0..7 |-> 0]
                BY <4>1
            <4> QED BY <4>2, <4>3 DEF Bits
        <3> QED BY <2>1, <3>1, <3>2, <3>3
    <2>5. n \in Networks
        <3>1. [b \in 0..15 |-> Byte(b)] \in [0..15 -> Bits(8)]
            BY <2>4
        <3> QED BY <1>0, <1>2, <2>1, <2>3, <3>1, SMTT(30) DEF Networks, Ip6, PrefixAccepted
    <2>6. ASSUME NEW i \in 0..127
          PROVE  Bit(n.address, i) = IF i < p THEN Bit(x, i) ELSE 0
        <3>1. i \div 8 \in 0..15 /\ i % 8 \in 0..7 /\ i = 8 * (i \div 8) + (i % 8)
            OBVIOUS
        <3>2. Bit(n.address, i) = Byte(i \div 8)[i % 8] /\ Bit(x, i) = x.bytes[i \div 8][i % 8]
            BY <1>0, <1>2, <2>3, <3>1 DEF Bit
        <3> HIDE DEF Byte
        <3> QED BY <2>4, <3>1, <3>2
    <2>7. Width(x.family) = 128
        BY <1>0, <1>2 DEF Width
    <2>8. IsNetworkOf(n, c)
        <3>1. n.prefix = p /\ n.address.family = x.family
            BY <1>0, <1>2, <2>3
        <3>2. \A i \in 0..(Width(x.family) - 1) : Bit(n.address, i) = IF i < p THEN Bit(x, i) ELSE 0
            BY <2>6, <2>7
        <3> HIDE DEF n
        <3> QED BY <3>1, <3>2 DEF IsNetworkOf
    <2> QED BY <2>5, <2>8
<1> QED BY <1>0, <1>1, <1>2

\* An address is in a network exactly when it is in its canonical form.
THEOREM NetworkHasSameMembers ==
    ASSUME NEW c \in Networks, NEW address \in Ip4 \cup Ip6
    PROVE  is_in_network(get_network(c), address) <=> is_in_network(c, address)
<1> DEFINE n == get_network(c)
<1>1. n \in Networks /\ IsNetworkOf(n, c)
    BY NetworkIsPrefix
<1>2. /\ c.prefix \in 0..255 /\ c.prefix <= Width(c.address.family)
      /\ n.prefix = c.prefix /\ n.address.family = c.address.family
      /\ \A i \in 0..(Width(c.address.family) - 1) :
            Bit(n.address, i) = IF i < c.prefix THEN Bit(c.address, i) ELSE 0
    BY <1>1 DEF Networks, IsNetworkOf, PrefixAccepted, Width
<1>3. Width(c.address.family) \in {32, 128}
    BY DEF Width
<1>4. \A i \in 0..(c.prefix - 1) : Bit(n.address, i) = Bit(c.address, i)
    BY <1>2, <1>3
<1>5. SamePrefix(n.address, address, n.prefix) <=> SamePrefix(c.address, address, c.prefix)
    BY <1>2, <1>4 DEF SamePrefix
<1> QED BY <1>1, <1>5, MembershipIsPrefix

-----------------------------------------------------------------------------
(* Calls *)

\* The CIDRs of the calls are networks.
LEMMA CidrIsNetwork ==
    ASSUME NEW x \in Ip4Addresses \cup Ip6Addresses, NEW prefix \in 0..128,
           PrefixAccepted(x, prefix)
    PROVE  CidrOf(x, prefix) \in Networks
<1>1. x \in Ip4 \cup Ip6
    BY AddressesAssumption
<1>2. prefix \in 0..255
    OBVIOUS
<1> QED BY <1>1, <1>2 DEF CidrOf, Networks

\* In every reachable state, what is_in_network and get_network returned is
\* what the prefix says (cidr.cpp:53-180), whatever the addresses.
THEOREM CidrCallsExact == CallsSpec => []CidrExact
<1>1. CallsInit => CidrExact
    BY DEF CallsInit, None, CidrExact
<1>2. CidrExact /\ [CallsNext]_calls_vars => CidrExact'
    <2> SUFFICES ASSUME CidrExact, [CallsNext]_calls_vars PROVE CidrExact'
        OBVIOUS
    <2>1. CASE IsInNetwork
        <3>1. PICK x \in Ip4Addresses \cup Ip6Addresses, y \in Ip4Addresses \cup Ip6Addresses,
                   prefix \in 0..128 :
                 /\ PrefixAccepted(x, prefix)
                 /\ call' = [op |-> "is_in_network", cidr |-> CidrOf(x, prefix), other |-> y]
                 /\ result' = is_in_network(CidrOf(x, prefix), y)
            BY <2>1 DEF IsInNetwork, Calls
        <3> DEFINE c == CidrOf(x, prefix)
        <3>2. c \in Networks /\ y \in Ip4 \cup Ip6
            BY <3>1, CidrIsNetwork, AddressesAssumption
        <3>3. /\ is_in_network(c, y) <=> SamePrefix(c.address, y, c.prefix)
              /\ is_in_network(get_network(c), y) <=> is_in_network(c, y)
            BY <3>2, MembershipIsPrefix, NetworkHasSameMembers
        <3>4. /\ is_in_network(c, y) \in BOOLEAN /\ SamePrefix(c.address, y, c.prefix) \in BOOLEAN
              /\ is_in_network(get_network(c), y) \in BOOLEAN
            BY DEF is_in_network, SamePrefix
        <3>5. /\ is_in_network(c, y) = SamePrefix(c.address, y, c.prefix)
              /\ is_in_network(c, y) = is_in_network(get_network(c), y)
            BY <3>3, <3>4
        <3>6. call'.op = "is_in_network" /\ call'.cidr = c /\ call'.other = y
            BY <3>1
        <3> QED BY <3>1, <3>5, <3>6 DEF CidrExact
    <2>2. CASE GetNetwork
        <3>1. PICK x \in Ip4Addresses \cup Ip6Addresses, prefix \in 0..128 :
                 /\ PrefixAccepted(x, prefix)
                 /\ call' = [op |-> "get_network", cidr |-> CidrOf(x, prefix)]
                 /\ result' = get_network(CidrOf(x, prefix))
            BY <2>2 DEF GetNetwork, Calls
        <3>2. IsNetworkOf(get_network(CidrOf(x, prefix)), CidrOf(x, prefix))
            BY <3>1, CidrIsNetwork, NetworkIsPrefix
        <3> QED BY <3>1, <3>2 DEF CidrExact
    <2>3. CASE ParseAddress \/ GetRemoteAddress
        BY <2>3 DEF ParseAddress, GetRemoteAddress, Calls, CidrExact
    <2>4. CASE Return
        BY <2>4 DEF Return, None, CidrExact
    <2>5. CASE Checksum \/ (crc32c /\ UNCHANGED <<call, result>>) \/ UNCHANGED calls_vars
        BY <2>5 DEF Checksum, calls_vars, CidrExact
    <2> QED BY <2>1, <2>2, <2>3, <2>4, <2>5 DEF CallsNext
<1> QED BY <1>1, <1>2, PTL DEF CallsSpec

-----------------------------------------------------------------------------
(* Addresses and their texts *)

\* Any strings; the literals are named as the provers do not know that they are some.
Pieces == STRING \cup {"unix", "unixa", ":", "[", "]", "NUL", "hex", "1.2.3.4", "fe::1",
                       "0", "80", "65535", "65536", "99999"}

\* Every port of the model has one text, and Digits finds it.
LEMMA PortTexts ==
    /\ DOMAIN Ports = {"0", "80", "65535", "65536", "99999"}
    /\ \A p \in DOMAIN Ports : Ports[p] \in Nat /\ Digits(Ports[p]) = p
<1>1. DOMAIN Ports = {"0", "80", "65535", "65536", "99999"}
    BY DEF Ports
<1>2. /\ Ports["0"] = 0 /\ Ports["80"] = 80 /\ Ports["65535"] = 65535
      /\ Ports["65536"] = 65536 /\ Ports["99999"] = 99999
    BY DEF Ports
<1>3. ASSUME NEW p \in DOMAIN Ports PROVE Ports[p] \in Nat /\ Digits(Ports[p]) = p
    <2>1. \A q \in DOMAIN Ports : Ports[q] = Ports[p] => q = p
        BY <1>1, <1>2
    <2>2. Digits(Ports[p]) \in DOMAIN Ports /\ Ports[Digits(Ports[p])] = Ports[p]
        BY DEF Digits
    <2> QED BY <1>1, <1>2, <2>1, <2>2
<1> QED BY <1>1, <1>3

\* A text is not what a call that throws returns.
LEMMA TextNotThrown ==
    ASSUME NEW s \in Seq(Pieces), Len(s) >= 2
    PROVE  s # Thrown
<1> SUFFICES ASSUME s = Thrown PROVE FALSE
    OBVIOUS
<1>1. DOMAIN s = {"is"}
    BY DEF Thrown
<1>2. 1 \in DOMAIN s /\ 2 \in DOMAIN s
    BY LenProperties
<1> QED BY <1>1, <1>2

\* A scheme, a colon and a name make a text whose parts can be told apart.
LEMMA SchemeAndName ==
    ASSUME NEW scheme \in Pieces, NEW name \in Seq(Pieces)
    PROVE  LET text == <<scheme, ":">> \o name
           IN  /\ text \in Seq(Pieces) /\ Len(text) = Len(name) + 2
               /\ text[1] = scheme /\ text[2] = ":"
               /\ \A i \in 1..Len(name) : text[i + 2] = name[i]
               /\ SubSeq(text, 3, Len(text)) = name
<1> DEFINE front == <<scheme, ":">>
           text == front \o name
           rest == SubSeq(text, 3, Len(text))
<1>1. front \in Seq(Pieces) /\ Len(front) = 2 /\ front[1] = scheme /\ front[2] = ":"
    BY DEF Pieces
<1>2. /\ text \in Seq(Pieces)
      /\ Len(text) = 2 + Len(name)
      /\ \A i \in 1..(2 + Len(name)) : text[i] = IF i <= 2 THEN front[i] ELSE name[i - 2]
    BY <1>1, ConcatProperties
<1>3. Len(name) \in Nat
    BY LenProperties
<1>4. \A i \in 1..Len(name) : text[i + 2] = name[i]
    BY <1>2, <1>3
<1>5. \A i \in 3..Len(text) : text[i] \in Pieces
    BY <1>2, <1>3, ElementOfSeq
<1>6. /\ rest \in Seq(Pieces)
      /\ Len(rest) = IF 3 <= Len(text) THEN Len(text) - 3 + 1 ELSE 0
      /\ \A i \in 1..(Len(text) - 3 + 1) : rest[i] = text[3 + i - 1]
    BY <1>2, <1>3, <1>5, SubSeqProperties
<1>7. Len(rest) = Len(name) /\ \A i \in 1..Len(name) : rest[i] = name[i]
    BY <1>2, <1>3, <1>4, <1>6
<1>8. rest = name
    BY <1>6, <1>7, SeqEqual
<1> QED BY <1>1, <1>2, <1>3, <1>4, <1>8

\* The address of a name that fits into sun_path begins with the name.
LEMMA UnixHolds ==
    ASSUME NEW bytes \in Seq(Pieces), Len(bytes) <= PathSize, NEW length
    PROVE  LET a == Unix(bytes, length)
           IN  /\ a.is = "SockAddress" /\ a.family = "AF_UNIX" /\ a.length = length
               /\ \A i \in 1..Len(bytes) : a.sun_path[i] = bytes[i]
               /\ \A i \in (Len(bytes) + 1)..PathSize : a.sun_path[i] = "NUL"
               /\ \A i \in 1..PathSize : a.sun_path[i] \in Pieces
<1> DEFINE zeros == Zeros(PathSize)
           long == bytes \o zeros
           path == SubSeq(long, 1, PathSize)
<1>1. PathSize \in Nat /\ Len(bytes) \in Nat
    BY PathSizeAssumption, LenProperties
<1>2. zeros \in Seq(Pieces) /\ Len(zeros) = PathSize /\ \A i \in 1..PathSize : zeros[i] = "NUL"
    <2>1. "NUL" \in Pieces
        BY DEF Pieces
    <2>2. zeros \in [1..PathSize -> Pieces]
        BY <2>1 DEF Zeros
    <2> QED BY <1>1, <2>2, LenProperties, SeqDef DEF Zeros
<1>3. /\ long \in Seq(Pieces) /\ Len(long) = Len(bytes) + PathSize
      /\ \A i \in 1..(Len(bytes) + PathSize) :
             long[i] = IF i <= Len(bytes) THEN bytes[i] ELSE zeros[i - Len(bytes)]
    BY <1>2, ConcatProperties
<1>4. \A i \in 1..PathSize : long[i] \in Pieces
    BY <1>1, <1>3, ElementOfSeq
<1>5. \A i \in 1..PathSize : path[i] = long[i]
    <2> HIDE DEF long
    <2>1. \A i \in 1..(PathSize - 1 + 1) : path[i] = long[1 + i - 1]
        BY <1>1, <1>4, SubSeqProperties
    <2> QED BY <1>1, <2>1
<1>6. /\ \A i \in 1..Len(bytes) : path[i] = bytes[i]
      /\ \A i \in (Len(bytes) + 1)..PathSize : path[i] = "NUL"
      /\ \A i \in 1..PathSize : path[i] \in Pieces
    BY <1>1, <1>2, <1>3, <1>4, <1>5
<1> HIDE DEF path
<1>7. Unix(bytes, length) = [is |-> "SockAddress", family |-> "AF_UNIX", length |-> length, sun_path |-> path]
    BY DEF Unix, path, long, zeros
<1> QED BY <1>6, <1>7

\* The bytes str prints of a name in sun_path are the name.
LEMMA PrintedName ==
    ASSUME NEW path, NEW name \in Seq(Pieces), NEW from \in 1..2,
           \A i \in 1..Len(name) : path[from + i - 1] = name[i]
    PROVE  SubSeq(path, from, from + Len(name) - 1) = name
<1> DEFINE part == SubSeq(path, from, from + Len(name) - 1)
<1>1. Len(name) \in Nat /\ \A i \in 1..Len(name) : name[i] \in Pieces
    BY LenProperties, ElementOfSeq
<1>2. \A i \in from..(from + Len(name) - 1) : path[i] \in Pieces
    <2> SUFFICES ASSUME NEW i \in from..(from + Len(name) - 1) PROVE path[i] \in Pieces
        OBVIOUS
    <2>1. i - from + 1 \in 1..Len(name) /\ from + (i - from + 1) - 1 = i
        BY <1>1
    <2> QED BY <1>1, <2>1
<1>3. /\ part \in Seq(Pieces)
      /\ Len(part) = IF from <= from + Len(name) - 1 THEN from + Len(name) - 1 - from + 1 ELSE 0
      /\ \A i \in 1..(from + Len(name) - 1 - from + 1) : part[i] = path[from + i - 1]
    BY <1>1, <1>2, SubSeqProperties
<1>4. Len(part) = Len(name) /\ \A i \in 1..Len(name) : part[i] = name[i]
    BY <1>1, <1>3
<1> QED BY <1>3, <1>4, SeqEqual

\* A path that unix_path takes is printed as it was given and taken again.
LEMMA PathReturns ==
    ASSUME NEW path \in Seq(Pieces), path # <<>>, unix_path(path) # Thrown
    PROVE  LET a == unix_path(path)
           IN  /\ a.is = "SockAddress" /\ is_valid(a)
               /\ to_string(a) = <<"unix", ":">> \o path
               /\ parse_address(to_string(a)) = a
<1> DEFINE n == Len(path)
           a == Unix(path, offsetof_sun_path + n + 1)
           text == <<"unix", ":">> \o path
<1>1. n \in Nat \ {0} /\ PathSize \in Nat
    BY LenProperties, EmptySeq, PathSizeAssumption
<1>2. n <= PathSize - 1 /\ ~IsBinary(path) /\ unix_path(path) = a
    BY <1>1 DEF unix_path
<1>3. /\ a.is = "SockAddress" /\ a.family = "AF_UNIX" /\ a.length = offsetof_sun_path + n + 1
      /\ \A i \in 1..n : a.sun_path[i] = path[i]
    BY <1>1, <1>2, UnixHolds
<1> HIDE DEF a
<1>4. 1 \in DOMAIN path /\ DOMAIN path = 1..n
    BY <1>1, LenProperties
<1>5. path[1] # "NUL"
    BY <1>2, <1>4 DEF IsBinary, Unprintable
<1>6. ~is_abstract(a)
    BY <1>1, <1>3, <1>5 DEF is_abstract
<1>7. is_valid(a)
    BY <1>1, <1>2, <1>3, <1>6 DEF is_valid, sizeof_sockaddr_un, offsetof_sun_path
<1>8. PrintedFrom(a) = 1 /\ PrintedSize(a) = n /\ Scheme(a) = "unix"
    BY <1>1, <1>3, <1>6 DEF PrintedFrom, PrintedSize, Scheme, offsetof_sun_path
<1>9. SubSeq(a.sun_path, 1, 1 + n - 1) = path
    <2>1. \A i \in 1..n : a.sun_path[1 + i - 1] = path[i]
        BY <1>1, <1>3
    <2> QED BY <2>1, PrintedName
<1>10. str(a) = text
    BY <1>2, <1>3, <1>6, <1>7, <1>8, <1>9 DEF str
<1>11. to_string(a) = text
    BY <1>3, <1>10 DEF to_string
<1>12. /\ text \in Seq(Pieces) /\ Len(text) = n + 2
       /\ text[1] = "unix" /\ text[2] = ":"
       /\ \A i \in 1..n : text[i + 2] = path[i]
       /\ SubSeq(text, 3, Len(text)) = path
    <2>1. "unix" \in Pieces
        BY DEF Pieces
    <2> QED BY <2>1, SchemeAndName
<1> HIDE DEF text
<1>13. \A i \in 3..Len(text) : text[i] \notin {"newline", "padded"}
    <2> SUFFICES ASSUME NEW i \in 3..Len(text) PROVE text[i] \notin {"newline", "padded"}
        OBVIOUS
    <2>1. i - 2 \in 1..n /\ text[i] = path[i - 2]
        <3>1. i - 2 \in 1..n /\ (i - 2) + 2 = i
            BY <1>1, <1>12
        <3> QED BY <3>1, <1>12
    <2> QED BY <1>2, <1>4, <2>1 DEF IsBinary, Unprintable
<1>14. re_unix(text, "unix")
    BY <1>1, <1>12, <1>13 DEF re_unix
<1>15. parse_address(text) = unix_path(path)
    BY <1>12, <1>14 DEF parse_address
<1> QED BY <1>2, <1>3, <1>7, <1>11, <1>15 DEF text

\* So is an abstract name, unless it is printed in hexadecimal.
LEMMA NameReturns ==
    ASSUME NEW name \in Seq(Pieces), name # <<>>, unix_abstract(name) # Thrown
    PROVE  LET a == unix_abstract(name)
           IN  /\ a.is = "SockAddress" /\ is_valid(a)
               /\ to_string(a) = <<"unixa", ":">> \o (IF IsBinary(name) THEN <<"hex">> ELSE name)
               /\ IsBinary(name) \/ parse_address(to_string(a)) = a
<1> DEFINE n == Len(name)
           bytes == <<"NUL">> \o name
           a == Unix(bytes, offsetof_sun_path + 1 + n)
           text == <<"unixa", ":">> \o name
<1>1. n \in Nat \ {0} /\ PathSize \in Nat
    BY LenProperties, EmptySeq, PathSizeAssumption
<1>2. n <= PathSize - 1 /\ unix_abstract(name) = a
    BY <1>1 DEF unix_abstract
<1>3. /\ bytes \in Seq(Pieces) /\ Len(bytes) = n + 1 /\ bytes[1] = "NUL"
      /\ \A i \in 1..n : bytes[i + 1] = name[i]
    <2>1. <<"NUL">> \in Seq(Pieces) /\ Len(<<"NUL">>) = 1 /\ <<"NUL">>[1] = "NUL"
        BY DEF Pieces
    <2>2. /\ bytes \in Seq(Pieces) /\ Len(bytes) = 1 + n
          /\ \A i \in 1..(1 + n) : bytes[i] = IF i <= 1 THEN <<"NUL">>[i] ELSE name[i - 1]
        BY <2>1, ConcatProperties
    <2> QED BY <1>1, <2>1, <2>2
<1> HIDE DEF bytes
<1>4. /\ a.is = "SockAddress" /\ a.family = "AF_UNIX" /\ a.length = offsetof_sun_path + 1 + n
      /\ \A i \in 1..Len(bytes) : a.sun_path[i] = bytes[i]
    BY <1>1, <1>2, <1>3, UnixHolds
<1> HIDE DEF a
<1>5. /\ a.sun_path[1] = "NUL"
      /\ \A i \in 1..n : a.sun_path[2 + i - 1] = name[i]
    <2>1. a.sun_path[1] = "NUL"
        BY <1>1, <1>3, <1>4
    <2>2. ASSUME NEW i \in 1..n PROVE a.sun_path[2 + i - 1] = name[i]
        <3>1. i + 1 \in 1..Len(bytes) /\ 2 + i - 1 = i + 1
            BY <1>1, <1>3
        <3> QED BY <1>3, <1>4, <3>1
    <2> QED BY <2>1, <2>2
<1>6. is_abstract(a)
    BY <1>5 DEF is_abstract
<1>7. is_valid(a)
    BY <1>1, <1>2, <1>4, <1>6 DEF is_valid, sizeof_sockaddr_un, offsetof_sun_path
<1>8. PrintedFrom(a) = 2 /\ PrintedSize(a) = n /\ Scheme(a) = "unixa"
    BY <1>1, <1>4, <1>6 DEF PrintedFrom, PrintedSize, Scheme, offsetof_sun_path
<1>9. SubSeq(a.sun_path, 2, 2 + n - 1) = name
    BY <1>5, PrintedName
<1>10. str(a) = <<"unixa", ":">> \o (IF IsBinary(name) THEN <<"hex">> ELSE name)
    BY <1>4, <1>6, <1>7, <1>8, <1>9 DEF str
<1>11. to_string(a) = str(a)
    BY <1>4 DEF to_string
<1>12. ASSUME ~IsBinary(name) PROVE parse_address(text) = unix_abstract(name)
    <2>1. /\ text \in Seq(Pieces) /\ Len(text) = n + 2
          /\ text[1] = "unixa" /\ text[2] = ":"
          /\ \A i \in 1..n : text[i + 2] = name[i]
          /\ SubSeq(text, 3, Len(text)) = name
        <3>1. "unixa" \in Pieces
            BY DEF Pieces
        <3> QED BY <3>1, SchemeAndName
    <2> HIDE DEF text
    <2>2. DOMAIN name = 1..n
        BY LenProperties
    <2>3. \A i \in 3..Len(text) : text[i] \notin {"newline", "padded"}
        <3> SUFFICES ASSUME NEW i \in 3..Len(text) PROVE text[i] \notin {"newline", "padded"}
            OBVIOUS
        <3>1. i - 2 \in 1..n /\ (i - 2) + 2 = i
            BY <1>1, <2>1
        <3>2. text[i] = name[i - 2]
            BY <2>1, <3>1
        <3> QED BY <1>12, <2>2, <3>1, <3>2 DEF IsBinary, Unprintable
    <2>4. re_unix(text, "unixa") /\ ~re_unix(text, "unix")
        BY <1>1, <2>1, <2>3 DEF re_unix
    <2> QED BY <2>1, <2>4 DEF parse_address
<1> QED BY <1>2, <1>4, <1>7, <1>10, <1>11, <1>12
\* What stands before the port of a text.
LEMMA HostPart ==
    ASSUME NEW text \in Seq(Pieces), EndsInPort(text)
    PROVE  /\ Len(text) \in Nat /\ Len(text) >= 3
           /\ BeforePort(text) \in Seq(Pieces) /\ Len(BeforePort(text)) = Len(text) - 2
           /\ \A i \in 1..(Len(text) - 2) : BeforePort(text)[i] = text[i]
<1>1. Len(text) \in Nat /\ Len(text) >= 3
    BY LenProperties DEF EndsInPort
<1>2. \A i \in 1..(Len(text) - 2) : text[i] \in Pieces
    BY <1>1, ElementOfSeq
<1>3. /\ BeforePort(text) \in Seq(Pieces)
      /\ Len(BeforePort(text)) = IF 1 <= Len(text) - 2 THEN Len(text) - 2 - 1 + 1 ELSE 0
      /\ \A i \in 1..(Len(text) - 2 - 1 + 1) : BeforePort(text)[i] = text[1 + i - 1]
    BY <1>1, <1>2, SubSeqProperties DEF BeforePort
<1>4. \A i \in 1..(Len(text) - 2) : BeforePort(text)[i] = text[i]
    BY <1>1, <1>3
<1> QED BY <1>1, <1>3, <1>4

\* The port at the end of a text.
LEMMA PortPart ==
    ASSUME NEW text, EndsInPort(text)
    PROVE  /\ Ports[text[Len(text)]] \in Nat
           /\ Port(text) # -1 => Port(text) = Ports[text[Len(text)]] /\ Port(text) <= 65535
           /\ Port(text) = -1 <=> Ports[text[Len(text)]] > 65535
<1>1. text[Len(text)] \in DOMAIN Ports
    BY DEF EndsInPort
<1>2. Ports[text[Len(text)]] \in Nat
    BY <1>1, PortTexts
<1> QED BY <1>2 DEF Port

\* A host name with a port is printed as it was given, and taken again.
LEMMA HostReturns ==
    ASSUME NEW text \in Seq(Pieces), re_host(text), Port(text) # -1,
           ~re_unix(text, "unix"), ~re_unix(text, "unixa")
    PROVE  LET a == HostPair(BeforePort(text), Port(text))
           IN  /\ to_string(a) # Thrown
               /\ parse_address(to_string(a)) = a
<1> DEFINE host == BeforePort(text)
           port == Port(text)
           a == HostPair(host, port)
           back == <<":", Digits(port)>>
           again == host \o back
<1>1. EndsInPort(text)
    BY DEF re_host
<1>2. /\ Len(text) \in Nat /\ Len(text) >= 3
      /\ host \in Seq(Pieces) /\ Len(host) = Len(text) - 2
      /\ \A i \in 1..(Len(text) - 2) : host[i] = text[i]
      /\ port = Ports[text[Len(text)]] /\ port <= 65535
    <2>1. port = Ports[text[Len(text)]] /\ port <= 65535
        BY <1>1, PortPart
    <2>2. /\ Len(text) \in Nat /\ Len(text) >= 3
          /\ host \in Seq(Pieces) /\ Len(host) = Len(text) - 2
          /\ \A i \in 1..(Len(text) - 2) : host[i] = text[i]
        BY <1>1, HostPart
    <2> QED BY <2>1, <2>2
<1>3. text[Len(text)] \in DOMAIN Ports /\ text[Len(text) - 1] = ":"
    BY <1>1 DEF EndsInPort
<1>4. Digits(port) = text[Len(text)]
    BY <1>2, <1>3, PortTexts
<1>5. again = text
    <2>1. back \in Seq(Pieces) /\ Len(back) = 2 /\ back[1] = ":" /\ back[2] = text[Len(text)]
        BY <1>3, <1>4, PortTexts DEF Pieces
    <2> HIDE DEF back, host
    <2>2. /\ again \in Seq(Pieces) /\ Len(again) = Len(host) + 2
          /\ \A i \in 1..(Len(host) + 2) :
                 again[i] = IF i <= Len(host) THEN host[i] ELSE back[i - Len(host)]
        <3>0. host \in Seq(Pieces) /\ back \in Seq(Pieces)
            BY <1>2, <2>1
        <3>1. /\ again \in Seq(Pieces) /\ Len(again) = Len(host) + Len(back)
              /\ \A i \in 1..(Len(host) + Len(back)) :
                     again[i] = IF i <= Len(host) THEN host[i] ELSE back[i - Len(host)]
            BY <3>0, ConcatProperties
        <3> HIDE DEF again
        <3> QED BY <2>1, <3>1
    <2> HIDE DEF again
    <2>3. ASSUME NEW i \in 1..Len(text) PROVE again[i] = text[i]
        <3>1. CASE i \in 1..(Len(text) - 2)
            BY <1>2, <2>2, <3>1
        <3>2. CASE i = Len(text) - 1
            <4>1. i \in 1..(Len(host) + 2) /\ ~(i <= Len(host)) /\ i - Len(host) = 1
                BY <1>2, <3>2
            <4> QED BY <1>3, <2>1, <2>2, <3>2, <4>1
        <3>3. CASE i = Len(text)
            <4>1. i \in 1..(Len(host) + 2) /\ ~(i <= Len(host)) /\ i - Len(host) = 2
                BY <1>2, <3>3
            <4> QED BY <2>1, <2>2, <3>3, <4>1
        <3> QED BY <1>2, <3>1, <3>2, <3>3
    <2> QED BY <1>2, <2>2, <2>3, SeqEqual
<1>6. to_string(a) = text
    BY <1>5 DEF to_string, HostPair
<1>7. ~re_ip4(text) /\ ~re_ip6(text)
    <2>1. \A i \in 1..(Len(text) - 2) : text[i] \notin {"padded", "["}
        BY DEF re_host, Blank
    <2>2. text[1] \notin {"padded", "["}
        BY <1>2, <2>1
    <2>3. host # <<"padded">>
        <3>1. 1 \in 1..(Len(text) - 2)
            BY <1>2
        <3>2. host[1] = text[1]
            BY <1>2, <3>1
        <3> QED BY <2>2, <3>2
    <2> QED BY <2>2, <2>3 DEF re_ip4, re_ip6
<1>8. parse_address(text) = a
    BY <1>7 DEF parse_address
<1>9. text # Thrown
    BY <1>2, TextNotThrown
<1> QED BY <1>6, <1>8, <1>9

\* The same for a numeric address of IPv6 in its brackets.
LEMMA NumericReturns ==
    ASSUME NEW text \in Seq(Pieces), EndsInPort(text), Port(text) # -1
    PROVE  LET a == Ip("AF_INET6", "fe::1", Port(text))
           IN  /\ a.is = "SockAddress" /\ is_valid(a)
               /\ to_string(a) # Thrown
               /\ parse_address(to_string(a)) = a
<1> DEFINE port == Port(text)
           a == Ip("AF_INET6", "fe::1", port)
           digits == Digits(port)
           again == <<"[", "fe::1", "]", ":", digits>>
<1>1. port = Ports[text[Len(text)]] /\ port <= 65535 /\ port \in Nat
    BY PortPart
<1>2. digits \in DOMAIN Ports /\ Ports[digits] = port
    <2>1. text[Len(text)] \in DOMAIN Ports
        BY DEF EndsInPort
    <2> QED BY <1>1, <2>1, PortTexts
<1>3. /\ a.is = "SockAddress" /\ a.family = "AF_INET6" /\ a.length = 28 /\ a.ip = "fe::1" /\ a.port = port
      /\ sizeof_in["AF_INET6"] = 28
    BY DEF Ip, sizeof_in
<1>4. is_valid(a)
    BY <1>3 DEF is_valid
<1>5. to_string(a) = again
    BY <1>3, <1>4 DEF to_string, str
<1> HIDE DEF digits
<1>6. again \in Seq(Pieces) /\ Len(again) = 5
    BY <1>2, PortTexts DEF Pieces
<1>7. /\ again[1] = "[" /\ again[2] = "fe::1" /\ again[3] = "]" /\ again[4] = ":" /\ again[5] = digits
    OBVIOUS
<1> HIDE DEF again
<1>8. EndsInPort(again)
    BY <1>2, <1>6, <1>7 DEF EndsInPort
<1>9. Port(again) = port /\ Port(again) # -1
    BY <1>1, <1>2, <1>6, <1>7 DEF Port
<1>10. /\ BeforePort(again) \in Seq(Pieces) /\ Len(BeforePort(again)) = 3
       /\ \A i \in 1..3 : BeforePort(again)[i] = again[i]
    <2>0. again \in Seq(Pieces)
        BY <1>6
    <2>1. /\ BeforePort(again) \in Seq(Pieces) /\ Len(BeforePort(again)) = Len(again) - 2
          /\ \A i \in 1..(Len(again) - 2) : BeforePort(again)[i] = again[i]
        BY <2>0, <1>8, HostPart
    <2>2. Len(again) - 2 = 3
        BY <1>6
    <2> QED BY <2>1, <2>2
<1>11. ~re_unix(again, "unix") /\ ~re_unix(again, "unixa")
    BY <1>7 DEF re_unix
<1>12. BeforePort(again) # <<"padded">>
    BY <1>7, <1>10
<1>13. re_ip6(again)
    BY <1>6, <1>7, <1>8 DEF re_ip6
<1>14. SubSeq(BeforePort(again), 2, 2) = <<"fe::1">>
    <2>1. BeforePort(again)[2] = "fe::1"
        BY <1>7, <1>10
    <2>2. \A i \in 2..2 : BeforePort(again)[i] \in Pieces
        BY <2>1 DEF Pieces
    <2> DEFINE s == SubSeq(BeforePort(again), 2, 2)
    <2>3. /\ s \in Seq(Pieces) /\ Len(s) = IF 2 <= 2 THEN 2 - 2 + 1 ELSE 0
          /\ \A i \in 1..(2 - 2 + 1) : s[i] = BeforePort(again)[2 + i - 1]
        BY <2>2, SubSeqProperties
    <2>4. Len(s) = 1 /\ s[1] = "fe::1"
        BY <2>1, <2>3
    <2>5. <<"fe::1">> \in Seq(Pieces) /\ Len(<<"fe::1">>) = 1 /\ <<"fe::1">>[1] = "fe::1"
        BY DEF Pieces
    <2>6. \A i \in 1..Len(s) : s[i] = <<"fe::1">>[i]
        BY <2>4
    <2> HIDE DEF s
    <2>7. s = <<"fe::1">>
        BY <2>3, <2>4, <2>5, <2>6, SeqEqual
    <2> QED BY <2>7 DEF s
<1>15. parse_address(again) = a
    BY <1>9, <1>10, <1>11, <1>12, <1>13, <1>14 DEF parse_address, re_ip4, ip6_numeric
<1>16. again # Thrown
    <2>1. again \in Seq(Pieces) /\ Len(again) >= 2
        BY <1>6
    <2> QED BY <2>1, TextNotThrown
<1> QED BY <1>3, <1>4, <1>5, <1>15, <1>16

\* What parse_address takes is valid, printed, and taken again.
LEMMA TakenReturns ==
    ASSUME NEW text \in Seq(Pieces), parse_address(text) # Thrown
    PROVE  LET a == parse_address(text)
           IN  /\ a.is = "SockAddress" => is_valid(a)
               /\ to_string(a) # Thrown
               /\ \/ parse_address(to_string(a)) = a
                  \/ a.is = "SockAddress" /\ Last(to_string(a)) = "hex"
<1> DEFINE a == parse_address(text)
           name == SubSeq(text, 3, Len(text))
<1>1. ASSUME NEW scheme \in {"unix", "unixa"}, re_unix(text, scheme)
      PROVE  name \in Seq(Pieces) /\ name # <<>>
    <2>1. Len(text) \in Nat /\ Len(text) >= 3
        BY <1>1, LenProperties DEF re_unix
    <2>2. \A i \in 3..Len(text) : text[i] \in Pieces
        BY <2>1, ElementOfSeq
    <2>3. name \in Seq(Pieces) /\ Len(name) = IF 3 <= Len(text) THEN Len(text) - 3 + 1 ELSE 0
        BY <2>1, <2>2, SubSeqProperties
    <2>4. Len(name) # 0
        BY <2>1, <2>3
    <2> QED BY <2>3, <2>4, EmptySeq
<1>2. CASE re_unix(text, "unix")
    <2>1. a = unix_path(name)
        BY <1>2 DEF parse_address
    <2>2. /\ is_valid(a) /\ to_string(a) = <<"unix", ":">> \o name
          /\ parse_address(to_string(a)) = a
        BY <1>1, <1>2, <2>1, PathReturns
    <2>3. "unix" \in Pieces /\ Len(name) \in Nat
        BY <1>1, <1>2, LenProperties DEF Pieces
    <2> DEFINE whole == <<"unix", ":">> \o name
    <2>4. name \in Seq(Pieces)
        BY <1>1, <1>2
    <2>5. whole \in Seq(Pieces) /\ Len(whole) = Len(name) + 2
        BY <2>3, <2>4, SchemeAndName
    <2>6. to_string(a) = whole
        BY <2>2
    <2> HIDE DEF whole
    <2>7. Len(name) \in Nat
        BY <2>3
    <2>8. Len(whole) >= 2
        BY <2>5, <2>7
    <2>9. whole # Thrown
        BY <2>5, <2>8, TextNotThrown
    <2> QED BY <2>2, <2>6, <2>9
<1>3. CASE re_unix(text, "unixa") /\ ~re_unix(text, "unix")
    <2> DEFINE printed == IF IsBinary(name) THEN <<"hex">> ELSE name
               whole == <<"unixa", ":">> \o printed
    <2>1. a = unix_abstract(name)
        BY <1>3 DEF parse_address
    <2>2. /\ a.is = "SockAddress" /\ is_valid(a) /\ to_string(a) = whole
          /\ IsBinary(name) \/ parse_address(to_string(a)) = a
        BY <1>1, <1>3, <2>1, NameReturns
    <2>3. "unixa" \in Pieces /\ <<"hex">> \in Seq(Pieces) /\ Len(<<"hex">>) = 1 /\ <<"hex">>[1] = "hex"
        BY DEF Pieces
    <2>4. printed \in Seq(Pieces)
        BY <1>1, <1>3, <2>3
    <2>5. Len(printed) \in Nat
        BY <2>4, LenProperties
    <2> HIDE DEF printed
    <2>6. /\ whole \in Seq(Pieces) /\ Len(whole) = Len(printed) + 2
          /\ \A i \in 1..Len(printed) : whole[i + 2] = printed[i]
        BY <2>3, <2>4, SchemeAndName
    <2> HIDE DEF whole
    <2>7. whole # Thrown
        BY <2>5, <2>6, TextNotThrown
    <2>8. ASSUME IsBinary(name) PROVE Last(whole) = "hex"
        <3>1. Len(printed) = 1 /\ printed[1] = "hex"
            BY <2>3, <2>8 DEF printed
        <3>2. Len(whole) = 3 /\ whole[3] = "hex"
            <4>1. whole[1 + 2] = printed[1]
                BY <2>6, <3>1
            <4> QED BY <2>6, <3>1, <4>1
        <3> QED BY <3>2 DEF Last
    <2> QED BY <2>2, <2>7, <2>8
<1>4. CASE ~re_unix(text, "unix") /\ ~re_unix(text, "unixa")
    <2>1. (re_ip4(text) \/ re_ip6(text) \/ re_host(text)) /\ Port(text) # -1
        BY <1>4 DEF parse_address
    <2>2. ~re_ip4(text)
        <3> SUFFICES ASSUME re_ip4(text) PROVE FALSE
            OBVIOUS
        <3>1. a = ip4_numeric(BeforePort(text), Port(text)) /\ BeforePort(text) = <<"padded">>
            BY <1>4, <2>1 DEF parse_address, re_ip4
        <3>2. <<"padded">> # <<"1.2.3.4">>
            OBVIOUS
        <3> QED BY <3>1, <3>2 DEF ip4_numeric
    <2>3. CASE re_ip6(text)
        <3>1. a = ip6_numeric(SubSeq(BeforePort(text), 2, Len(BeforePort(text)) - 1), Port(text))
            BY <1>4, <2>1, <2>2, <2>3 DEF parse_address
        <3>2. a = Ip("AF_INET6", "fe::1", Port(text))
            BY <3>1 DEF ip6_numeric
        <3>3. EndsInPort(text)
            BY <2>3 DEF re_ip6
        <3> QED BY <2>1, <3>2, <3>3, NumericReturns
    <2>4. CASE re_host(text) /\ ~re_ip6(text)
        <3>1. a = HostPair(BeforePort(text), Port(text))
            BY <1>4, <2>1, <2>2, <2>4 DEF parse_address
        <3>2. a.is = "HostPair"
            BY <3>1 DEF HostPair
        <3> QED BY <1>4, <2>1, <2>4, <3>1, <3>2, HostReturns
    <2> QED BY <2>1, <2>2, <2>3, <2>4
<1> QED BY <1>2, <1>3, <1>4
\* A text that is a given one with a port behind it.
LEMMA KnownHost ==
    ASSUME NEW text \in Seq(Pieces), EndsInPort(text), NEW host, BeforePort(text) = host
    PROVE  Len(text) = Len(host) + 2 /\ \A i \in 1..Len(host) : text[i] = host[i]
<1>1. Len(text) \in Nat /\ Len(host) = Len(text) - 2 /\ \A i \in 1..(Len(text) - 2) : host[i] = text[i]
    BY HostPart
<1> QED BY <1>1

\* A numeric host goes through resolve as it stands.
LEMMA Ip4Documented ==
    ASSUME NEW text \in Seq(Pieces), EndsInPort(text), BeforePort(text) = <<"1.2.3.4">>
    PROVE  IF Ports[text[Len(text)]] > 65535 THEN parse_address(text) = Thrown
           ELSE resolve(parse_address(text)) = Ip("AF_INET", "1.2.3.4", Ports[text[Len(text)]])
<1> DEFINE host == BeforePort(text)
           port == Port(text)
<1>1. /\ Len(text) = 3 /\ text[1] = "1.2.3.4"
    <2> DEFINE given == <<"1.2.3.4">>
    <2>1. Len(given) = 1 /\ given[1] = "1.2.3.4"
        OBVIOUS
    <2> HIDE DEF given
    <2>2. BeforePort(text) = given
        BY DEF given
    <2>3. Len(text) = Len(given) + 2 /\ \A i \in 1..Len(given) : text[i] = given[i]
        BY <2>2, KnownHost
    <2> QED BY <2>1, <2>3
<1>2. ~re_unix(text, "unix") /\ ~re_unix(text, "unixa") /\ ~re_ip6(text)
    BY <1>1 DEF re_unix, re_ip6
<1>3. ~re_ip4(text)
    BY DEF re_ip4
<1>4. re_host(text)
    <2>1. \A i \in 1..(Len(text) - 2) : text[i] = "1.2.3.4"
        BY <1>1
    <2> QED BY <2>1 DEF re_host, Blank
<1>5. CASE Ports[text[Len(text)]] > 65535
    BY <1>2, <1>5, PortPart DEF parse_address
<1>6. CASE ~(Ports[text[Len(text)]] > 65535)
    <2>1. port = Ports[text[Len(text)]] /\ port # -1
        BY <1>6, PortPart
    <2>2. parse_address(text) = HostPair(host, port)
        BY <1>2, <1>3, <1>4, <2>1 DEF parse_address
    <2> DEFINE a == Ip("AF_INET", "1.2.3.4", port)
    <2>3. resolve(parse_address(text)) = from_sockaddr(a)
        BY <2>2 DEF resolve, HostPair
    <2>4. a.family = "AF_INET" /\ a.length = 16 /\ sizeof_in["AF_INET"] = 16
        BY DEF Ip, sizeof_in
    <2>5. from_sockaddr(a) = a
        <3> HIDE DEF a
        <3> QED BY <2>4 DEF from_sockaddr
    <2> QED BY <1>6, <2>1, <2>3, <2>5
<1> QED BY <1>5, <1>6

\* The documented form of an IPv6 address with a port comes out as it went in.
LEMMA Ip6Documented ==
    ASSUME NEW text \in Seq(Pieces), EndsInPort(text), BeforePort(text) = <<"[", "fe::1", "]">>
    PROVE  IF Ports[text[Len(text)]] > 65535 THEN parse_address(text) = Thrown
           ELSE resolve(parse_address(text)) = Ip("AF_INET6", "fe::1", Ports[text[Len(text)]])
<1> DEFINE host == BeforePort(text)
           port == Port(text)
           three == <<"[", "fe::1", "]">>
<1>1. Len(three) = 3 /\ three[1] = "[" /\ three[2] = "fe::1" /\ three[3] = "]"
    OBVIOUS
<1> HIDE DEF three
<1>2. host = three
    BY DEF three
<1>3. Len(text) = 5 /\ text[1] = "[" /\ text[2] = "fe::1" /\ text[3] = "]"
    <2>1. Len(text) = Len(three) + 2 /\ \A i \in 1..Len(three) : text[i] = three[i]
        BY <1>2, KnownHost
    <2> QED BY <1>1, <2>1
<1>4. text[4] = ":"
    <2>1. 5 - 1 = 4
        OBVIOUS
    <2> QED BY <1>3, <2>1 DEF EndsInPort
<1>5. ~re_unix(text, "unix") /\ ~re_unix(text, "unixa")
    BY <1>3 DEF re_unix
<1>6. ~re_ip4(text)
    <2>1. host # <<"padded">>
        BY <1>1, <1>2
    <2> QED BY <2>1 DEF re_ip4
<1>7. re_ip6(text)
    BY <1>3 DEF re_ip6
<1>8. CASE Ports[text[Len(text)]] > 65535
    BY <1>5, <1>8, PortPart DEF parse_address
<1>9. CASE ~(Ports[text[Len(text)]] > 65535)
    <2>1. port = Ports[text[Len(text)]] /\ port # -1
        BY <1>9, PortPart
    <2>2. parse_address(text) = ip6_numeric(SubSeq(host, 2, Len(host) - 1), port)
        BY <1>5, <1>6, <1>7, <2>1 DEF parse_address
    <2>3. Len(host) - 1 = 2
        BY <1>1, <1>2
    <2>4. SubSeq(host, 2, 2) = <<"fe::1">>
        <3> DEFINE s == SubSeq(host, 2, 2)
        <3>1. \A i \in 2..2 : host[i] \in Pieces
            BY <1>1, <1>2 DEF Pieces
        <3>2. /\ s \in Seq(Pieces) /\ Len(s) = IF 2 <= 2 THEN 2 - 2 + 1 ELSE 0
              /\ \A i \in 1..(2 - 2 + 1) : s[i] = host[2 + i - 1]
            BY <3>1, SubSeqProperties
        <3>3. Len(s) = 1 /\ s[1] = "fe::1"
            BY <1>1, <1>2, <3>2
        <3>4. <<"fe::1">> \in Seq(Pieces) /\ Len(<<"fe::1">>) = 1 /\ <<"fe::1">>[1] = "fe::1"
            BY DEF Pieces
        <3>5. \A i \in 1..Len(s) : s[i] = <<"fe::1">>[i]
            BY <3>3
        <3> HIDE DEF s
        <3>6. s = <<"fe::1">>
            BY <3>2, <3>3, <3>4, <3>5, SeqEqual
        <3> QED BY <3>6 DEF s
    <2> DEFINE a == Ip("AF_INET6", "fe::1", port)
    <2>5. parse_address(text) = a
        BY <2>2, <2>3, <2>4 DEF ip6_numeric
    <2>6. a.is = "SockAddress"
        BY DEF Ip
    <2>7. resolve(a) = a
        BY <2>6 DEF resolve
    <2> QED BY <1>9, <2>1, <2>5, <2>7
<1> QED BY <1>8, <1>9

\* The documented form of a host name with a port keeps its name and port.
LEMMA HostDocumented ==
    ASSUME NEW text \in Seq(Pieces), EndsInPort(text), BeforePort(text) = <<"name">>
    PROVE  parse_address(text) = IF Ports[text[Len(text)]] > 65535 THEN Thrown
                                 ELSE HostPair(BeforePort(text), Ports[text[Len(text)]])
<1> DEFINE host == BeforePort(text)
           port == Port(text)
<1>1. Len(text) = 3 /\ text[1] = "name"
    <2> DEFINE given == <<"name">>
    <2>1. Len(given) = 1 /\ given[1] = "name"
        OBVIOUS
    <2> HIDE DEF given
    <2>2. BeforePort(text) = given
        BY DEF given
    <2>3. Len(text) = Len(given) + 2 /\ \A i \in 1..Len(given) : text[i] = given[i]
        BY <2>2, KnownHost
    <2> QED BY <2>1, <2>3
<1>2. ~re_unix(text, "unix") /\ ~re_unix(text, "unixa") /\ ~re_ip6(text)
    BY <1>1 DEF re_unix, re_ip6
<1>3. ~re_ip4(text)
    BY DEF re_ip4
<1>4. re_host(text)
    <2>1. \A i \in 1..(Len(text) - 2) : text[i] = "name"
        BY <1>1
    <2> QED BY <2>1 DEF re_host, Blank
<1>5. CASE Ports[text[Len(text)]] > 65535
    BY <1>2, <1>5, PortPart DEF parse_address
<1>6. CASE ~(Ports[text[Len(text)]] > 65535)
    <2>1. port = Ports[text[Len(text)]] /\ port # -1
        BY <1>6, PortPart
    <2>2. parse_address(text) = HostPair(host, port)
        BY <1>2, <1>3, <1>4, <2>1 DEF parse_address
    <2> QED BY <1>6, <2>1, <2>2
<1> QED BY <1>5, <1>6

\* What stands behind "unix:" or "unixa:", and the text is the scheme's or no one's.
LEMMA NamePart ==
    ASSUME NEW text \in Seq(Pieces), NEW scheme \in {"unix", "unixa"},
           Len(text) >= 3, text[1] = scheme, text[2] = ":"
    PROVE  LET name == SubSeq(text, 3, Len(text))
           IN  /\ name \in Seq(Pieces) /\ DOMAIN name = 1..Len(name) /\ Len(name) \in Nat
               /\ re_unix(text, scheme) <=> \A i \in DOMAIN name : name[i] \notin {"newline", "padded"}
               /\ ~re_unix(text, scheme) => parse_address(text) = Thrown
<1> DEFINE name == SubSeq(text, 3, Len(text))
<1>1. Len(text) \in Nat /\ \A i \in 3..Len(text) : text[i] \in Pieces
    BY LenProperties, ElementOfSeq
<1>2. /\ name \in Seq(Pieces) /\ Len(name) = IF 3 <= Len(text) THEN Len(text) - 3 + 1 ELSE 0
      /\ \A i \in 1..(Len(text) - 3 + 1) : name[i] = text[3 + i - 1]
    BY <1>1, SubSeqProperties
<1> HIDE DEF name
<1>3. Len(name) = Len(text) - 2 /\ DOMAIN name = 1..Len(name) /\ Len(name) \in Nat
    BY <1>1, <1>2, LenProperties
<1>4. \A i \in 1..Len(name) : name[i] = text[i + 2]
    BY <1>1, <1>2, <1>3
<1>5. re_unix(text, scheme) <=> \A i \in DOMAIN name : name[i] \notin {"newline", "padded"}
    <2>1. re_unix(text, scheme) <=> \A i \in 3..Len(text) : text[i] \notin {"newline", "padded"}
        BY DEF re_unix
    <2>2. ASSUME \A i \in 3..Len(text) : text[i] \notin {"newline", "padded"}, NEW i \in DOMAIN name
          PROVE  name[i] \notin {"newline", "padded"}
        <3>1. i + 2 \in 3..Len(text)
            BY <1>1, <1>3
        <3> QED BY <1>3, <1>4, <2>2, <3>1
    <2>3. ASSUME \A i \in DOMAIN name : name[i] \notin {"newline", "padded"}, NEW i \in 3..Len(text)
          PROVE  text[i] \notin {"newline", "padded"}
        <3>1. i - 2 \in DOMAIN name /\ (i - 2) + 2 = i
            BY <1>1, <1>3
        <3>2. text[i] = name[i - 2]
            BY <1>3, <1>4, <3>1
        <3> QED BY <2>3, <3>1, <3>2
    <2> QED BY <2>1, <2>2, <2>3
<1>6. ASSUME ~re_unix(text, scheme) PROVE parse_address(text) = Thrown
    <2>1. PICK i \in 3..Len(text) : text[i] \in {"newline", "padded"}
        BY <1>6 DEF re_unix
    <2>2. ~re_unix(text, "unix") /\ ~re_unix(text, "unixa")
        BY <1>6 DEF re_unix
    <2>3. ~re_ip6(text)
        BY DEF re_ip6
    <2>4. ~re_ip4(text)
        <3> SUFFICES ASSUME re_ip4(text) PROVE FALSE
            OBVIOUS
        <3>1. EndsInPort(text) /\ BeforePort(text) = <<"padded">>
            BY DEF re_ip4
        <3>2. BeforePort(text)[1] = text[1]
            BY <1>1, <3>1, HostPart
        <3> QED BY <3>1, <3>2
    <2>5. ~re_host(text)
        <3> SUFFICES ASSUME re_host(text) PROVE FALSE
            OBVIOUS
        <3>1. text[Len(text)] \in DOMAIN Ports /\ \A k \in 1..(Len(text) - 2) : text[k] # ":"
            BY DEF re_host, EndsInPort
        <3>2. text[Len(text)] \notin {"newline", "padded"}
            BY <3>1 DEF Ports
        <3>3. CASE Len(text) = 3
            <4>1. i = Len(text)
                BY <3>3
            <4> QED BY <2>1, <3>2, <4>1
        <3>4. CASE Len(text) > 3
            <4>1. 2 \in 1..(Len(text) - 2)
                BY <1>1, <3>4
            <4> QED BY <3>1, <4>1
        <3>5. Len(text) = 3 \/ Len(text) > 3
            <4> DEFINE n == Len(text)
            <4>1. n \in Nat /\ n >= 3
                BY <1>1
            <4> HIDE DEF n
            <4>2. n = 3 \/ n > 3
                BY <4>1
            <4> QED BY <4>2 DEF n
        <3> QED BY <3>3, <3>4, <3>5
    <2> QED BY <2>2, <2>3, <2>4, <2>5 DEF parse_address
<1> QED BY <1>2, <1>3, <1>5, <1>6 DEF name

\* The documented form of a path is the socket with that path, or is refused.
LEMMA PathDocumented ==
    ASSUME NEW text \in Seq(Pieces), Len(text) >= 3, text[1] = "unix", text[2] = ":"
    PROVE  LET name == SubSeq(text, 3, Len(text))
           IN  IF Len(name) >= PathSize \/ IsBinary(name) THEN parse_address(text) = Thrown
               ELSE KernelReads(resolve(parse_address(text)), name \o <<"NUL">>)
<1> DEFINE name == SubSeq(text, 3, Len(text))
           bytes == name \o <<"NUL">>
           a == Unix(name, offsetof_sun_path + Len(name) + 1)
<1>1. /\ name \in Seq(Pieces) /\ DOMAIN name = 1..Len(name) /\ Len(name) \in Nat
      /\ re_unix(text, "unix") <=> \A i \in DOMAIN name : name[i] \notin {"newline", "padded"}
      /\ ~re_unix(text, "unix") => parse_address(text) = Thrown
    BY NamePart
<1>2. re_unix(text, "unix") => parse_address(text) = unix_path(name)
    BY DEF parse_address
<1> HIDE DEF name
<1>3. PathSize \in Nat
    BY PathSizeAssumption
<1>4. CASE Len(name) >= PathSize \/ IsBinary(name)
    <2>1. unix_path(name) = Thrown
        BY <1>1, <1>3, <1>4 DEF unix_path
    <2> QED BY <1>1, <1>2, <1>4, <2>1 DEF name
<1>5. CASE ~(Len(name) >= PathSize \/ IsBinary(name))
    <2>1. re_unix(text, "unix")
        BY <1>1, <1>5 DEF IsBinary, Unprintable
    <2>2. parse_address(text) = a
        BY <1>1, <1>2, <1>3, <1>5, <2>1 DEF unix_path
    <2>3. Len(name) <= PathSize
        BY <1>1, <1>3, <1>5
    <2>4. /\ a.is = "SockAddress" /\ a.family = "AF_UNIX" /\ a.length = offsetof_sun_path + Len(name) + 1
          /\ \A i \in 1..Len(name) : a.sun_path[i] = name[i]
          /\ \A i \in (Len(name) + 1)..PathSize : a.sun_path[i] = "NUL"
        BY <1>1, <2>3, UnixHolds
    <2> HIDE DEF a
    <2>5. resolve(a) = a
        BY <2>4 DEF resolve
    <2>6. /\ Len(bytes) = Len(name) + 1
          /\ \A i \in 1..(Len(name) + 1) : bytes[i] = IF i <= Len(name) THEN name[i] ELSE "NUL"
        <3>1. <<"NUL">> \in Seq(Pieces) /\ Len(<<"NUL">>) = 1 /\ <<"NUL">>[1] = "NUL"
            BY DEF Pieces
        <3>2. /\ Len(bytes) = Len(name) + 1
              /\ \A i \in 1..(Len(name) + 1) :
                     bytes[i] = IF i <= Len(name) THEN name[i] ELSE <<"NUL">>[i - Len(name)]
            BY <1>1, <3>1, ConcatProperties
        <3>3. \A i \in 1..(Len(name) + 1) : ~(i <= Len(name)) => i - Len(name) = 1
            BY <1>1
        <3> QED BY <3>1, <3>2, <3>3
    <2> HIDE DEF bytes
    <2>7. a.length = offsetof_sun_path + Len(bytes)
        BY <1>1, <2>4, <2>6 DEF offsetof_sun_path
    <2>8. \A i \in 1..Len(bytes) : a.sun_path[i] = bytes[i]
        BY <1>1, <1>3, <1>5, <2>4, <2>6
    <2>9. KernelReads(a, bytes)
        BY <2>4, <2>7, <2>8 DEF KernelReads
    <2> QED BY <1>5, <2>2, <2>5, <2>9 DEF name, bytes
<1> QED BY <1>4, <1>5

\* So is that of an abstract name, behind the zero the kernel tells it by.
LEMMA NameDocumented ==
    ASSUME NEW text \in Seq(Pieces), Len(text) >= 3, text[1] = "unixa", text[2] = ":"
    PROVE  LET name == SubSeq(text, 3, Len(text))
           IN  IF Len(name) >= PathSize \/ \E i \in DOMAIN name : name[i] \in {"newline", "padded"}
               THEN parse_address(text) = Thrown
               ELSE KernelReads(resolve(parse_address(text)), <<"NUL">> \o name)
<1> DEFINE name == SubSeq(text, 3, Len(text))
           bytes == <<"NUL">> \o name
           a == Unix(bytes, offsetof_sun_path + 1 + Len(name))
           broken == \E i \in DOMAIN name : name[i] \in {"newline", "padded"}
<1>1. /\ name \in Seq(Pieces) /\ DOMAIN name = 1..Len(name) /\ Len(name) \in Nat
      /\ re_unix(text, "unixa") <=> ~broken
      /\ ~re_unix(text, "unixa") => parse_address(text) = Thrown
    BY NamePart
<1>2. re_unix(text, "unixa") => parse_address(text) = unix_abstract(name)
    <2>1. ~re_unix(text, "unix")
        BY DEF re_unix
    <2> QED BY <2>1 DEF parse_address
<1> HIDE DEF name, broken
<1>3. PathSize \in Nat
    BY PathSizeAssumption
<1>4. CASE Len(name) >= PathSize \/ broken
    <2>1. Len(name) >= PathSize => unix_abstract(name) = Thrown
        BY <1>1, <1>3 DEF unix_abstract
    <2>2. parse_address(text) = Thrown
        BY <1>1, <1>2, <1>4, <2>1
    <2> QED BY <1>4, <2>2 DEF name, broken
<1>5. CASE ~(Len(name) >= PathSize \/ broken)
    <2>1. parse_address(text) = a
        BY <1>1, <1>2, <1>3, <1>5 DEF unix_abstract
    <2>2. bytes \in Seq(Pieces) /\ Len(bytes) = 1 + Len(name)
        <3>1. <<"NUL">> \in Seq(Pieces) /\ Len(<<"NUL">>) = 1
            BY DEF Pieces
        <3> QED BY <1>1, <3>1, ConcatProperties
    <2>3. Len(bytes) <= PathSize
        BY <1>1, <1>3, <1>5, <2>2
    <2> HIDE DEF bytes
    <2>4. /\ a.is = "SockAddress" /\ a.family = "AF_UNIX" /\ a.length = offsetof_sun_path + 1 + Len(name)
          /\ \A i \in 1..Len(bytes) : a.sun_path[i] = bytes[i]
        BY <2>2, <2>3, UnixHolds
    <2> HIDE DEF a
    <2>5. resolve(a) = a
        BY <2>4 DEF resolve
    <2>6. a.length = offsetof_sun_path + Len(bytes)
        BY <1>1, <2>2, <2>4 DEF offsetof_sun_path
    <2>7. KernelReads(a, bytes)
        BY <2>4, <2>6 DEF KernelReads
    <2> QED BY <1>5, <2>1, <2>5, <2>7 DEF name, bytes, broken
<1> QED BY <1>4, <1>5

\* What the last call was: the arguments are of those the program may be given,
\* and the result is the operation's.
ParsedOrRead ==
    /\ call.op = "parse_address" => call.text \in Texts /\ result = parse_address(call.text)
    /\ call.op = "get_remote_address" =>
          call.address \in RemoteAddresses /\ result = from_sockaddr(call.address)

\* That holds after every call.
LEMMA CallsAreKnown == CallsSpec => []ParsedOrRead
<1>1. CallsInit => ParsedOrRead
    BY DEF CallsInit, None, ParsedOrRead
<1>2. ParsedOrRead /\ [CallsNext]_calls_vars => ParsedOrRead'
    <2> SUFFICES ASSUME ParsedOrRead, [CallsNext]_calls_vars PROVE ParsedOrRead'
        OBVIOUS
    <2>1. CASE IsInNetwork
        BY <2>1 DEF IsInNetwork, Calls, ParsedOrRead
    <2>2. CASE GetNetwork
        BY <2>2 DEF GetNetwork, Calls, ParsedOrRead
    <2>3. CASE ParseAddress
        BY <2>3 DEF ParseAddress, Calls, ParsedOrRead
    <2>4. CASE GetRemoteAddress
        BY <2>4 DEF GetRemoteAddress, Calls, ParsedOrRead
    <2>5. CASE Return
        BY <2>5 DEF Return, None, ParsedOrRead
    <2>6. CASE Checksum \/ (crc32c /\ UNCHANGED <<call, result>>) \/ UNCHANGED calls_vars
        BY <2>6 DEF Checksum, calls_vars, ParsedOrRead
    <2> QED BY <2>1, <2>2, <2>3, <2>4, <2>5, <2>6 DEF CallsNext
<1> QED BY <1>1, <1>2, PTL DEF CallsSpec

\* The texts of the program are sequences of pieces.
LEMMA TextsArePieces ==
    ASSUME NEW text \in Texts
    PROVE  text \in Seq(Pieces)
<1>1. text \in Seq(STRING) /\ STRING \subseteq Pieces
    BY TextsAssumption DEF Pieces
<1> QED BY <1>1, SeqMonotonic

\* What -b, -c and -p accept is usable and printable, and what is printed is
\* accepted and means the same (address.cpp:40-160, main.cpp:83), whatever the
\* text and whatever the size of sun_path.
THEOREM PrintedIsTakenBack == CallsSpec => []PrintedReturns
<1>1. ParsedOrRead => PrintedReturns
    BY TextsArePieces, TakenReturns DEF ParsedOrRead, PrintedReturns
<1> QED BY <1>1, CallsAreKnown, PTL

\* The documented formats (README.md:188-192) end as what they name, whatever
\* the port, the path or the abstract name and whatever the size of sun_path;
\* ports above 65535 and names that do not fit are refused.
THEOREM FormatsAreDocumented == CallsSpec => []DocumentedFormats
<1>1. ParsedOrRead => DocumentedFormats
    <2> SUFFICES ASSUME ParsedOrRead, call.op = "parse_address"
                 PROVE  DocumentedFormats
        BY DEF DocumentedFormats
    <2> DEFINE text == call.text
               port == Ports[text[Len(text)]]
    <2>1. text \in Seq(Pieces) /\ result = parse_address(text)
        BY TextsArePieces DEF ParsedOrRead
    <2> HIDE DEF text
    <2>2. Last(text) = text[Len(text)]
        BY DEF Last
    <2>3. ASSUME EndsInPort(text), BeforePort(text) = <<"1.2.3.4">>
          PROVE  IF port > 65535 THEN result = Thrown
                 ELSE resolve(result) = Ip("AF_INET", "1.2.3.4", port)
        BY <2>1, <2>3, Ip4Documented
    <2>4. ASSUME EndsInPort(text), BeforePort(text) = <<"[", "fe::1", "]">>
          PROVE  IF port > 65535 THEN result = Thrown
                 ELSE resolve(result) = Ip("AF_INET6", "fe::1", port)
        BY <2>1, <2>4, Ip6Documented
    <2>5. ASSUME EndsInPort(text), BeforePort(text) = <<"name">>
          PROVE  result = IF port > 65535 THEN Thrown ELSE HostPair(BeforePort(text), port)
        BY <2>1, <2>5, HostDocumented
    <2>6. Len(<<"1.2.3.4">>) = 1 /\ Len(<<"[", "fe::1", "]">>) # 1
        OBVIOUS
    <2>7. ASSUME EndsInPort(text), BeforePort(text) \in {<<"1.2.3.4">>, <<"[", "fe::1", "]">>}
          PROVE  IF port > 65535 THEN result = Thrown
                 ELSE resolve(result) = IF Len(BeforePort(text)) = 1 THEN Ip("AF_INET", "1.2.3.4", port)
                                        ELSE Ip("AF_INET6", "fe::1", port)
        BY <2>3, <2>4, <2>6, <2>7
    <2> HIDE DEF port
    <2>8. port = Ports[Last(text)]
        BY <2>2 DEF port
    <2> DEFINE name == SubSeq(text, 3, Len(text))
    <2>9. ASSUME Len(text) >= 3, text[1] = "unix", text[2] = ":"
          PROVE  IF Len(name) >= PathSize \/ IsBinary(name) THEN result = Thrown
                 ELSE KernelReads(resolve(result), name \o <<"NUL">>)
        BY <2>1, <2>9, PathDocumented
    <2>10. ASSUME Len(text) >= 3, text[1] = "unixa", text[2] = ":"
           PROVE  IF Len(name) >= PathSize \/ \E i \in DOMAIN name : name[i] \in {"newline", "padded"}
                  THEN result = Thrown
                  ELSE KernelReads(resolve(result), <<"NUL">> \o name)
        BY <2>1, <2>10, NameDocumented
    <2> QED BY <2>5, <2>7, <2>8, <2>9, <2>10 DEF DocumentedFormats, text
<1> QED BY <1>1, CallsAreKnown, PTL

\* Whatever the kernel writes of a socket's remote address (socket.cpp:122-131),
\* unnamed and overlong ones included, from_sockaddr does not throw and what str
\* prints of it lies inside sun_path, whatever its size.
THEOREM RemoteIsPrinted == CallsSpec => []RemotePrinted
<1>1. ParsedOrRead => RemotePrinted
    <2> SUFFICES ASSUME ParsedOrRead, call.op = "get_remote_address"
                 PROVE  RemotePrinted
        BY DEF RemotePrinted
    <2> DEFINE a == call.address
    <2>1. a \in RemoteAddresses /\ result = from_sockaddr(a)
        BY DEF ParsedOrRead
    <2> HIDE DEF a
    <2>2. /\ a.is = "SockAddress"
          /\ IF a.family = "AF_UNIX" THEN a.length \in offsetof_sun_path..128
             ELSE a.family \in DOMAIN sizeof_in /\ a.length = sizeof_in[a.family]
        BY <2>1, RemoteAssumption
    <2>3. from_sockaddr(a) = a
        <3>1. \A family \in DOMAIN sizeof_in : sizeof_in[family] \in {16, 28}
            BY DEF sizeof_in
        <3> QED BY <2>2, <3>1 DEF from_sockaddr, offsetof_sun_path
    <2>4. a # Thrown
        BY <2>2 DEF Thrown
    <2>5. ASSUME is_valid(a), a.family = "AF_UNIX"
          PROVE  /\ PrintedSize(a) >= 0
                 /\ PrintedFrom(a) + PrintedSize(a) - 1 <= PathSize
        BY <2>2, <2>5, PathSizeAssumption
           DEF is_valid, PrintedSize, PrintedFrom, offsetof_sun_path, sizeof_sockaddr_un
    <2> QED BY <2>1, <2>3, <2>4, <2>5 DEF RemotePrinted
<1> QED BY <1>1, CallsAreKnown, PTL

-----------------------------------------------------------------------------
(* Functions by recursion *)

\* Induction over the natural numbers, for a set instead of a predicate.
LEMMA Inductive ==
    ASSUME NEW S, 0 \in S, \A n \in Nat : n \in S => n + 1 \in S
    PROVE  Nat \subseteq S
<1> SUFFICES ASSUME ~(Nat \subseteq S) PROVE FALSE
    OBVIOUS
<1> DEFINE T == Nat \ S
<1>1. T \in SUBSET Nat /\ T # {}
    OBVIOUS
<1>2. IsWellFoundedOn(OpToRel(<, Nat), Nat)
    BY NatLessThanWellFounded
<1>3. PICK n \in T : \A m \in T : ~(<<m, n>> \in OpToRel(<, Nat))
    BY <1>1, <1>2, WFMin
<1>4. n \in Nat /\ n \notin S
    BY <1>3
<1>5. n # 0 /\ n - 1 \in Nat /\ n - 1 < n
    BY <1>4
<1>6. <<n - 1, n>> \in OpToRel(<, Nat)
    BY <1>4, <1>5 DEF OpToRel
<1>7. n - 1 \in S
    BY <1>3, <1>5, <1>6
<1>8. (n - 1) + 1 = n
    BY <1>4
<1>9. n \in S
    BY <1>5, <1>7, <1>8
<1> QED BY <1>4, <1>9

\* f has the values of T that x goes through.
Iterates(f, T, x, step) ==
    f \in [Nat -> T] /\ f[0] = x /\ \A n \in Nat : f[n + 1] = step[<<n + 1, f[n]>>]

\* There is such a function, whatever a step makes of a value.
LEMMA Iterated ==
    ASSUME NEW T, NEW x \in T, NEW step \in [Nat \X T -> T]
    PROVE  \E f : Iterates(f, T, x, step)
<1> DEFINE Begins_(f, n) == f[0] = x /\ \A k \in 0..(n - 1) : f[k + 1] = step[<<k + 1, f[k]>>]
           Values(n) == { f \in [0..n -> T] : Begins_(f, n) }
           P == { n \in Nat : Values(n) # {} }
<1>1. Nat \subseteq P
    <2>1. 0 \in P
        <3>1. [k \in 0..0 |-> x] \in Values(0)
            OBVIOUS
        <3> QED BY <3>1
    <2>2. ASSUME NEW n \in Nat, n \in P PROVE n + 1 \in P
        <3>1. PICK f \in [0..n -> T] : Begins_(f, n)
            BY <2>2
        <3> DEFINE g == [k \in 0..(n + 1) |-> IF k <= n THEN f[k] ELSE step[<<n + 1, f[n]>>]]
        <3>2. step[<<n + 1, f[n]>>] \in T
            BY <3>1
        <3>3. g \in [0..(n + 1) -> T]
            BY <3>1, <3>2
        <3>4. ASSUME NEW k \in 0..n PROVE g[k + 1] = step[<<k + 1, g[k]>>]
            <4>1. CASE k = n
                <5>1. n \in 0..(n + 1) /\ n + 1 \in 0..(n + 1) /\ n <= n /\ ~(n + 1 <= n)
                    OBVIOUS
                <5>2. g[n] = f[n] /\ g[n + 1] = step[<<n + 1, f[n]>>]
                    BY <5>1
                <5> QED BY <4>1, <5>2
            <4>2. CASE k < n
                BY <3>1, <4>2
            <4> QED BY <4>1, <4>2
        <3>5. g[0] = x
            BY <3>1
        <3> HIDE DEF g
        <3>6. g \in Values(n + 1)
            BY <3>3, <3>4, <3>5
        <3> QED BY <3>6
    <2> HIDE DEF P
    <2> QED BY <2>1, <2>2, Inductive
<1>2. ASSUME NEW n \in Nat, NEW m \in Nat, NEW f \in Values(n), NEW g \in Values(m)
      PROVE  \A k \in Nat : k <= n /\ k <= m => f[k] = g[k]
    <2> DEFINE Q == { k \in Nat : k <= n /\ k <= m => f[k] = g[k] }
    <2>1. 0 \in Q
        OBVIOUS
    <2>2. ASSUME NEW k \in Nat, k \in Q PROVE k + 1 \in Q
        <3> SUFFICES ASSUME k + 1 <= n, k + 1 <= m PROVE f[k + 1] = g[k + 1]
            OBVIOUS
        <3>1. f[k] = g[k]
            BY <2>2
        <3>2. f[k + 1] = step[<<k + 1, f[k]>>] /\ g[k + 1] = step[<<k + 1, g[k]>>]
            OBVIOUS
        <3> QED BY <3>1, <3>2
    <2> HIDE DEF Q
    <2>3. Nat \subseteq Q
        BY <2>1, <2>2, Inductive
    <2> QED BY <2>3 DEF Q
<1> DEFINE best == [n \in Nat |-> CHOOSE f : f \in Values(n)]
           h == [n \in Nat |-> best[n][n]]
<1>3. \A n \in Nat : best[n] \in Values(n)
    BY <1>1
<1> HIDE DEF best
<1>4. h \in [Nat -> T]
    <2> SUFFICES ASSUME NEW n \in Nat PROVE best[n][n] \in T
        OBVIOUS
    <2> QED BY <1>3
<1>5. h[0] = x
    BY <1>3
<1>6. ASSUME NEW n \in Nat PROVE h[n + 1] = step[<<n + 1, h[n]>>]
    <2> DEFINE g == best[n + 1]
    <2>1. g \in Values(n + 1) /\ best[n] \in Values(n)
        BY <1>3
    <2>2. g[n] = best[n][n]
        <3> HIDE DEF g, Values
        <3> QED BY <1>2, <2>1
    <2>3. g[n + 1] = step[<<n + 1, g[n]>>]
        BY <2>1
    <2> QED BY <2>2, <2>3
<1> HIDE DEF h
<1>7. Iterates(h, T, x, step)
    BY <1>4, <1>5, <1>6 DEF Iterates
<1> QED BY <1>7

-----------------------------------------------------------------------------
(* The bits of words *)

\* Which bits there are in a word that is made from others.
LEMMA XorBits ==
    ASSUME NEW x, NEW y, NEW i
    PROVE  i \in Xor(x, y) <=> ~(i \in x <=> i \in y)
BY DEF Xor, SymDiff

\* The bits of a shifted word: a shift down drops the lowest.
LEMMA ShiftedBits ==
    ASSUME NEW x \in SUBSET Nat, NEW by \in Int, NEW i
    PROVE  i \in Shifted(x, by) <=> i \in Nat /\ i - by \in x
<1>1. ASSUME i \in Shifted(x, by) PROVE i \in Nat /\ i - by \in x
    BY <1>1 DEF Shifted
<1>2. ASSUME i \in Nat, i - by \in x PROVE i \in Shifted(x, by)
    <2>1. (i - by) + by = i /\ i >= 0
        BY <1>2
    <2> QED BY <1>2, <2>1 DEF Shifted
<1> QED BY <1>1, <1>2

\* The bits of a word read from its other end.
LEMMA ReflectedBits ==
    ASSUME NEW x \in SUBSET Nat, NEW width \in Nat, NEW i
    PROVE  i \in Reflected(x, width) <=> i \in Int /\ width - 1 - i \in x
<1>1. ASSUME i \in Int, width - 1 - i \in x PROVE i \in Reflected(x, width)
    <2>1. width - 1 - (width - 1 - i) = i
        BY <1>1
    <2> QED BY <1>1, <2>1 DEF Reflected
<1>2. ASSUME i \in Reflected(x, width) PROVE i \in Int /\ width - 1 - i \in x
    BY <1>2 DEF Reflected
<1> QED BY <1>1, <1>2

\* Of the polynomial the proofs need no more than that it is a word of 32 bits.
Polynomial == poly \in SUBSET Nat /\ \A i \in poly : i <= 31

\* It is one.
LEMMA PolynomialBits == Polynomial
BY DEF poly, Polynomial

\* The bits after a turn: each moves down, and the lowest, when it is set,
\* flips those of the polynomial.
LEMMA SoftwareBitBits ==
    ASSUME NEW x \in SUBSET Nat, NEW i
    PROVE  i \in SoftwareBit(x) <=> i \in Nat /\ ~(i + 1 \in x <=> 0 \in x /\ i \in poly)
<1>1. i \in Shifted(x, -1) <=> i \in Nat /\ i - (-1) \in x
    BY ShiftedBits
<1>2. i \in Nat => i - (-1) = i + 1
    OBVIOUS
<1>3. i \in (IF 0 \in x THEN poly ELSE {}) <=> 0 \in x /\ i \in poly
    OBVIOUS
<1>4. i \in poly => i \in Nat
    BY PolynomialBits DEF Polynomial
<1>5. i \in SoftwareBit(x) <=>
          ~(i \in Shifted(x, -1) <=> i \in (IF 0 \in x THEN poly ELSE {}))
    BY XorBits DEF SoftwareBit
<1> QED BY <1>1, <1>2, <1>3, <1>4, <1>5

\* SoftwareBits is the iteration of SoftwareBit.
LEMMA SoftwareBitsStep ==
    ASSUME NEW x \in SUBSET Nat
    PROVE  /\ \A n \in Nat : SoftwareBits(x, n) \in SUBSET Nat
           /\ SoftwareBits(x, 0) = x
           /\ \A n \in Nat : SoftwareBits(x, n + 1) = SoftwareBit(SoftwareBits(x, n))
<1> DEFINE step == [p \in Nat \X SUBSET Nat |-> SoftwareBit(p[2])]
<1>1. \A y \in SUBSET Nat : SoftwareBit(y) \in SUBSET Nat
    BY SoftwareBitBits
<1>2. step \in [Nat \X SUBSET Nat -> SUBSET Nat]
    BY <1>1
<1>3. PICK f \in [Nat -> SUBSET Nat] : f[0] = x /\ \A n \in Nat : f[n + 1] = step[<<n + 1, f[n]>>]
    <2> DEFINE T == SUBSET Nat
    <2>1. x \in T /\ step \in [Nat \X T -> T]
        BY <1>2
    <2> HIDE DEF step, T
    <2>2. PICK f : Iterates(f, T, x, step)
        BY <2>1, Iterated
    <2> QED BY <2>2 DEF Iterates, T
<1>4. ASSUME NEW n \in Nat PROVE f[n + 1] = SoftwareBit(f[n])
    <2>1. <<n + 1, f[n]>> \in Nat \X SUBSET Nat /\ <<n + 1, f[n]>>[2] = f[n]
        BY <1>3
    <2>2. step[<<n + 1, f[n]>>] = SoftwareBit(f[n])
        BY <2>1
    <2> HIDE DEF step
    <2> QED BY <1>3, <2>2
<1> DEFINE IsTurn(g) == g = [i \in Nat |-> IF i = 0 THEN x ELSE SoftwareBit(g[i - 1])]
           turn == CHOOSE g : IsTurn(g)
<1>5. IsTurn(f)
    <2> DEFINE g == [i \in Nat |-> IF i = 0 THEN x ELSE SoftwareBit(f[i - 1])]
    <2>1. ASSUME NEW i \in Nat PROVE f[i] = g[i]
        <3>1. CASE i = 0
            BY <1>3, <3>1
        <3>2. CASE i # 0
            <4>1. i - 1 \in Nat /\ (i - 1) + 1 = i
                BY <3>2
            <4>2. f[i] = SoftwareBit(f[i - 1])
                BY <1>4, <4>1
            <4> QED BY <3>2, <4>2
        <3> QED BY <3>1, <3>2
    <2> QED BY <1>3, <2>1
<1>6. IsTurn(turn)
    <2> HIDE DEF IsTurn
    <2> QED BY <1>5
<1>7. \A n : SoftwareBits(x, n) = turn[n]
    BY DEF SoftwareBits
<1>8. turn[0] = x /\ \A n \in Nat : turn[n + 1] = SoftwareBit(turn[n])
    <2> HIDE DEF turn
    <2>1. turn[0] = x
        BY <1>6
    <2>2. ASSUME NEW n \in Nat PROVE turn[n + 1] = SoftwareBit(turn[n])
        <3>1. turn[n + 1] = IF n + 1 = 0 THEN x ELSE SoftwareBit(turn[n + 1 - 1])
            BY <1>6
        <3>2. n + 1 # 0 /\ n + 1 - 1 = n
            OBVIOUS
        <3> QED BY <3>1, <3>2
    <2> QED BY <2>1, <2>2
<1> HIDE DEF turn
<1>9. ASSUME NEW n \in Nat PROVE turn[n] \in SUBSET Nat
    <2> DEFINE S == { n_ \in Nat : turn[n_] \in SUBSET Nat }
    <2>1. 0 \in S
        BY <1>8
    <2>2. ASSUME NEW k \in Nat, k \in S PROVE k + 1 \in S
        BY <1>1, <1>8, <2>2
    <2> HIDE DEF S
    <2>3. Nat \subseteq S
        BY <2>1, <2>2, Inductive
    <2> QED BY <2>3 DEF S
<1> QED BY <1>7, <1>8, <1>9

-----------------------------------------------------------------------------
(* Turns of the loop and of the division *)

\* What is above the lowest m bits waits for m turns, and is then as if it had
\* come only now.
LEMMA HighBitsWait ==
    ASSUME NEW x \in SUBSET Nat, NEW b \in SUBSET Nat, NEW m \in Nat
    PROVE  SoftwareBits(Xor(x, Shifted(b, m)), m) = Xor(SoftwareBits(x, m), b)
<1> DEFINE y == Xor(x, Shifted(b, m))
           S == { k \in Nat : k <= m => \A i \in Nat :
                    i \in SoftwareBits(y, k) <=> ~(i \in SoftwareBits(x, k) <=> i - (m - k) \in b) }
<1>1. \A i : i \in y <=> ~(i \in x <=> i \in Nat /\ i - m \in b)
    BY XorBits, ShiftedBits
<1>2. y \in SUBSET Nat
    BY <1>1
<1> HIDE DEF y
<1>3. 0 \in S
    <2>1. \A i \in Nat : i \in y <=> ~(i \in x <=> i - (m - 0) \in b)
        BY <1>1
    <2> QED BY <1>2, <2>1, SoftwareBitsStep
<1>4. ASSUME NEW k \in Nat, k \in S PROVE k + 1 \in S
    <2> SUFFICES ASSUME k + 1 <= m, NEW i \in Nat
                 PROVE  i \in SoftwareBits(y, k + 1)
                          <=> ~(i \in SoftwareBits(x, k + 1) <=> i - (m - (k + 1)) \in b)
        OBVIOUS
    <2> DEFINE Y == SoftwareBits(y, k)
               X == SoftwareBits(x, k)
    <2>1. /\ Y \in SUBSET Nat /\ X \in SUBSET Nat
          /\ SoftwareBits(y, k + 1) = SoftwareBit(Y) /\ SoftwareBits(x, k + 1) = SoftwareBit(X)
        BY <1>2, SoftwareBitsStep
    <2>2. \A j \in Nat : j \in Y <=> ~(j \in X <=> j - (m - k) \in b)
        BY <1>4
    <2> HIDE DEF Y, X, S
    <2>3. 0 - (m - k) \notin b
        OBVIOUS
    <2>4. 0 \in Y <=> 0 \in X
        BY <2>2, <2>3
    <2>5. i + 1 \in Y <=> ~(i + 1 \in X <=> i - (m - (k + 1)) \in b)
        <3>1. (i + 1) - (m - k) = i - (m - (k + 1)) /\ i + 1 \in Nat
            OBVIOUS
        <3> QED BY <2>2, <3>1
    <2>6. /\ i \in SoftwareBit(Y) <=> ~(i + 1 \in Y <=> 0 \in Y /\ i \in poly)
          /\ i \in SoftwareBit(X) <=> ~(i + 1 \in X <=> 0 \in X /\ i \in poly)
        BY <2>1, SoftwareBitBits
    <2> QED BY <2>1, <2>4, <2>5, <2>6
<1>5. m \in S
    <2> HIDE DEF S
    <2> QED BY <1>3, <1>4, Inductive
<1>6. \A i \in Nat : i \in SoftwareBits(y, m) <=> ~(i \in SoftwareBits(x, m) <=> i \in b)
    <2>1. \A i \in Nat : i - (m - m) = i
        OBVIOUS
    <2> QED BY <1>5, <2>1
<1>7. SoftwareBits(y, m) \in SUBSET Nat /\ SoftwareBits(x, m) \in SUBSET Nat
    BY <1>2, SoftwareBitsStep
<1>8. \A i : i \in Xor(SoftwareBits(x, m), b) <=> ~(i \in SoftwareBits(x, m) <=> i \in b)
    BY XorBits
<1>9. SoftwareBits(y, m) = Xor(SoftwareBits(x, m), b)
    BY <1>6, <1>7, <1>8
<1> QED BY <1>9 DEF y

\* Turns after turns.
LEMMA BitsAfterBits ==
    ASSUME NEW x \in SUBSET Nat, NEW m \in Nat, NEW n \in Nat
    PROVE  SoftwareBits(SoftwareBits(x, m), n) = SoftwareBits(x, m + n)
<1> DEFINE y == SoftwareBits(x, m)
           S == { k \in Nat : SoftwareBits(y, k) = SoftwareBits(x, m + k) }
<1>1. y \in SUBSET Nat
    BY SoftwareBitsStep
<1>2. 0 \in S
    BY <1>1, SoftwareBitsStep
<1>3. ASSUME NEW k \in Nat, k \in S PROVE k + 1 \in S
    <2>1. SoftwareBits(y, k + 1) = SoftwareBit(SoftwareBits(y, k))
        BY <1>1, SoftwareBitsStep
    <2>2. m + k \in Nat /\ (m + k) + 1 = m + (k + 1)
        OBVIOUS
    <2>3. SoftwareBits(x, (m + k) + 1) = SoftwareBit(SoftwareBits(x, m + k))
        BY <2>2, SoftwareBitsStep
    <2> QED BY <1>3, <2>1, <2>2, <2>3
<1> HIDE DEF S
<1>4. n \in S
    BY <1>2, <1>3, Inductive
<1> QED BY <1>4 DEF S

\* Each turn takes a bit off a long word.
LEMMA BitsGetFewer ==
    ASSUME NEW x \in SUBSET Nat, NEW n \in Nat, \A i \in x : i <= 31 + n
    PROVE  \A i \in SoftwareBits(x, n) : i <= 31
<1> DEFINE S == { k \in Nat : k <= n => \A i \in SoftwareBits(x, k) : i <= 31 + n - k }
<1>1. 0 \in S
    BY SoftwareBitsStep
<1>2. ASSUME NEW k \in Nat, k \in S PROVE k + 1 \in S
    <2> DEFINE X == SoftwareBits(x, k)
    <2> SUFFICES ASSUME k + 1 <= n, NEW i \in SoftwareBits(x, k + 1)
                 PROVE  i <= 31 + n - (k + 1)
        OBVIOUS
    <2>1. X \in SUBSET Nat /\ SoftwareBits(x, k + 1) = SoftwareBit(X)
        BY SoftwareBitsStep
    <2>2. \A j \in X : j <= 31 + n - k
        BY <1>2
    <2> HIDE DEF X, S
    <2>3. i \in Nat /\ (i + 1 \in X \/ i \in poly)
        BY <2>1, SoftwareBitBits
    <2>4. CASE i + 1 \in X
        BY <2>2, <2>3, <2>4
    <2>5. CASE i \in poly
        BY <2>3, <2>5, PolynomialBits DEF Polynomial
    <2> QED BY <2>3, <2>4, <2>5
<1>3. n \in S
    <2> HIDE DEF S
    <2> QED BY <1>1, <1>2, Inductive
<1> QED BY <1>3

\* The reflected polynomial and the one the division is by.
LEMMA GeneratorBits == \A j \in Int : j \in Generator <=> j = 32 \/ 31 - j \in poly
BY DEF Generator, poly

\* The bits after a turn of the division.
LEMMA DividedBits ==
    ASSUME NEW rest \in SUBSET Nat, NEW d \in Nat, d >= 32, NEW i
    PROVE  i \in Divided(rest, d)
             <=> i \in Nat /\ ~(i \in rest <=> d \in rest /\ i - (d - 32) \in Generator)
<1>1. Generator \in SUBSET Nat
    BY DEF Generator
<1>2. d - 32 \in Int
    OBVIOUS
<1>3. i \in Shifted(Generator, d - 32) <=> i \in Nat /\ i - (d - 32) \in Generator
    BY <1>1, <1>2, ShiftedBits
<1>4. i \in Xor(rest, Shifted(Generator, d - 32))
        <=> ~(i \in rest <=> i \in Shifted(Generator, d - 32))
    BY XorBits
<1>5. CASE d \in rest
    BY <1>3, <1>4, <1>5 DEF Divided
<1>6. CASE d \notin rest
    BY <1>6 DEF Divided
<1> QED BY <1>5, <1>6

\* Remainder is the iteration of Divided, from the highest degree down.
LEMMA RemainderSteps ==
    ASSUME NEW p \in SUBSET Nat, NEW width \in Nat
    PROVE  \E rest \in [Nat -> SUBSET Nat] :
               /\ rest[0] = p
               /\ \A n \in Nat : n < width => rest[n + 1] = Divided(rest[n], width + 31 - n)
               /\ Remainder(p, width + 31) = rest[width]
<1> DEFINE degree == width + 31
           Next_(n, r) == Divided(r, degree + 1 - n)
           T == SUBSET Nat
           step == [q \in Nat \X T |-> Next_(q[1], q[2])]
<1>1. \A n \in Nat, r \in T : Next_(n, r) \in T
    <2> SUFFICES ASSUME NEW n \in Nat, NEW r \in T PROVE Divided(r, degree + 1 - n) \in T
        OBVIOUS
    <2>1. Generator \in SUBSET Nat
        BY DEF Generator
    <2>2. Shifted(Generator, degree + 1 - n - 32) \in T
        BY <2>1, ShiftedBits
    <2>3. Xor(r, Shifted(Generator, degree + 1 - n - 32)) \in T
        BY <2>2 DEF Xor, SymDiff
    <2> QED BY <2>3 DEF Divided
<1>2. step \in [Nat \X T -> T]
    BY <1>1
<1> HIDE DEF T
<1>3. PICK f : Iterates(f, T, p, step)
    <2>1. p \in T
        BY DEF T
    <2> HIDE DEF step
    <2> QED BY <1>2, <2>1, Iterated
<1>4. f \in [Nat -> T] /\ f[0] = p
    BY <1>3 DEF Iterates
<1>5. ASSUME NEW n \in Nat PROVE f[n + 1] = Next_(n + 1, f[n])
    <2>1. <<n + 1, f[n]>> \in Nat \X T /\ <<n + 1, f[n]>>[1] = n + 1 /\ <<n + 1, f[n]>>[2] = f[n]
        BY <1>4
    <2>2. step[<<n + 1, f[n]>>] = Next_(n + 1, f[n])
        BY <2>1
    <2> HIDE DEF step
    <2> QED BY <1>3, <2>2 DEF Iterates
<1> DEFINE IsRest(g) == g = [i \in Nat |-> IF i = 0 THEN p ELSE Divided(g[i - 1], degree + 1 - i)]
           rest == CHOOSE g : IsRest(g)
<1>6. IsRest(f)
    <2> DEFINE g == [i \in Nat |-> IF i = 0 THEN p ELSE Divided(f[i - 1], degree + 1 - i)]
    <2>1. ASSUME NEW i \in Nat PROVE f[i] = g[i]
        <3>1. CASE i = 0
            BY <1>4, <3>1
        <3>2. CASE i # 0
            <4>1. i - 1 \in Nat /\ (i - 1) + 1 = i
                BY <3>2
            <4>2. f[i] = Next_(i, f[i - 1])
                BY <1>5, <4>1
            <4> QED BY <3>2, <4>2
        <3> QED BY <3>1, <3>2
    <2> QED BY <1>4, <2>1
<1>7. IsRest(rest)
    <2> HIDE DEF IsRest
    <2> QED BY <1>6
<1>8. Remainder(p, degree) = rest[degree - 31]
    BY DEF Remainder
<1> HIDE DEF rest
<1>9. rest[0] = p /\ \A n \in Nat : rest[n + 1] = Next_(n + 1, rest[n])
    <2>1. rest[0] = p
        BY <1>7
    <2>2. ASSUME NEW n \in Nat PROVE rest[n + 1] = Next_(n + 1, rest[n])
        <3>1. rest[n + 1] = IF n + 1 = 0 THEN p ELSE Divided(rest[n + 1 - 1], degree + 1 - (n + 1))
            BY <1>7
        <3>2. n + 1 # 0 /\ n + 1 - 1 = n
            OBVIOUS
        <3> QED BY <3>1, <3>2
    <2> QED BY <2>1, <2>2
<1>10. \A n \in Nat : rest[n] \in T
    <2> DEFINE S == { n \in Nat : rest[n] \in T }
    <2>1. 0 \in S
        BY <1>9 DEF T
    <2>2. ASSUME NEW n \in Nat, n \in S PROVE n + 1 \in S
        <3> HIDE DEF Next_
        <3> QED BY <1>1, <1>9, <2>2
    <2> HIDE DEF S
    <2>3. Nat \subseteq S
        BY <2>1, <2>2, Inductive
    <2> QED BY <2>3 DEF S
<1>11. rest \in [Nat -> T]
    <2>1. rest = [i \in Nat |-> rest[i]]
        <3> DEFINE g == [i \in Nat |-> IF i = 0 THEN p ELSE Divided(rest[i - 1], degree + 1 - i)]
        <3>1. rest = g
            BY <1>7
        <3>2. g = [i \in Nat |-> g[i]]
            OBVIOUS
        <3> HIDE DEF g
        <3> QED BY <3>1, <3>2
    <2> QED BY <1>10, <2>1
<1>12. ASSUME NEW n \in Nat, n < width PROVE rest[n + 1] = Divided(rest[n], width + 31 - n)
    <2>1. degree + 1 - (n + 1) = width + 31 - n
        OBVIOUS
    <2> QED BY <1>9, <2>1
<1>13. degree - 31 = width
    OBVIOUS
<1> QED BY <1>8, <1>9, <1>11, <1>12, <1>13 DEF T

\* Division of a polynomial takes the turns of the software variant on the
\* reflected word.
LEMMA DivisionIsBits ==
    ASSUME NEW x \in SUBSET Nat, NEW width \in Nat, NEW p \in SUBSET Nat,
           \A i \in x : i <= width + 31,
           \A i \in Nat : i \in p <=> width + 31 - i \in x
    PROVE  /\ Remainder(p, width + 31) \in SUBSET Nat
           /\ \A i \in Nat : i \in Remainder(p, width + 31) <=> 31 - i \in SoftwareBits(x, width)
<1>1. PICK rest \in [Nat -> SUBSET Nat] :
          /\ rest[0] = p
          /\ \A n \in Nat : n < width => rest[n + 1] = Divided(rest[n], width + 31 - n)
          /\ Remainder(p, width + 31) = rest[width]
    BY RemainderSteps
<1> DEFINE S == { k \in Nat : k <= width => \A i \in Nat :
                    i \in rest[k] <=> (width + 31 - k) - i \in SoftwareBits(x, k) }
<1>2. 0 \in S
    <2>1. \A i \in Nat : i \in p <=> (width + 31 - 0) - i \in x
        OBVIOUS
    <2> QED BY <1>1, <2>1, SoftwareBitsStep
<1>3. ASSUME NEW k \in Nat, k \in S PROVE k + 1 \in S
    <2> SUFFICES ASSUME k + 1 <= width, NEW i \in Nat
                 PROVE  i \in rest[k + 1] <=> (width + 31 - (k + 1)) - i \in SoftwareBits(x, k + 1)
        OBVIOUS
    <2> DEFINE X == SoftwareBits(x, k)
               R == rest[k]
               d == width + 31 - k
    <2>1. X \in SUBSET Nat /\ SoftwareBits(x, k + 1) = SoftwareBit(X)
        BY SoftwareBitsStep
    <2>2. R \in SUBSET Nat /\ rest[k + 1] = Divided(R, d)
        BY <1>1
    <2>3. \A j \in Nat : j \in R <=> d - j \in X
        BY <1>3
    <2>4. d \in Nat /\ d >= 32 /\ d - d = 0 /\ (width + 31 - (k + 1)) - i = d - 1 - i
        OBVIOUS
    <2> HIDE DEF X, R, S, d
    <2>5. d \in R <=> 0 \in X
        BY <2>3, <2>4
    <2>6. i \in Divided(R, d) <=> ~(i \in R <=> d \in R /\ i - (d - 32) \in Generator)
        BY <2>2, <2>4, DividedBits
    <2>7. i - (d - 32) \in Generator <=> i = d \/ d - 1 - i \in poly
        <3>1. i - (d - 32) \in Int /\ 31 - (i - (d - 32)) = d - 1 - i /\ (i - (d - 32) = 32 <=> i = d)
            BY <2>4
        <3>2. i - (d - 32) \in Generator <=> i - (d - 32) = 32 \/ 31 - (i - (d - 32)) \in poly
            BY <3>1, GeneratorBits
        <3> QED BY <3>1, <3>2
    <2>8. d - 1 - i \in SoftwareBit(X)
            <=> d - 1 - i \in Nat /\ ~(d - 1 - i + 1 \in X <=> 0 \in X /\ d - 1 - i \in poly)
        BY <2>1, SoftwareBitBits
    <2>9. d - 1 - i + 1 = d - i
        BY <2>4
    <2>10. CASE i < d
        <3>1. d - 1 - i \in Nat /\ i # d
            BY <2>4, <2>10
        <3> QED BY <2>1, <2>2, <2>3, <2>4, <2>5, <2>6, <2>7, <2>8, <2>9, <3>1
    <2>11. CASE i = d
        <3>1. d - 1 - i \notin Nat
            BY <2>4, <2>11
        <3> QED BY <2>1, <2>2, <2>4, <2>5, <2>6, <2>7, <2>8, <2>11, <3>1
    <2>12. CASE i > d
        <3>1. d - 1 - i \notin Nat /\ d - i \notin Nat /\ i # d
            BY <2>4, <2>12
        <3>2. d - 1 - i \notin poly /\ d - i \notin X
            BY <2>1, <3>1, PolynomialBits DEF Polynomial
        <3> QED BY <2>1, <2>2, <2>3, <2>4, <2>6, <2>7, <2>8, <3>1, <3>2
    <2> QED BY <2>4, <2>10, <2>11, <2>12
<1>4. width \in S
    <2> HIDE DEF S
    <2> QED BY <1>2, <1>3, Inductive
<1>5. \A i \in Nat : (width + 31 - width) - i = 31 - i
    OBVIOUS
<1> QED BY <1>1, <1>4, <1>5

\* The instruction on a value is the software variant on its bits, whatever
\* their number.
LEMMA InstructionIsBits ==
    ASSUME NEW width \in Nat, NEW word \in SUBSET (0..31), NEW value \in SUBSET (0..(width - 1))
    PROVE  CrcInstruction(word, value, width) = SoftwareBits(Xor(word, value), width)
<1> DEFINE x == Xor(word, value)
           p == Xor(Shifted(Reflected(value, width), 32), Shifted(Reflected(word, 32), width))
           r == Remainder(p, width + 31)
<1>1. word \in SUBSET Nat /\ value \in SUBSET Nat
    OBVIOUS
<1>2. \A i : i \in x <=> ~(i \in word <=> i \in value)
    BY XorBits
<1>3. x \in SUBSET Nat /\ \A i \in x : i <= width + 31
    <2>1. ASSUME NEW i \in x PROVE i \in Nat /\ i <= width + 31
        <3>1. i \in word \/ i \in value
            BY <1>2, <2>1
        <3>2. i \in 0..31 \/ i \in 0..(width - 1)
            BY <3>1
        <3> QED BY <3>2
    <2> QED BY <2>1
<1>4. /\ \A i : i \in Reflected(value, width) <=> i \in Int /\ width - 1 - i \in value
      /\ \A i : i \in Reflected(word, 32) <=> i \in Int /\ 32 - 1 - i \in word
    BY <1>1, ReflectedBits
<1>5. Reflected(value, width) \in SUBSET Nat /\ Reflected(word, 32) \in SUBSET Nat
    <2>1. ASSUME NEW i \in Reflected(value, width) PROVE i \in Nat
        <3>1. i \in Int /\ width - 1 - i \in 0..(width - 1)
            BY <1>4, <2>1
        <3> QED BY <3>1
    <2>2. ASSUME NEW i \in Reflected(word, 32) PROVE i \in Nat
        <3>1. i \in Int /\ 32 - 1 - i \in 0..31
            BY <1>4, <2>2
        <3> QED BY <3>1
    <2> QED BY <2>1, <2>2
<1>6. /\ \A i : i \in Shifted(Reflected(value, width), 32)
                  <=> i \in Nat /\ i - 32 \in Reflected(value, width)
      /\ \A i : i \in Shifted(Reflected(word, 32), width)
                  <=> i \in Nat /\ i - width \in Reflected(word, 32)
    BY <1>5, ShiftedBits
<1>7. \A i : i \in p <=> ~(i \in Shifted(Reflected(value, width), 32)
                             <=> i \in Shifted(Reflected(word, 32), width))
    BY XorBits
<1>8. p \in SUBSET Nat
    BY <1>6, <1>7
<1>9. ASSUME NEW i \in Nat PROVE i \in p <=> width + 31 - i \in x
    <2>1. /\ width - 1 - (i - 32) = width + 31 - i
          /\ 32 - 1 - (i - width) = width + 31 - i
          /\ i - 32 \in Int /\ i - width \in Int
        OBVIOUS
    <2>2. i - 32 \in Reflected(value, width) <=> width + 31 - i \in value
        BY <1>4, <2>1
    <2>3. i - width \in Reflected(word, 32) <=> width + 31 - i \in word
        BY <1>4, <2>1
    <2> HIDE DEF p, x
    <2> QED BY <1>2, <1>6, <1>7, <2>2, <2>3
<1>10. /\ r \in SUBSET Nat
       /\ \A i \in Nat : i \in r <=> 31 - i \in SoftwareBits(x, width)
    <2> HIDE DEF p, x
    <2> QED BY <1>3, <1>8, <1>9, DivisionIsBits
<1>11. CrcInstruction(word, value, width) = Reflected(r, 32)
    BY DEF CrcInstruction
<1> HIDE DEF r, p, x
<1>12. \A i : i \in Reflected(r, 32) <=> i \in Int /\ 32 - 1 - i \in r
    BY <1>10, ReflectedBits
<1>13. SoftwareBits(x, width) \in SUBSET Nat /\ \A i \in SoftwareBits(x, width) : i <= 31
    <2>1. \A i \in x : i <= 31 + width
        BY <1>3
    <2> QED BY <1>3, <2>1, SoftwareBitsStep, BitsGetFewer
<1>14. ASSUME NEW i \in Int PROVE i \in Reflected(r, 32) <=> i \in SoftwareBits(x, width)
    <2>1. i \in Reflected(r, 32) <=> 31 - i \in r
        <3>1. 32 - 1 - i = 31 - i
            OBVIOUS
        <3> QED BY <1>12, <3>1
    <2>2. CASE i <= 31
        <3>1. 31 - i \in Nat /\ 31 - (31 - i) = i
            BY <2>2
        <3> QED BY <1>10, <2>1, <3>1
    <2>3. CASE i > 31
        <3>1. 31 - i \notin Nat /\ ~(i <= 31)
            BY <2>3
        <3> QED BY <1>10, <1>13, <2>1, <3>1
    <2> QED BY <2>2, <2>3
<1>15. Reflected(r, 32) \subseteq Int /\ SoftwareBits(x, width) \subseteq Int
    BY <1>12, <1>13
<1>16. Reflected(r, 32) = SoftwareBits(x, width)
    BY <1>14, <1>15
<1> QED BY <1>11, <1>16 DEF x

-----------------------------------------------------------------------------
(* The register behind the first bytes *)

\* The bits of a load: those of its first byte are the lowest.
LEMMA LoadedBits ==
    ASSUME NEW bytes \in Seq(SUBSET (0..7)), NEW a \in Nat, NEW n \in Nat, a + n <= Len(bytes), NEW i
    PROVE  i \in Loaded(SubSeq(bytes, a + 1, a + n))
             <=> i \in 0..(8 * n - 1) /\ i % 8 \in bytes[a + 1 + i \div 8]
<1> DEFINE part == SubSeq(bytes, a + 1, a + n)
<1>1. \A k \in (a + 1)..(a + n) : bytes[k] \in SUBSET (0..7)
    <2>1. Len(bytes) \in Nat
        BY LenProperties
    <2> QED BY <2>1, ElementOfSeq
<1>2. /\ part \in Seq(SUBSET (0..7))
      /\ Len(part) = IF a + 1 <= a + n THEN a + n - (a + 1) + 1 ELSE 0
      /\ \A k \in 1..(a + n - (a + 1) + 1) : part[k] = bytes[a + 1 + k - 1]
    BY <1>1, SubSeqProperties
<1>3. Len(part) = n /\ DOMAIN part = 1..n
    <2>1. Len(part) = n
        BY <1>2
    <2> QED BY <1>2, <2>1, LenProperties
<1>4. ASSUME NEW k \in 1..n PROVE part[k] = bytes[a + k] /\ part[k] \in SUBSET (0..7)
    <2>1. k \in 1..(a + n - (a + 1) + 1) /\ a + 1 + k - 1 = a + k /\ a + k \in (a + 1)..(a + n)
        OBVIOUS
    <2>2. part[k] = bytes[a + k]
        BY <1>2, <2>1
    <2> QED BY <1>1, <2>1, <2>2
<1> HIDE DEF part
<1>5. i \in Loaded(part) <=> \E k \in 1..n : i \in Shifted(part[k], 8 * (k - 1))
    BY <1>3 DEF Loaded
<1>6. ASSUME NEW k \in 1..n
      PROVE  i \in Shifted(part[k], 8 * (k - 1)) <=> i \in Nat /\ i - 8 * (k - 1) \in bytes[a + k]
    <2>1. part[k] = bytes[a + k] /\ part[k] \in SUBSET (0..7)
        BY <1>4
    <2>2. part[k] \in SUBSET Nat
        BY <2>1
    <2>3. 8 * (k - 1) \in Int
        OBVIOUS
    <2> QED BY <2>1, <2>2, <2>3, ShiftedBits
<1>7. ASSUME i \in Loaded(part)
      PROVE  i \in 0..(8 * n - 1) /\ i % 8 \in bytes[a + 1 + i \div 8]
    <2>1. PICK k \in 1..n : i \in Nat /\ i - 8 * (k - 1) \in bytes[a + k]
        BY <1>5, <1>6, <1>7
    <2>2. i - 8 * (k - 1) \in 0..7
        BY <1>4, <2>1
    <2>3. i % 8 = i - 8 * (k - 1) /\ i \div 8 = k - 1 /\ i \in 0..(8 * n - 1)
        <3>1. PICK r \in 0..7 : i = 8 * (k - 1) + r
            BY <2>1, <2>2
        <3>2. k - 1 \in Nat /\ k - 1 <= n - 1
            OBVIOUS
        <3>3. i % 8 = r /\ i \div 8 = k - 1
            BY <3>1, <3>2
        <3> QED BY <3>1, <3>2, <3>3
    <2>4. a + 1 + (k - 1) = a + k
        OBVIOUS
    <2> QED BY <2>1, <2>3, <2>4
<1>8. ASSUME i \in 0..(8 * n - 1), i % 8 \in bytes[a + 1 + i \div 8]
      PROVE  i \in Loaded(part)
    <2> DEFINE k == i \div 8 + 1
    <2>1. k \in 1..n /\ i - 8 * (k - 1) = i % 8 /\ a + 1 + i \div 8 = a + k
        BY <1>8
    <2> HIDE DEF k
    <2>2. i \in Nat /\ i - 8 * (k - 1) \in bytes[a + k]
        BY <1>8, <2>1
    <2>3. i \in Shifted(part[k], 8 * (k - 1))
        BY <1>6, <2>1, <2>2
    <2> QED BY <1>5, <2>1, <2>3
<1> QED BY <1>7, <1>8 DEF part

\* The register behind the first n bytes, in one formula: as many turns as they
\* have bits on the word that holds them all.
RegisterAfter(bytes, n) == SoftwareBits(Xor(AllOnes, Loaded(SubSeq(bytes, 1, n))), 8 * n)

\* The bits of the first n bytes of a message.
LEMMA FirstBits ==
    ASSUME NEW bytes \in Seq(SUBSET (0..7)), NEW n \in 0..Len(bytes), NEW i
    PROVE  i \in Loaded(SubSeq(bytes, 1, n))
             <=> i \in 0..(8 * n - 1) /\ i % 8 \in bytes[1 + i \div 8]
<1>1. n \in Nat /\ 0 + n <= Len(bytes) /\ 0 + 1 = 1 /\ 0 + n = n
    BY LenProperties
<1>2. i \in Loaded(SubSeq(bytes, 0 + 1, 0 + n))
        <=> i \in 0..(8 * n - 1) /\ i % 8 \in bytes[0 + 1 + i \div 8]
    BY <1>1, LoadedBits
<1> QED BY <1>1, <1>2

\* The register is a word of 32 bits.
LEMMA RegisterIsWord ==
    ASSUME NEW bytes \in Seq(SUBSET (0..7)), NEW n \in 0..Len(bytes)
    PROVE  /\ Xor(AllOnes, Loaded(SubSeq(bytes, 1, n))) \in SUBSET Nat
           /\ RegisterAfter(bytes, n) \in SUBSET (0..31)
<1> DEFINE x == Xor(AllOnes, Loaded(SubSeq(bytes, 1, n)))
<1>1. n \in Nat
    BY LenProperties
<1>2. ASSUME NEW i \in x PROVE i \in Nat /\ i <= 31 + 8 * n
    <2> DEFINE first == Loaded(SubSeq(bytes, 1, n))
    <2>1. i \in first => i \in 0..(8 * n - 1)
        BY FirstBits
    <2> HIDE DEF first
    <2>2. i \in Xor(AllOnes, first)
        BY <1>2 DEF first
    <2>3. i \in AllOnes \/ i \in first
        BY <2>2, XorBits
    <2>4. i \in 0..31 \/ i \in 0..(8 * n - 1)
        BY <2>1, <2>3 DEF AllOnes
    <2>5. 8 * n \in Nat
        BY <1>1
    <2>6. CASE i \in 0..31
        BY <2>5, <2>6
    <2>7. CASE i \in 0..(8 * n - 1)
        BY <2>5, <2>7
    <2> QED BY <2>4, <2>6, <2>7
<1> HIDE DEF x
<1>3. x \in SUBSET Nat /\ 8 * n \in Nat
    BY <1>1, <1>2
<1>4. SoftwareBits(x, 8 * n) \in SUBSET Nat
    BY <1>3, SoftwareBitsStep
<1>5. \A i \in SoftwareBits(x, 8 * n) : i <= 31
    BY <1>2, <1>3, BitsGetFewer
<1>6. SoftwareBits(x, 8 * n) \in SUBSET (0..31)
    <2> SUFFICES ASSUME NEW i \in SoftwareBits(x, 8 * n) PROVE i \in 0..31
        OBVIOUS
    <2>1. i \in Nat /\ i <= 31
        BY <1>4, <1>5
    <2> QED BY <2>1
<1> QED BY <1>3, <1>6 DEF x, RegisterAfter

\* With the next bytes xored into the register, as many turns as they have bits
\* lead to the register behind them.
LEMMA RegisterMore ==
    ASSUME NEW bytes \in Seq(SUBSET (0..7)), NEW p \in Nat, NEW n \in Nat, p + n <= Len(bytes)
    PROVE  LET value == Loaded(SubSeq(bytes, p + 1, p + n))
           IN  /\ value \in SUBSET (0..(8 * n - 1))
               /\ SoftwareBits(Xor(RegisterAfter(bytes, p), value), 8 * n) = RegisterAfter(bytes, p + n)
<1> DEFINE value == Loaded(SubSeq(bytes, p + 1, p + n))
           before == Loaded(SubSeq(bytes, 1, p))
           all == Loaded(SubSeq(bytes, 1, p + n))
           x == Xor(AllOnes, before)
           high == Shifted(value, 8 * p)
<1>1. p \in 0..Len(bytes) /\ p + n \in 0..Len(bytes) /\ 8 * p \in Nat /\ 8 * n \in Nat
    BY LenProperties
<1>2. /\ \A i : i \in value <=> i \in 0..(8 * n - 1) /\ i % 8 \in bytes[p + 1 + i \div 8]
      /\ \A i : i \in before <=> i \in 0..(8 * p - 1) /\ i % 8 \in bytes[1 + i \div 8]
      /\ \A i : i \in all <=> i \in 0..(8 * (p + n) - 1) /\ i % 8 \in bytes[1 + i \div 8]
    BY <1>1, LoadedBits, FirstBits
<1> HIDE DEF value, before, all
<1>3. value \in SUBSET (0..(8 * n - 1)) /\ value \in SUBSET Nat
    BY <1>2
<1>4. \A i : i \in high <=> i \in Nat /\ i - 8 * p \in value
    BY <1>1, <1>3, ShiftedBits
<1> HIDE DEF high
<1>5. ASSUME NEW i \in Nat PROVE i \in all <=> ~(i \in before <=> i \in high)
    <2>1. CASE i < 8 * p
        <3>1. i - 8 * p \notin 0..(8 * n - 1) /\ (i \in 0..(8 * p - 1)) /\ i \in 0..(8 * (p + n) - 1)
            BY <2>1
        <3> QED BY <1>2, <1>3, <1>4, <3>1
    <2>2. CASE i >= 8 * p
        <3> DEFINE j == i - 8 * p
        <3>1. j \in Nat /\ i = j + 8 * p
            BY <2>2
        <3>2. i % 8 = j % 8 /\ p + 1 + j \div 8 = 1 + i \div 8
            <4>1. PICK r \in 0..7, q \in Nat : j = 8 * q + r
                <5>1. j % 8 \in 0..7 /\ j \div 8 \in Nat /\ j = 8 * (j \div 8) + (j % 8)
                    BY <3>1
                <5> QED BY <5>1
            <4>2. j % 8 = r /\ j \div 8 = q
                BY <4>1
            <4>3. i = 8 * (q + p) + r /\ q + p \in Nat
                BY <3>1, <4>1
            <4>4. i % 8 = r /\ i \div 8 = q + p
                BY <4>3
            <4> QED BY <4>2, <4>4
        <3>3. i \notin 0..(8 * p - 1) /\ (i \in 0..(8 * (p + n) - 1) <=> j \in 0..(8 * n - 1))
            BY <2>2, <3>1
        <3>4. i \in high <=> j \in value
            BY <1>4
        <3> HIDE DEF j
        <3>5. j \in value <=> i \in all
            BY <1>2, <3>2, <3>3
        <3> QED BY <1>2, <3>3, <3>4, <3>5
    <2> QED BY <2>1, <2>2
<1>6. /\ \A i : i \in x <=> ~(i \in AllOnes <=> i \in before)
      /\ \A i : i \in Xor(x, high) <=> ~(i \in x <=> i \in high)
      /\ \A i : i \in Xor(AllOnes, all) <=> ~(i \in AllOnes <=> i \in all)
    BY XorBits
<1>7. /\ x \in SUBSET Nat /\ all \subseteq Nat /\ AllOnes \subseteq Nat
      /\ RegisterAfter(bytes, p) = SoftwareBits(x, 8 * p)
      /\ RegisterAfter(bytes, p + n) = SoftwareBits(Xor(AllOnes, all), 8 * (p + n))
    <2>1. x \in SUBSET Nat
        BY <1>1, RegisterIsWord DEF before
    <2>2. RegisterAfter(bytes, p) = SoftwareBits(x, 8 * p)
        BY DEF RegisterAfter, before
    <2>3. RegisterAfter(bytes, p + n) = SoftwareBits(Xor(AllOnes, all), 8 * (p + n))
        BY DEF RegisterAfter, all
    <2>4. all \subseteq Nat
        BY <1>2
    <2> QED BY <2>1, <2>2, <2>3, <2>4 DEF AllOnes
<1> HIDE DEF x
<1>8. Xor(x, high) = Xor(AllOnes, all)
    <2>1. \A i \in Nat : i \in Xor(x, high) <=> i \in Xor(AllOnes, all)
        BY <1>5, <1>6
    <2>2. Xor(x, high) \subseteq Nat /\ Xor(AllOnes, all) \subseteq Nat
        BY <1>4, <1>6, <1>7
    <2> QED BY <2>1, <2>2
<1>9. Xor(SoftwareBits(x, 8 * p), value) = SoftwareBits(Xor(x, high), 8 * p)
    BY <1>1, <1>3, <1>7, HighBitsWait DEF high
<1>10. Xor(x, high) \in SUBSET Nat
    BY <1>4, <1>6, <1>7
<1>11. SoftwareBits(SoftwareBits(Xor(x, high), 8 * p), 8 * n) = SoftwareBits(Xor(x, high), 8 * p + 8 * n)
    BY <1>1, <1>10, BitsAfterBits
<1>12. 8 * p + 8 * n = 8 * (p + n)
    OBVIOUS
<1>13. SoftwareBits(Xor(RegisterAfter(bytes, p), value), 8 * n) = RegisterAfter(bytes, p + n)
    BY <1>7, <1>8, <1>9, <1>11, <1>12
<1> QED BY <1>3, <1>13 DEF value

\* A byte is the load of itself.
LEMMA ByteLoaded ==
    ASSUME NEW bytes \in Seq(SUBSET (0..7)), NEW p \in Nat, p + 1 <= Len(bytes)
    PROVE  Loaded(SubSeq(bytes, p + 1, p + 1)) = bytes[p + 1]
<1> DEFINE value == Loaded(SubSeq(bytes, p + 1, p + 1))
<1>1. \A i : i \in value <=> i \in 0..(8 * 1 - 1) /\ i % 8 \in bytes[p + 1 + i \div 8]
    BY LoadedBits
<1>2. bytes[p + 1] \in SUBSET (0..7)
    <2>1. p + 1 \in 1..Len(bytes)
        BY LenProperties
    <2> QED BY <2>1, ElementOfSeq
<1>3. \A i \in 0..7 : i % 8 = i /\ p + 1 + i \div 8 = p + 1
    OBVIOUS
<1>4. 8 * 1 - 1 = 7
    OBVIOUS
<1> HIDE DEF value
<1>5. \A i : i \in value <=> i \in bytes[p + 1]
    BY <1>1, <1>2, <1>3, <1>4
<1>6. value = bytes[p + 1]
    BY <1>5
<1> QED BY <1>6 DEF value

\* A byte that the software variant takes leads to the register behind it.
LEMMA ByteTaken ==
    ASSUME NEW bytes \in Seq(SUBSET (0..7)), NEW p \in Nat, p + 1 <= Len(bytes)
    PROVE  SoftwareByte(RegisterAfter(bytes, p), bytes[p + 1]) = RegisterAfter(bytes, p + 1)
<1>1. SoftwareBits(Xor(RegisterAfter(bytes, p), Loaded(SubSeq(bytes, p + 1, p + 1))), 8 * 1)
        = RegisterAfter(bytes, p + 1)
    BY RegisterMore
<1>2. 8 * 1 = 8
    OBVIOUS
<1> QED BY <1>1, <1>2, ByteLoaded DEF SoftwareByte

\* The same with the instruction, for n bytes at a time.
LEMMA ValueTaken ==
    ASSUME NEW bytes \in Seq(SUBSET (0..7)), NEW p \in Nat, NEW n \in Nat, p + n <= Len(bytes)
    PROVE  CrcInstruction(RegisterAfter(bytes, p), Loaded(SubSeq(bytes, p + 1, p + n)), 8 * n)
             = RegisterAfter(bytes, p + n)
<1> DEFINE value == Loaded(SubSeq(bytes, p + 1, p + n))
<1>1. /\ value \in SUBSET (0..(8 * n - 1))
      /\ SoftwareBits(Xor(RegisterAfter(bytes, p), value), 8 * n) = RegisterAfter(bytes, p + n)
    BY RegisterMore
<1>2. RegisterAfter(bytes, p) \in SUBSET (0..31)
    <2>1. p \in 0..Len(bytes)
        BY LenProperties
    <2> QED BY <2>1, RegisterIsWord
<1>3. 8 * n \in Nat
    OBVIOUS
<1> HIDE DEF value
<1>4. CrcInstruction(RegisterAfter(bytes, p), value, 8 * n)
        = SoftwareBits(Xor(RegisterAfter(bytes, p), value), 8 * n)
    BY <1>1, <1>2, <1>3, InstructionIsBits
<1> QED BY <1>1, <1>4 DEF value

\* Before the first byte the register is all ones.
LEMMA RegisterStarts ==
    ASSUME NEW bytes \in Seq(SUBSET (0..7))
    PROVE  RegisterAfter(bytes, 0) = AllOnes
<1> DEFINE none == Loaded(SubSeq(bytes, 1, 0))
<1>1. 0 \in 0..Len(bytes) /\ 8 * 0 = 0
    BY LenProperties
<1>2. \A i : i \notin none
    <2>1. \A i : i \in none => i \in 0..(8 * 0 - 1)
        BY <1>1, FirstBits
    <2> QED BY <2>1
<1>3. RegisterAfter(bytes, 0) = SoftwareBits(Xor(AllOnes, none), 0)
    BY <1>1 DEF RegisterAfter
<1> HIDE DEF none
<1>4. Xor(AllOnes, none) = AllOnes
    BY <1>2 DEF Xor, SymDiff
<1>5. AllOnes \in SUBSET Nat
    BY DEF AllOnes
<1> QED BY <1>3, <1>4, <1>5, SoftwareBitsStep

-----------------------------------------------------------------------------
(* Segments and variants *)

\* While a message is being taken in, both registers are what its first bytes
\* make of them, and the segments left make up the rest.
CrcInv ==
    /\ cpu = "none" => /\ segments = <<>> /\ crc = {} /\ ptr = 0
                       /\ peer = [crc |-> {}, ptr |-> 0]
    /\ cpu # "none" =>
          /\ message \in Seq(SUBSET (0..7))
          /\ ptr \in 0..Len(message) /\ crc = RegisterAfter(message, ptr)
          /\ peer.ptr \in 0..ptr /\ peer.crc = RegisterAfter(message, peer.ptr)
          /\ IF segments = <<>> THEN ptr = Len(message)
             ELSE IsCut(segments, Len(message)) /\ ptr <= segments[1].end

\* crc32c is called.
LEMMA CrcCallKeeps ==
    ASSUME Checksum
    PROVE  CrcInv'
<1>1. PICK bytes \in Messages, kind \in {"software", "i386", "x86_64"} :
          \E cuts \in Cuts(Len(bytes)) : CrcCall(bytes, cuts, kind)
    BY DEF Checksum
<1>2. PICK cuts \in Cuts(Len(bytes)) : CrcCall(bytes, cuts, kind)
    BY <1>1
<1>3. bytes \in Seq(SUBSET (0..7)) /\ IsCut(cuts, Len(bytes))
    BY MessagesAssumption
<1>4. /\ message' = bytes /\ segments' = cuts /\ cpu' = kind /\ crc' = AllOnes /\ ptr' = 0
      /\ peer' = [crc |-> AllOnes, ptr |-> 0]
    BY <1>2 DEF CrcCall
<1>5. RegisterAfter(bytes, 0) = AllOnes
    BY <1>3, RegisterStarts
<1>6. Len(bytes) \in Nat
    BY <1>3, LenProperties
<1>7. cuts # <<>> /\ cuts[1].end \in Nat
    <2>1. cuts \in Seq([address : Nat, end : 0..Len(bytes)]) /\ cuts # <<>>
        BY <1>3 DEF IsCut
    <2>2. 1 \in 1..Len(cuts)
        BY <2>1, LenProperties, EmptySeq
    <2>3. cuts[1] \in [address : Nat, end : 0..Len(bytes)]
        BY <2>1, <2>2, ElementOfSeq
    <2> QED BY <1>6, <2>1, <2>3
<1>8. peer'.ptr = 0 /\ peer'.crc = AllOnes /\ cpu' # "none"
    BY <1>4
<1> QED BY <1>3, <1>4, <1>5, <1>6, <1>7, <1>8 DEF CrcInv

\* The first segment, and the rest behind it.
LEMMA CutParts ==
    ASSUME NEW cuts, NEW size \in Nat, IsCut(cuts, size)
    PROVE  /\ Len(cuts) \in Nat \ {0}
           /\ cuts[1].address \in Nat /\ cuts[1].end \in 0..size
           /\ Head(cuts) = cuts[1]
           /\ IF Tail(cuts) = <<>> THEN cuts[1].end = size
              ELSE IsCut(Tail(cuts), size) /\ cuts[1].end <= Tail(cuts)[1].end
<1> DEFINE Segments == [address : Nat, end : 0..size]
           rest == Tail(cuts)
<1>1. cuts \in Seq(Segments) /\ cuts # <<>> /\ cuts[Len(cuts)].end = size
      /\ \A i \in 1..(Len(cuts) - 1) : cuts[i].end <= cuts[i + 1].end
    BY DEF IsCut
<1>2. Len(cuts) \in Nat \ {0}
    BY <1>1, LenProperties, EmptySeq
<1>3. cuts[1] \in Segments
    <2>1. 1 \in 1..Len(cuts)
        BY <1>2
    <2> QED BY <1>1, <2>1, ElementOfSeq
<1>4. Head(cuts) = cuts[1]
    BY <1>1, <1>2
<1>5. /\ rest \in Seq(Segments) /\ Len(rest) = Len(cuts) - 1
      /\ \A i \in 1..Len(rest) : rest[i] = cuts[i + 1]
    BY <1>1, HeadTailProperties
<1> HIDE DEF rest, Segments
<1>6. CASE rest = <<>>
    <2>1. Len(cuts) = 1
        BY <1>2, <1>5, <1>6
    <2> QED BY <1>1, <1>2, <1>3, <1>4, <1>6, <2>1 DEF rest, Segments
<1>7. CASE rest # <<>>
    <2>1. Len(rest) \in Nat \ {0}
        BY <1>5, <1>7, LenProperties, EmptySeq
    <2>2. rest[Len(rest)].end = size
        <3>1. Len(rest) \in 1..Len(rest) /\ Len(rest) + 1 = Len(cuts)
            BY <1>2, <1>5, <2>1
        <3>2. rest[Len(rest)] = cuts[Len(rest) + 1]
            BY <1>5, <3>1
        <3> QED BY <1>1, <3>1, <3>2
    <2>3. ASSUME NEW i \in 1..(Len(rest) - 1) PROVE rest[i].end <= rest[i + 1].end
        <3>1. i \in 1..Len(rest) /\ i + 1 \in 1..Len(rest) /\ i + 1 \in 1..(Len(cuts) - 1)
            BY <1>2, <1>5, <2>1
        <3>2. rest[i] = cuts[i + 1] /\ rest[i + 1] = cuts[i + 1 + 1]
            BY <1>5, <3>1
        <3> QED BY <1>1, <3>1, <3>2
    <2>4. IsCut(rest, size)
        BY <1>5, <1>7, <2>2, <2>3 DEF IsCut, Segments
    <2>5. cuts[1].end <= rest[1].end
        <3>1. 1 \in 1..Len(rest) /\ 1 \in 1..(Len(cuts) - 1) /\ 1 + 1 = 2
            BY <1>2, <1>5, <2>1
        <3>2. rest[1] = cuts[1 + 1] /\ cuts[1].end <= cuts[1 + 1].end
            BY <1>1, <1>5, <3>1
        <3> QED BY <3>2
    <2> QED BY <1>2, <1>3, <1>4, <1>7, <2>4, <2>5 DEF rest, Segments
<1> QED BY <1>6, <1>7

\* A step never goes beyond its segment.
LEMMA StepFits ==
    ASSUME NEW segment, segment.end \in Nat, ptr \in Nat, Size(segment) > 0
    PROVE  /\ StepSize(segment) \in Nat \ {0}
           /\ ptr + StepSize(segment) <= segment.end
           /\ cpu = "software" => StepSize(segment) = 1
BY DEF StepSize, Size

\* A turn of a loop keeps the invariant, with a byte or with a value of several.
LEMMA CrcStepKeeps ==
    ASSUME CrcInv, CrcStep
    PROVE  CrcInv'
<1> DEFINE segment == Head(segments)
           n == StepSize(segment)
           size == Len(message)
<1>1. cpu # "none"
    BY DEF CrcInv, CrcStep
<1>2. /\ message \in Seq(SUBSET (0..7))
      /\ ptr \in 0..size /\ crc = RegisterAfter(message, ptr)
      /\ peer.ptr \in 0..ptr /\ peer.crc = RegisterAfter(message, peer.ptr)
      /\ segments # <<>> /\ IsCut(segments, size) /\ ptr <= segments[1].end
    BY <1>1 DEF CrcInv, CrcStep
<1>3. size \in Nat
    BY <1>2, LenProperties
<1>4. /\ Len(segments) \in Nat \ {0}
      /\ segments[1].address \in Nat /\ segments[1].end \in 0..size /\ segment = segments[1]
    BY <1>2, <1>3, CutParts
<1>5. /\ n \in Nat \ {0} /\ ptr + n <= segment.end
      /\ cpu = "software" => n = 1
    <2>1. Size(segment) > 0
        BY DEF CrcStep
    <2>2. segment.end \in Nat /\ ptr \in Nat
        BY <1>2, <1>3, <1>4
    <2> QED BY <2>1, <2>2, StepFits
<1>6. /\ crc' = IF cpu = "software" THEN SoftwareByte(crc, message[ptr + 1])
                ELSE CrcInstruction(crc, Loaded(SubSeq(message, ptr + 1, ptr + n)), 8 * n)
      /\ ptr' = ptr + n
      /\ segments' = [segments EXCEPT ![1].address = @ + n]
      /\ message' = message /\ cpu' = cpu /\ peer' = peer
    BY DEF CrcStep
<1> HIDE DEF n, segment
<1>7. ptr + n <= size /\ ptr \in Nat /\ ptr + n \in 0..size
    BY <1>2, <1>3, <1>4, <1>5
<1>8. crc' = RegisterAfter(message, ptr + n)
    <2>1. CASE cpu = "software"
        <3>1. n = 1
            BY <1>5, <2>1
        <3>2. SoftwareByte(RegisterAfter(message, ptr), message[ptr + 1]) = RegisterAfter(message, ptr + 1)
            BY <1>2, <1>7, <3>1, ByteTaken
        <3> QED BY <1>2, <1>6, <2>1, <3>1, <3>2
    <2>2. CASE cpu # "software"
        <3>1. CrcInstruction(RegisterAfter(message, ptr), Loaded(SubSeq(message, ptr + 1, ptr + n)), 8 * n)
                = RegisterAfter(message, ptr + n)
            BY <1>2, <1>5, <1>7, ValueTaken
        <3> QED BY <1>2, <1>6, <2>2, <3>1
    <2> QED BY <2>1, <2>2
<1>9. segments' # <<>> /\ IsCut(segments', size) /\ segments'[1].end = segments[1].end
    <2> DEFINE Segments == [address : Nat, end : 0..size]
               first == [segments[1] EXCEPT !.address = @ + n]
    <2>1. segments \in Seq(Segments) /\ 1 \in 1..Len(segments)
        BY <1>2, <1>4 DEF IsCut
    <2>2. segments[1] \in Segments
        BY <2>1, ElementOfSeq
    <2>3. first \in Segments /\ first.end = segments[1].end
        BY <1>5, <2>2
    <2>4. segments' = [segments EXCEPT ![1] = first]
        BY <1>6
    <2> HIDE DEF first, Segments
    <2>5. /\ segments' \in Seq(Segments) /\ Len(segments') = Len(segments)
          /\ \A i \in 1..Len(segments) : segments'[i] = IF i = 1 THEN first ELSE segments[i]
        BY <2>1, <2>3, <2>4, ExceptSeq
    <2>6. \A i \in 1..Len(segments) : segments'[i].end = segments[i].end
        BY <2>3, <2>5
    <2>7. segments' # <<>>
        BY <1>4, <2>5
    <2>8. segments'[Len(segments')].end = size
        <3>1. Len(segments) \in 1..Len(segments)
            BY <1>4
        <3> QED BY <1>2, <2>5, <2>6, <3>1 DEF IsCut
    <2>9. ASSUME NEW i \in 1..(Len(segments') - 1) PROVE segments'[i].end <= segments'[i + 1].end
        <3>1. i \in 1..Len(segments) /\ i + 1 \in 1..Len(segments) /\ i \in 1..(Len(segments) - 1)
            BY <1>4, <2>5
        <3> QED BY <1>2, <2>6, <3>1 DEF IsCut
    <2> QED BY <2>1, <2>5, <2>6, <2>7, <2>8, <2>9 DEF IsCut, Segments
<1>10. peer'.ptr \in 0..(ptr + n)
    BY <1>2, <1>5, <1>6, <1>7
<1>11. ptr + n <= segments'[1].end
    BY <1>4, <1>5, <1>9
<1> QED BY <1>1, <1>2, <1>6, <1>7, <1>8, <1>9, <1>10, <1>11 DEF CrcInv

\* The next segment starts with the register as it is.
LEMMA NextSegmentKeeps ==
    ASSUME CrcInv, NextSegment
    PROVE  CrcInv'
<1> DEFINE size == Len(message)
<1>1. cpu # "none"
    BY DEF CrcInv, NextSegment
<1>2. /\ message \in Seq(SUBSET (0..7))
      /\ ptr \in 0..size /\ crc = RegisterAfter(message, ptr)
      /\ segments # <<>> /\ IsCut(segments, size) /\ ptr <= segments[1].end
    BY <1>1 DEF CrcInv, NextSegment
<1>3. size \in Nat
    BY <1>2, LenProperties
<1>4. /\ segments[1].end \in 0..size /\ Head(segments) = segments[1]
      /\ IF Tail(segments) = <<>> THEN segments[1].end = size
         ELSE IsCut(Tail(segments), size) /\ segments[1].end <= Tail(segments)[1].end
    BY <1>2, <1>3, CutParts
<1>5. ptr = segments[1].end
    BY <1>2, <1>3, <1>4 DEF NextSegment, Size
<1>6. /\ segments' = Tail(segments) /\ crc' = crc
      /\ message' = message /\ cpu' = cpu /\ ptr' = ptr /\ peer' = peer
    BY DEF NextSegment, Carried
<1>7. IF segments' = <<>> THEN ptr = size ELSE IsCut(segments', size) /\ ptr <= segments'[1].end
    BY <1>4, <1>5, <1>6
<1> QED BY <1>1, <1>6, <1>7 DEF CrcInv

\* A byte at the peer keeps it.
LEMMA PeerByteKeeps ==
    ASSUME CrcInv, PeerByte
    PROVE  CrcInv'
<1> DEFINE p == peer.ptr
<1>1. cpu # "none"
    BY DEF CrcInv, PeerByte
<1>2. /\ message \in Seq(SUBSET (0..7)) /\ ptr \in 0..Len(message)
      /\ p \in 0..ptr /\ peer.crc = RegisterAfter(message, p) /\ p < ptr
    BY <1>1 DEF CrcInv, PeerByte
<1>3. /\ peer' = [crc |-> SoftwareByte(peer.crc, message[p + 1]), ptr |-> p + 1]
      /\ message' = message /\ segments' = segments /\ cpu' = cpu /\ crc' = crc /\ ptr' = ptr
    BY DEF PeerByte
<1> HIDE DEF p
<1>4. p \in Nat /\ p + 1 <= Len(message) /\ p + 1 \in 0..ptr
    BY <1>2, LenProperties
<1>5. SoftwareByte(RegisterAfter(message, p), message[p + 1]) = RegisterAfter(message, p + 1)
    BY <1>2, <1>4, ByteTaken
<1>6. peer'.ptr = p + 1 /\ peer'.crc = RegisterAfter(message, p + 1)
    BY <1>2, <1>3, <1>5
<1> QED BY <1>1, <1>3, <1>4, <1>6 DEF CrcInv

\* The invariant holds through all calls.
LEMMA CrcInvariant == CallsSpec => []CrcInv
<1>1. CallsInit => CrcInv
    BY DEF CallsInit, CrcInit, CrcInv
<1>2. CrcInv /\ [CallsNext]_calls_vars => CrcInv'
    <2> SUFFICES ASSUME CrcInv, [CallsNext]_calls_vars PROVE CrcInv'
        OBVIOUS
    <2>1. CASE UNCHANGED crc_vars
        BY <2>1 DEF crc_vars, CrcInv
    <2>2. CASE IsInNetwork \/ GetNetwork \/ ParseAddress \/ GetRemoteAddress \/ Return \/ UNCHANGED calls_vars
        <3>1. UNCHANGED crc_vars
            BY <2>2 DEF IsInNetwork, GetNetwork, ParseAddress, GetRemoteAddress, Return, Calls, calls_vars
        <3> QED BY <2>1, <3>1
    <2>3. CASE Checksum
        BY <2>3, CrcCallKeeps
    <2>4. CASE CrcStep
        BY <2>4, CrcStepKeeps
    <2>5. CASE NextSegment
        BY <2>5, NextSegmentKeeps
    <2>6. CASE PeerByte
        BY <2>6, PeerByteKeeps
    <2>7. CASE CrcReturn
        BY <2>7 DEF CrcReturn, Finished, CrcInv
    <2> QED BY <2>2, <2>3, <2>4, <2>5, <2>6, <2>7 DEF CallsNext, crc32c
<1> QED BY <1>1, <1>2, PTL DEF CallsSpec

\* Whatever the processor, the addresses and the cuts between the segments, the
\* register is the software variant's over the same bytes (crc.cpp:16-92).
THEOREM VariantsAlwaysAgree == CallsSpec => []VariantsAgree
<1>1. CrcInv => VariantsAgree
    <2> SUFFICES ASSUME CrcInv, peer.ptr = ptr PROVE crc = peer.crc
        BY DEF VariantsAgree
    <2>1. CASE cpu = "none"
        <3>1. crc = {} /\ peer = [crc |-> {}, ptr |-> 0]
            BY <2>1 DEF CrcInv
        <3>2. peer.crc = {}
            BY <3>1
        <3> QED BY <3>1, <3>2
    <2>2. CASE cpu # "none"
        <3>1. crc = RegisterAfter(message, ptr) /\ peer.crc = RegisterAfter(message, peer.ptr)
            BY <2>2 DEF CrcInv
        <3> QED BY <3>1
    <2> QED BY <2>1, <2>2
<1> QED BY <1>1, CrcInvariant, PTL

-----------------------------------------------------------------------------
(* The answer for "zportal" *)

\* Eight turns, one after the other.
LEMMA EightTurns ==
    ASSUME NEW w0 \in SUBSET Nat, NEW w1, NEW w2, NEW w3, NEW w4, NEW w5, NEW w6, NEW w7, NEW w8,
           SoftwareBit(w0) = w1, SoftwareBit(w1) = w2, SoftwareBit(w2) = w3, SoftwareBit(w3) = w4,
           SoftwareBit(w4) = w5, SoftwareBit(w5) = w6, SoftwareBit(w6) = w7, SoftwareBit(w7) = w8
    PROVE  SoftwareBits(w0, 8) = w8
<1>1. SoftwareBits(w0, 0) = w0
    BY SoftwareBitsStep
<1>2. \A n \in Nat : SoftwareBits(w0, n + 1) = SoftwareBit(SoftwareBits(w0, n))
    BY SoftwareBitsStep
<1>3. /\ SoftwareBits(w0, 0 + 1) = w1 /\ SoftwareBits(w0, 1 + 1) = w2
      /\ SoftwareBits(w0, 2 + 1) = w3 /\ SoftwareBits(w0, 3 + 1) = w4
    BY <1>1, <1>2
<1>4. /\ SoftwareBits(w0, 4 + 1) = w5 /\ SoftwareBits(w0, 5 + 1) = w6
      /\ SoftwareBits(w0, 6 + 1) = w7 /\ SoftwareBits(w0, 7 + 1) = w8
    BY <1>2, <1>3
<1> QED BY <1>4

\* The turns for the byte of "z".
LEMMA Byte1 ==
    SoftwareByte(0..31,
                 {1, 3, 4, 5, 6})
      = {0, 1, 3, 4, 7, 12, 14, 15, 19, 20, 21, 22, 23, 24, 25, 26, 28, 29, 31}
<1> DEFINE w0 == {0, 2, 7, 8, 9, 10, 11, 12, 13, 14, 15, 16, 17, 18, 19, 20, 21, 22, 23,
                 24, 25, 26, 27, 28, 29, 30, 31}
           w1 == {1, 3, 4, 5, 7, 10, 14, 15, 16, 19, 24, 26, 27, 28, 29, 30, 31}
           w2 == {0, 2, 3, 4, 6, 9, 13, 14, 15, 18, 23, 25, 26, 27, 28, 29, 30}
           w3 == {1, 2, 4, 6, 9, 11, 14, 18, 20, 21, 23, 24, 26, 27, 28, 29, 31}
           w4 == {0, 1, 3, 5, 8, 10, 13, 17, 19, 20, 22, 23, 25, 26, 27, 28, 30}
           w5 == {0, 2, 3, 5, 6, 7, 8, 11, 13, 16, 17, 19, 20, 23, 24, 26, 27, 29, 31}
           w6 == {1, 2, 3, 7, 8, 9, 10, 11, 13, 15, 16, 17, 19, 20, 21, 26, 28, 30, 31}
           w7 == {0, 1, 2, 6, 7, 8, 9, 10, 12, 14, 15, 16, 18, 19, 20, 25, 27, 29, 30}
           w8 == {0, 1, 3, 4, 7, 12, 14, 15, 19, 20, 21, 22, 23, 24, 25, 26, 28, 29, 31}
<1>0. Xor(0..31, {1, 3, 4, 5, 6}) = w0
    BY DEF Xor, SymDiff
<1>1. SoftwareBit(w0) = w1
    BY SoftwareBitBits DEF poly
<1>2. SoftwareBit(w1) = w2
    BY SoftwareBitBits DEF poly
<1>3. SoftwareBit(w2) = w3
    BY SoftwareBitBits DEF poly
<1>4. SoftwareBit(w3) = w4
    BY SoftwareBitBits DEF poly
<1>5. SoftwareBit(w4) = w5
    BY SoftwareBitBits DEF poly
<1>6. SoftwareBit(w5) = w6
    BY SoftwareBitBits DEF poly
<1>7. SoftwareBit(w6) = w7
    BY SoftwareBitBits DEF poly
<1>8. SoftwareBit(w7) = w8
    BY SoftwareBitBits DEF poly
<1>9. w0 \in SUBSET Nat
    OBVIOUS
<1> HIDE DEF w0, w1, w2, w3, w4, w5, w6, w7
<1> QED BY <1>0, <1>1, <1>2, <1>3, <1>4, <1>5, <1>6, <1>7, <1>8, <1>9, EightTurns DEF SoftwareByte

\* The turns for the byte of "p".
LEMMA Byte2 ==
    SoftwareByte({0, 1, 3, 4, 7, 12, 14, 15, 19, 20, 21, 22, 23, 24, 25, 26, 28, 29, 31},
                 {4, 5, 6})
      = {0, 4, 5, 6, 7, 8, 9, 11, 12, 13, 14, 15, 17, 18, 19, 25, 27, 28, 29, 30}
<1> DEFINE w0 == {0, 1, 3, 5, 6, 7, 12, 14, 15, 19, 20, 21, 22, 23, 24, 25, 26, 28, 29,
                 31}
           w1 == {0, 2, 3, 8, 9, 12, 14, 17, 19, 24, 27, 28, 30, 31}
           w2 == {1, 2, 3, 4, 5, 6, 7, 9, 12, 16, 17, 20, 21, 22, 25, 26, 27, 29, 30,
                 31}
           w3 == {0, 1, 2, 3, 4, 5, 6, 8, 11, 15, 16, 19, 20, 21, 24, 25, 26, 28, 29,
                 30}
           w4 == {0, 1, 2, 6, 7, 8, 9, 10, 11, 12, 13, 14, 15, 17, 19, 21, 22, 24, 27,
                 28, 29, 31}
           w5 == {0, 1, 3, 4, 7, 10, 14, 16, 17, 22, 25, 26, 27, 28, 30, 31}
           w6 == {0, 2, 4, 5, 8, 11, 12, 15, 16, 17, 18, 20, 22, 23, 24, 26, 27, 29, 30,
                 31}
           w7 == {1, 5, 6, 7, 8, 9, 10, 12, 13, 14, 15, 16, 18, 19, 20, 26, 28, 29, 30,
                 31}
           w8 == {0, 4, 5, 6, 7, 8, 9, 11, 12, 13, 14, 15, 17, 18, 19, 25, 27, 28, 29,
                 30}
<1>0. Xor({0, 1, 3, 4, 7, 12, 14, 15, 19, 20, 21, 22, 23, 24, 25, 26, 28, 29, 31}, {4, 5, 6}) = w0
    BY DEF Xor, SymDiff
<1>1. SoftwareBit(w0) = w1
    BY SoftwareBitBits DEF poly
<1>2. SoftwareBit(w1) = w2
    BY SoftwareBitBits DEF poly
<1>3. SoftwareBit(w2) = w3
    BY SoftwareBitBits DEF poly
<1>4. SoftwareBit(w3) = w4
    BY SoftwareBitBits DEF poly
<1>5. SoftwareBit(w4) = w5
    BY SoftwareBitBits DEF poly
<1>6. SoftwareBit(w5) = w6
    BY SoftwareBitBits DEF poly
<1>7. SoftwareBit(w6) = w7
    BY SoftwareBitBits DEF poly
<1>8. SoftwareBit(w7) = w8
    BY SoftwareBitBits DEF poly
<1>9. w0 \in SUBSET Nat
    OBVIOUS
<1> HIDE DEF w0, w1, w2, w3, w4, w5, w6, w7
<1> QED BY <1>0, <1>1, <1>2, <1>3, <1>4, <1>5, <1>6, <1>7, <1>8, <1>9, EightTurns DEF SoftwareByte

\* The turns for the byte of "o".
LEMMA Byte3 ==
    SoftwareByte({0, 4, 5, 6, 7, 8, 9, 11, 12, 13, 14, 15, 17, 18, 19, 25, 27, 28, 29,
                 30},
                 {0, 1, 2, 3, 5, 6})
      = {0, 1, 3, 6, 7, 8, 10, 11, 14, 17, 19, 21, 23, 25, 26, 27, 28, 29}
<1> DEFINE w0 == {1, 2, 3, 4, 7, 8, 9, 11, 12, 13, 14, 15, 17, 18, 19, 25, 27, 28, 29,
                 30}
           w1 == {0, 1, 2, 3, 6, 7, 8, 10, 11, 12, 13, 14, 16, 17, 18, 24, 26, 27, 28,
                 29}
           w2 == {0, 1, 2, 3, 4, 7, 8, 10, 15, 16, 18, 20, 21, 22, 26, 27, 28, 31}
           w3 == {0, 1, 2, 4, 5, 7, 8, 11, 12, 13, 14, 15, 18, 19, 22, 23, 26, 27, 30,
                 31}
           w4 == {0, 1, 5, 7, 8, 9, 10, 14, 20, 23, 26, 29, 30, 31}
           w5 == {0, 3, 5, 7, 11, 12, 17, 18, 19, 20, 21, 23, 28, 29, 30, 31}
           w6 == {2, 3, 5, 8, 9, 10, 12, 13, 16, 19, 21, 23, 25, 27, 28, 29, 30, 31}
           w7 == {1, 2, 4, 7, 8, 9, 11, 12, 15, 18, 20, 22, 24, 26, 27, 28, 29, 30}
           w8 == {0, 1, 3, 6, 7, 8, 10, 11, 14, 17, 19, 21, 23, 25, 26, 27, 28, 29}
<1>0. Xor({0, 4, 5, 6, 7, 8, 9, 11, 12, 13, 14, 15, 17, 18, 19, 25, 27, 28, 29, 30}, {0, 1, 2, 3, 5, 6}) = w0
    BY DEF Xor, SymDiff
<1>1. SoftwareBit(w0) = w1
    BY SoftwareBitBits DEF poly
<1>2. SoftwareBit(w1) = w2
    BY SoftwareBitBits DEF poly
<1>3. SoftwareBit(w2) = w3
    BY SoftwareBitBits DEF poly
<1>4. SoftwareBit(w3) = w4
    BY SoftwareBitBits DEF poly
<1>5. SoftwareBit(w4) = w5
    BY SoftwareBitBits DEF poly
<1>6. SoftwareBit(w5) = w6
    BY SoftwareBitBits DEF poly
<1>7. SoftwareBit(w6) = w7
    BY SoftwareBitBits DEF poly
<1>8. SoftwareBit(w7) = w8
    BY SoftwareBitBits DEF poly
<1>9. w0 \in SUBSET Nat
    OBVIOUS
<1> HIDE DEF w0, w1, w2, w3, w4, w5, w6, w7
<1> QED BY <1>0, <1>1, <1>2, <1>3, <1>4, <1>5, <1>6, <1>7, <1>8, <1>9, EightTurns DEF SoftwareByte

\* The turns for the byte of "r".
LEMMA Byte4 ==
    SoftwareByte({0, 1, 3, 6, 7, 8, 10, 11, 14, 17, 19, 21, 23, 25, 26, 27, 28, 29},
                 {1, 4, 5, 6})
      = {3, 6, 8, 9, 16, 19, 20, 23, 25, 27, 30, 31}
<1> DEFINE w0 == {0, 3, 4, 5, 7, 8, 10, 11, 14, 17, 19, 21, 23, 25, 26, 27, 28, 29}
           w1 == {2, 5, 7, 8, 10, 11, 12, 16, 17, 21, 23, 24, 26, 27, 28, 31}
           w2 == {1, 4, 6, 7, 9, 10, 11, 15, 16, 20, 22, 23, 25, 26, 27, 30}
           w3 == {0, 3, 5, 6, 8, 9, 10, 14, 15, 19, 21, 22, 24, 25, 26, 29}
           w4 == {2, 3, 6, 7, 11, 12, 14, 17, 22, 24, 28, 31}
           w5 == {1, 2, 5, 6, 10, 11, 13, 16, 21, 23, 27, 30}
           w6 == {0, 1, 4, 5, 9, 10, 12, 15, 20, 22, 26, 29}
           w7 == {0, 5, 6, 12, 13, 14, 17, 18, 19, 20, 22, 23, 28, 31}
           w8 == {3, 6, 8, 9, 16, 19, 20, 23, 25, 27, 30, 31}
<1>0. Xor({0, 1, 3, 6, 7, 8, 10, 11, 14, 17, 19, 21, 23, 25, 26, 27, 28, 29}, {1, 4, 5, 6}) = w0
    BY DEF Xor, SymDiff
<1>1. SoftwareBit(w0) = w1
    BY SoftwareBitBits DEF poly
<1>2. SoftwareBit(w1) = w2
    BY SoftwareBitBits DEF poly
<1>3. SoftwareBit(w2) = w3
    BY SoftwareBitBits DEF poly
<1>4. SoftwareBit(w3) = w4
    BY SoftwareBitBits DEF poly
<1>5. SoftwareBit(w4) = w5
    BY SoftwareBitBits DEF poly
<1>6. SoftwareBit(w5) = w6
    BY SoftwareBitBits DEF poly
<1>7. SoftwareBit(w6) = w7
    BY SoftwareBitBits DEF poly
<1>8. SoftwareBit(w7) = w8
    BY SoftwareBitBits DEF poly
<1>9. w0 \in SUBSET Nat
    OBVIOUS
<1> HIDE DEF w0, w1, w2, w3, w4, w5, w6, w7
<1> QED BY <1>0, <1>1, <1>2, <1>3, <1>4, <1>5, <1>6, <1>7, <1>8, <1>9, EightTurns DEF SoftwareByte

\* The turns for the byte of "t".
LEMMA Byte5 ==
    SoftwareByte({3, 6, 8, 9, 16, 19, 20, 23, 25, 27, 30, 31},
                 {2, 4, 5, 6})
      = {1, 5, 6, 8, 9, 10, 11, 12, 17, 19, 21, 22, 24, 26, 27, 28, 29, 30}
<1> DEFINE w0 == {2, 3, 4, 5, 8, 9, 16, 19, 20, 23, 25, 27, 30, 31}
           w1 == {1, 2, 3, 4, 7, 8, 15, 18, 19, 22, 24, 26, 29, 30}
           w2 == {0, 1, 2, 3, 6, 7, 14, 17, 18, 21, 23, 25, 28, 29}
           w3 == {0, 1, 2, 3, 4, 8, 9, 11, 12, 16, 18, 21, 23, 24, 25, 27, 28, 31}
           w4 == {0, 1, 2, 4, 5, 6, 7, 9, 10, 12, 13, 15, 18, 21, 24, 25, 26, 27, 30,
                 31}
           w5 == {0, 1, 13, 14, 18, 21, 22, 24, 26, 29, 30, 31}
           w6 == {0, 3, 4, 5, 6, 8, 9, 11, 18, 22, 28, 29, 30, 31}
           w7 == {2, 6, 7, 9, 10, 11, 12, 13, 18, 20, 22, 23, 25, 27, 28, 29, 30, 31}
           w8 == {1, 5, 6, 8, 9, 10, 11, 12, 17, 19, 21, 22, 24, 26, 27, 28, 29, 30}
<1>0. Xor({3, 6, 8, 9, 16, 19, 20, 23, 25, 27, 30, 31}, {2, 4, 5, 6}) = w0
    BY DEF Xor, SymDiff
<1>1. SoftwareBit(w0) = w1
    BY SoftwareBitBits DEF poly
<1>2. SoftwareBit(w1) = w2
    BY SoftwareBitBits DEF poly
<1>3. SoftwareBit(w2) = w3
    BY SoftwareBitBits DEF poly
<1>4. SoftwareBit(w3) = w4
    BY SoftwareBitBits DEF poly
<1>5. SoftwareBit(w4) = w5
    BY SoftwareBitBits DEF poly
<1>6. SoftwareBit(w5) = w6
    BY SoftwareBitBits DEF poly
<1>7. SoftwareBit(w6) = w7
    BY SoftwareBitBits DEF poly
<1>8. SoftwareBit(w7) = w8
    BY SoftwareBitBits DEF poly
<1>9. w0 \in SUBSET Nat
    OBVIOUS
<1> HIDE DEF w0, w1, w2, w3, w4, w5, w6, w7
<1> QED BY <1>0, <1>1, <1>2, <1>3, <1>4, <1>5, <1>6, <1>7, <1>8, <1>9, EightTurns DEF SoftwareByte

\* The turns for the byte of "a".
LEMMA Byte6 ==
    SoftwareByte({1, 5, 6, 8, 9, 10, 11, 12, 17, 19, 21, 22, 24, 26, 27, 28, 29, 30},
                 {0, 5, 6})
      = {0, 1, 3, 5, 6, 7, 8, 11, 12, 15, 16, 18, 19, 21, 24, 25, 28}
<1> DEFINE w0 == {0, 1, 8, 9, 10, 11, 12, 17, 19, 21, 22, 24, 26, 27, 28, 29, 30}
           w1 == {0, 3, 4, 5, 6, 7, 10, 12, 13, 16, 17, 22, 26, 27, 28, 29, 31}
           w2 == {2, 8, 13, 15, 16, 17, 18, 20, 22, 23, 26, 27, 28, 30, 31}
           w3 == {1, 7, 12, 14, 15, 16, 17, 19, 21, 22, 25, 26, 27, 29, 30}
           w4 == {0, 6, 11, 13, 14, 15, 16, 18, 20, 21, 24, 25, 26, 28, 29}
           w5 == {3, 4, 6, 8, 9, 10, 11, 14, 15, 18, 19, 21, 22, 24, 27, 28, 31}
           w6 == {2, 3, 5, 7, 8, 9, 10, 13, 14, 17, 18, 20, 21, 23, 26, 27, 30}
           w7 == {1, 2, 4, 6, 7, 8, 9, 12, 13, 16, 17, 19, 20, 22, 25, 26, 29}
           w8 == {0, 1, 3, 5, 6, 7, 8, 11, 12, 15, 16, 18, 19, 21, 24, 25, 28}
<1>0. Xor({1, 5, 6, 8, 9, 10, 11, 12, 17, 19, 21, 22, 24, 26, 27, 28, 29, 30}, {0, 5, 6}) = w0
    BY DEF Xor, SymDiff
<1>1. SoftwareBit(w0) = w1
    BY SoftwareBitBits DEF poly
<1>2. SoftwareBit(w1) = w2
    BY SoftwareBitBits DEF poly
<1>3. SoftwareBit(w2) = w3
    BY SoftwareBitBits DEF poly
<1>4. SoftwareBit(w3) = w4
    BY SoftwareBitBits DEF poly
<1>5. SoftwareBit(w4) = w5
    BY SoftwareBitBits DEF poly
<1>6. SoftwareBit(w5) = w6
    BY SoftwareBitBits DEF poly
<1>7. SoftwareBit(w6) = w7
    BY SoftwareBitBits DEF poly
<1>8. SoftwareBit(w7) = w8
    BY SoftwareBitBits DEF poly
<1>9. w0 \in SUBSET Nat
    OBVIOUS
<1> HIDE DEF w0, w1, w2, w3, w4, w5, w6, w7
<1> QED BY <1>0, <1>1, <1>2, <1>3, <1>4, <1>5, <1>6, <1>7, <1>8, <1>9, EightTurns DEF SoftwareByte

\* The turns for the byte of "l".
LEMMA Byte7 ==
    SoftwareByte({0, 1, 3, 5, 6, 7, 8, 11, 12, 15, 16, 18, 19, 21, 24, 25, 28},
                 {2, 3, 5, 6})
      = {1, 3, 9, 12, 13, 14, 16, 17, 18, 19, 21, 25, 26, 28, 30}
<1> DEFINE w0 == {0, 1, 2, 7, 8, 11, 12, 15, 16, 18, 19, 21, 24, 25, 28}
           w1 == {0, 1, 3, 4, 5, 7, 8, 9, 10, 12, 13, 14, 15, 21, 22, 24, 25, 27, 31}
           w2 == {0, 2, 5, 7, 14, 17, 18, 22, 24, 25, 26, 30, 31}
           w3 == {1, 3, 5, 8, 9, 11, 12, 16, 18, 20, 22, 24, 29, 30, 31}
           w4 == {0, 2, 4, 7, 8, 10, 11, 15, 17, 19, 21, 23, 28, 29, 30}
           w5 == {1, 4, 5, 7, 8, 10, 11, 12, 13, 14, 16, 17, 21, 23, 25, 27, 28, 29, 31}
           w6 == {0, 3, 4, 6, 7, 9, 10, 11, 12, 13, 15, 16, 20, 22, 24, 26, 27, 28, 30}
           w7 == {2, 4, 10, 13, 14, 15, 17, 18, 19, 20, 22, 26, 27, 29, 31}
           w8 == {1, 3, 9, 12, 13, 14, 16, 17, 18, 19, 21, 25, 26, 28, 30}
<1>0. Xor({0, 1, 3, 5, 6, 7, 8, 11, 12, 15, 16, 18, 19, 21, 24, 25, 28}, {2, 3, 5, 6}) = w0
    BY DEF Xor, SymDiff
<1>1. SoftwareBit(w0) = w1
    BY SoftwareBitBits DEF poly
<1>2. SoftwareBit(w1) = w2
    BY SoftwareBitBits DEF poly
<1>3. SoftwareBit(w2) = w3
    BY SoftwareBitBits DEF poly
<1>4. SoftwareBit(w3) = w4
    BY SoftwareBitBits DEF poly
<1>5. SoftwareBit(w4) = w5
    BY SoftwareBitBits DEF poly
<1>6. SoftwareBit(w5) = w6
    BY SoftwareBitBits DEF poly
<1>7. SoftwareBit(w6) = w7
    BY SoftwareBitBits DEF poly
<1>8. SoftwareBit(w7) = w8
    BY SoftwareBitBits DEF poly
<1>9. w0 \in SUBSET Nat
    OBVIOUS
<1> HIDE DEF w0, w1, w2, w3, w4, w5, w6, w7
<1> QED BY <1>0, <1>1, <1>2, <1>3, <1>4, <1>5, <1>6, <1>7, <1>8, <1>9, EightTurns DEF SoftwareByte


\* The register behind the bytes of "zportal".
LEMMA ZportalRegister ==
    RegisterAfter(Zportal, 7)
      = {1, 3, 9, 12, 13, 14, 16, 17, 18, 19, 21, 25, 26, 28, 30}
<1>1. /\ Zportal \in Seq(SUBSET (0..7)) /\ Len(Zportal) = 7
      /\ Zportal[1] = {1, 3, 4, 5, 6} /\ Zportal[2] = {4, 5, 6} /\ Zportal[3] = {0, 1, 2, 3, 5, 6}
      /\ Zportal[4] = {1, 4, 5, 6} /\ Zportal[5] = {2, 4, 5, 6} /\ Zportal[6] = {0, 5, 6}
      /\ Zportal[7] = {2, 3, 5, 6}
    BY DEF Zportal
<1>2. ASSUME NEW p \in 0..6
      PROVE  SoftwareByte(RegisterAfter(Zportal, p), Zportal[p + 1]) = RegisterAfter(Zportal, p + 1)
    <2>1. Zportal \in Seq(SUBSET (0..7))
        BY <1>1
    <2>2. p \in Nat /\ p + 1 <= Len(Zportal)
        BY <1>1
    <2> QED BY <2>1, <2>2, ByteTaken
<1>3. RegisterAfter(Zportal, 0) = 0..31
    BY <1>1, RegisterStarts DEF AllOnes
<1>4. /\ 0 + 1 = 1 /\ 1 + 1 = 2 /\ 2 + 1 = 3 /\ 3 + 1 = 4 /\ 4 + 1 = 5 /\ 5 + 1 = 6 /\ 6 + 1 = 7
      /\ {0, 1, 2, 3, 4, 5, 6} \subseteq 0..6
    OBVIOUS
<1>5. /\ SoftwareByte(RegisterAfter(Zportal, 0), Zportal[1]) = RegisterAfter(Zportal, 1)
      /\ SoftwareByte(RegisterAfter(Zportal, 1), Zportal[2]) = RegisterAfter(Zportal, 2)
      /\ SoftwareByte(RegisterAfter(Zportal, 2), Zportal[3]) = RegisterAfter(Zportal, 3)
      /\ SoftwareByte(RegisterAfter(Zportal, 3), Zportal[4]) = RegisterAfter(Zportal, 4)
      /\ SoftwareByte(RegisterAfter(Zportal, 4), Zportal[5]) = RegisterAfter(Zportal, 5)
      /\ SoftwareByte(RegisterAfter(Zportal, 5), Zportal[6]) = RegisterAfter(Zportal, 6)
      /\ SoftwareByte(RegisterAfter(Zportal, 6), Zportal[7]) = RegisterAfter(Zportal, 7)
    BY <1>2, <1>4
<1>6. RegisterAfter(Zportal, 1) = {0, 1, 3, 4, 7, 12, 14, 15, 19, 20, 21, 22, 23, 24, 25, 26, 28,
                         29, 31}
    BY <1>1, <1>5, <1>3, Byte1
<1>7. RegisterAfter(Zportal, 2) = {0, 4, 5, 6, 7, 8, 9, 11, 12, 13, 14, 15, 17, 18, 19, 25, 27,
                         28, 29, 30}
    BY <1>1, <1>5, <1>6, Byte2
<1>8. RegisterAfter(Zportal, 3) = {0, 1, 3, 6, 7, 8, 10, 11, 14, 17, 19, 21, 23, 25, 26, 27, 28,
                         29}
    BY <1>1, <1>5, <1>7, Byte3
<1>9. RegisterAfter(Zportal, 4) = {3, 6, 8, 9, 16, 19, 20, 23, 25, 27, 30, 31}
    BY <1>1, <1>5, <1>8, Byte4
<1>10. RegisterAfter(Zportal, 5) = {1, 5, 6, 8, 9, 10, 11, 12, 17, 19, 21, 22, 24, 26, 27, 28,
                          29, 30}
    BY <1>1, <1>5, <1>9, Byte5
<1>11. RegisterAfter(Zportal, 6) = {0, 1, 3, 5, 6, 7, 8, 11, 12, 15, 16, 18, 19, 21, 24, 25, 28}
    BY <1>1, <1>5, <1>10, Byte6
<1>12. RegisterAfter(Zportal, 7) = {1, 3, 9, 12, 13, 14, 16, 17, 18, 19, 21, 25, 26, 28, 30}
    BY <1>1, <1>5, <1>11, Byte7
<1> QED BY <1>12

\* The register behind the first bytes is what the instruction would make of them
\* as one value, and the instruction is the division.
LEMMA RegisterIsRemainder ==
    ASSUME NEW bytes \in Seq(SUBSET (0..7)), NEW n \in 0..Len(bytes)
    PROVE  LET bits == 8 * n
               prefix == Reflected(Loaded(SubSeq(bytes, 1, n)), bits)
           IN  RegisterAfter(bytes, n)
                 = Reflected(Remainder(Xor(Shifted(prefix, 32), Shifted(AllOnes, bits)), bits + 31), 32)
<1>1. n \in Nat /\ 0 + n <= Len(bytes) /\ 0 + 1 = 1 /\ 0 + n = n
    BY LenProperties
<1>2. CrcInstruction(RegisterAfter(bytes, 0), Loaded(SubSeq(bytes, 0 + 1, 0 + n)), 8 * n)
        = RegisterAfter(bytes, 0 + n)
    BY <1>1, ValueTaken
<1>3. RegisterAfter(bytes, 0) = AllOnes
    BY RegisterStarts
<1>4. Reflected(AllOnes, 32) = AllOnes
    <2>1. AllOnes \in SUBSET Nat /\ 32 \in Nat
        BY DEF AllOnes
    <2>2. \A i : i \in Reflected(AllOnes, 32) <=> i \in Int /\ 32 - 1 - i \in AllOnes
        BY <2>1, ReflectedBits
    <2>3. \A i \in Int : 32 - 1 - i \in AllOnes <=> i \in AllOnes
        BY DEF AllOnes
    <2>4. \A i : i \in AllOnes => i \in Int
        BY DEF AllOnes
    <2>5. \A i : i \in Reflected(AllOnes, 32) <=> i \in AllOnes
        BY <2>2, <2>3, <2>4
    <2> QED BY <2>5
<1>5. CrcInstruction(AllOnes, Loaded(SubSeq(bytes, 1, n)), 8 * n) = RegisterAfter(bytes, n)
    BY <1>1, <1>2, <1>3
<1> QED BY <1>4, <1>5 DEF CrcInstruction

\* The register of the first bytes is the remainder of the division that defines
\* a CRC, and "zportal" has the answer the test expects (crc.cpp:16-32,
\* tests/tools/crc_test.cpp:15).
THEOREM RegisterIsDivision == CallsSpec => []CrcIsRemainder
<1>1. CrcInv => CrcIsRemainder
    <2> SUFFICES ASSUME CrcInv PROVE CrcIsRemainder
        OBVIOUS
    <2>1. ASSUME peer.ptr \in 1..6
          PROVE  LET bits == 8 * peer.ptr
                     prefix == Reflected(Loaded(SubSeq(message, 1, peer.ptr)), bits)
                 IN  peer.crc
                       = Reflected(Remainder(Xor(Shifted(prefix, 32), Shifted(AllOnes, bits)), bits + 31), 32)
        <3>1. cpu # "none"
            <4>1. ASSUME cpu = "none" PROVE FALSE
                <5>1. peer = [crc |-> {}, ptr |-> 0]
                    BY <4>1 DEF CrcInv
                <5>2. peer.ptr = 0
                    BY <5>1
                <5> QED BY <2>1, <5>2
            <4> QED BY <4>1
        <3>2. /\ message \in Seq(SUBSET (0..7)) /\ ptr \in 0..Len(message)
              /\ peer.ptr \in 0..ptr /\ peer.crc = RegisterAfter(message, peer.ptr)
            BY <3>1 DEF CrcInv
        <3>3. peer.ptr \in 0..Len(message)
            BY <3>2, LenProperties
        <3> QED BY <3>2, <3>3, RegisterIsRemainder
    <2>2. ASSUME Finished, message = Zportal
          PROVE  Xor(crc, AllOnes) = {0, 2, 4, 5, 6, 7, 8, 10, 11, 15, 20, 22, 23, 24, 27, 29, 31}
        <3>1. cpu # "none" /\ segments = <<>>
            BY <2>2 DEF Finished
        <3>2. ptr = Len(message) /\ crc = RegisterAfter(message, ptr)
            BY <3>1 DEF CrcInv
        <3>3. Len(Zportal) = 7
            BY DEF Zportal
        <3>4. crc = RegisterAfter(Zportal, 7)
            BY <2>2, <3>2, <3>3
        <3>5. \A i : i \in Xor(crc, AllOnes) <=> ~(i \in crc <=> i \in AllOnes)
            BY XorBits
        <3> QED BY <3>4, <3>5, ZportalRegister DEF AllOnes
    <2> QED BY <2>1, <2>2 DEF CrcIsRemainder
<1> QED BY <1>1, CrcInvariant, PTL

-----------------------------------------------------------------------------
(* The lowest free descriptors *)

\* The least free number from a on is at most any free number from a on.
LEMMA LowestFree ==
    ASSUME NEW D, NEW a \in Nat, NEW b \in Nat, a <= b, b \notin D
    PROVE  \E n \in a..b : n \notin D /\ a..(n - 1) \subseteq D
<1> DEFINE T == { n \in Nat : a <= n /\ n \notin D }
<1>1. T \in SUBSET Nat /\ b \in T
    OBVIOUS
<1>2. IsWellFoundedOn(OpToRel(<, Nat), Nat)
    BY NatLessThanWellFounded
<1>3. PICK n \in T : \A m \in T : ~(<<m, n>> \in OpToRel(<, Nat))
    BY <1>1, <1>2, WFMin, Zenon
<1>4. n \in Nat /\ a <= n /\ n \notin D
    OBVIOUS
<1>5. \A m \in T : ~(m < n)
    BY <1>1, <1>3, <1>4 DEF OpToRel
<1>6. n <= b
    BY <1>1, <1>4, <1>5
<1>7. ASSUME NEW m \in a..(n - 1) PROVE m \in D
    BY <1>4, <1>5
<1> QED BY <1>4, <1>6, <1>7

\* What the kernel hands out when no descriptor above b is open.
LEMMA FreeFdIsFree ==
    ASSUME NEW b \in 2..10, DOMAIN fds \subseteq 3..b
    PROVE  FreeFd \in 3..(b + 1) /\ FreeFd \notin DOMAIN fds
<1>1. PICK n \in 3..(b + 1) : n \notin DOMAIN fds /\ 3..(n - 1) \subseteq DOMAIN fds
    <2>1. 3 \in Nat /\ b + 1 \in Nat /\ 3 <= b + 1 /\ b + 1 \notin DOMAIN fds
        OBVIOUS
    <2> QED BY <2>1, LowestFree
<1>2. n \in 3..20
    OBVIOUS
<1>3. FreeFd \in 3..20 /\ FreeFd \notin DOMAIN fds /\ 3..(FreeFd - 1) \subseteq DOMAIN fds
    BY <1>1, <1>2, Zenon DEF FreeFd
<1>4. ~(b + 1 \in 3..(FreeFd - 1))
    BY <1>3
<1> QED BY <1>3, <1>4

\* One descriptor for one object.
LEMMA OneFreeFd ==
    ASSUME NEW b \in 2..10, DOMAIN fds \subseteq 3..b
    PROVE  DOMAIN FreeFds(1) = 1..1 /\ FreeFds(1)[1] = FreeFd
<1>1. FreeFd \in 3..(b + 1) /\ FreeFd \notin DOMAIN fds
    BY FreeFdIsFree
<1> DEFINE F == [1..1 -> 3..(FreeFd + 9)]
           s0 == [i \in 1..1 |-> FreeFd]
           P(s) == /\ s[1] = FreeFd
                   /\ \A i \in 1..1 : s[i] \notin DOMAIN fds
                   /\ \A i \in 1..(1 - 1) : s[i] < s[i + 1]
                        /\ \A n \in (s[i] + 1)..(s[i + 1] - 1) : n \in DOMAIN fds
<1>2. s0 \in F /\ P(s0)
    BY <1>1
<1>3. FreeFds(1) = CHOOSE s \in F : P(s)
    BY DEF FreeFds
<1> HIDE DEF F, s0, P
<1>4. FreeFds(1) \in F /\ P(FreeFds(1))
    BY <1>2, <1>3, Zenon
<1> QED BY <1>4 DEF F, P

\* Two descriptors, in rising order, as pipe-like calls return them.
LEMMA TwoFreeFds ==
    ASSUME NEW b \in 2..10, DOMAIN fds \subseteq 3..b
    PROVE  /\ DOMAIN FreeFds(2) = 1..2
           /\ FreeFds(2)[1] \in 3..(b + 2) \ DOMAIN fds
           /\ FreeFds(2)[2] \in 3..(b + 2) \ DOMAIN fds
           /\ FreeFds(2)[1] # FreeFds(2)[2]
<1>1. FreeFd \in 3..(b + 1) /\ FreeFd \notin DOMAIN fds
    BY FreeFdIsFree
<1> DEFINE D == DOMAIN fds
           F == [1..2 -> 3..(FreeFd + 9)]
           P(s) == /\ s[1] = FreeFd
                   /\ \A i \in 1..2 : s[i] \notin D
                   /\ \A i \in 1..(2 - 1) : s[i] < s[i + 1]
                        /\ \A n \in (s[i] + 1)..(s[i + 1] - 1) : n \in D
<1>2. PICK n \in (FreeFd + 1)..(b + 2) : n \notin D /\ (FreeFd + 1)..(n - 1) \subseteq D
    <2>1. FreeFd + 1 \in Nat /\ b + 2 \in Nat /\ FreeFd + 1 <= b + 2 /\ b + 2 \notin D
        BY <1>1
    <2> HIDE DEF D
    <2> QED BY <2>1, LowestFree
<1> DEFINE s0 == [i \in 1..2 |-> IF i = 1 THEN FreeFd ELSE n]
<1>3. s0 \in F
    BY <1>1
<1>4. P(s0)
    BY <1>1, <1>2
<1>5. FreeFds(2) = CHOOSE s \in F : P(s)
    BY DEF FreeFds
<1> HIDE DEF F, s0, P
<1>6. FreeFds(2) \in F /\ P(FreeFds(2))
    BY <1>3, <1>4, <1>5, Zenon
<1> DEFINE s == FreeFds(2)
<1> HIDE DEF s
<1>7. /\ DOMAIN s = 1..2 /\ s[1] \in Int /\ s[2] \in Int
      /\ s[1] = FreeFd /\ s[1] < s[2] /\ s[1] \notin D /\ s[2] \notin D
      /\ (s[1] + 1)..(s[2] - 1) \subseteq D
    BY <1>1, <1>6 DEF F, P, s
<1>8. ~(b + 2 \in (s[1] + 1)..(s[2] - 1))
    BY <1>7
<1>9. s[2] <= b + 2
    BY <1>1, <1>7, <1>8
<1> QED BY <1>1, <1>7, <1>9 DEF s

-----------------------------------------------------------------------------
(* Sequences of owners *)

\* A sequence of different owners.
Row(s) == s \in Seq(Owners) /\ \A i, j \in DOMAIN s : s[i] = s[j] => i = j

\* s begins with t.
Begins(s, t) == Len(t) <= Len(s) /\ \A i \in 1..Len(t) : s[i] = t[i]

\* The members of a session, one by one.
LEMMA MembersAre == ToSet(Members) = {"ring", "nl", "tun", "socket"}
<1>1. DOMAIN Members = 1..4
    BY DEF Members
<1>2. /\ Members[1] = "ring" /\ Members[2] = "nl" /\ Members[3] = "tun" /\ Members[4] = "socket"
    BY DEF Members
<1> QED BY <1>1, <1>2 DEF ToSet

\* Every owner, one by one.
LEMMA OwnersAre ==
    Owners = { <<"main", "ring">>, <<"main", "nl">>, <<"main", "tun">>, <<"main", "socket">>,
               <<"local", "ring">>, <<"local", "nl">>, <<"local", "tun">>, <<"local", "socket">>,
               <<"session", "ring">>, <<"session", "nl">>, <<"session", "tun">>,
               <<"session", "socket">>, <<"main", "listener">>, <<"main", "peer">>,
               <<"probe", "ring">>, <<"probe", "send">>, <<"probe", "recv">> }
    BY MembersAre DEF Owners

\* The owners at a place are a row.
LEMMA OfIs ==
    ASSUME NEW place \in {"main", "local", "session"}
    PROVE  /\ Row(Of(place)) /\ Len(Of(place)) = 4
           /\ ToSet(Of(place)) = { <<place, "ring">>, <<place, "nl">>, <<place, "tun">>,
                                   <<place, "socket">> }
<1> DEFINE s == Of(place)
<1>1. DOMAIN s = 1..4
    BY DEF Of
<1>2. /\ s[1] = <<place, "ring">> /\ s[2] = <<place, "nl">>
      /\ s[3] = <<place, "tun">> /\ s[4] = <<place, "socket">>
    BY DEF Of, Members
<1>3. s = [i \in 1..4 |-> s[i]]
    BY DEF Of
<1> HIDE DEF s
<1>4. \A i \in 1..4 : s[i] \in Owners
    BY <1>2, OwnersAre
<1>5. s \in Seq(Owners) /\ Len(s) = 4
    BY <1>1, <1>3, <1>4
<1>6. \A i, j \in 1..4 : s[i] = s[j] => i = j
    BY <1>2
<1>7. ToSet(s) = { <<place, "ring">>, <<place, "nl">>, <<place, "tun">>, <<place, "socket">> }
    BY <1>1, <1>2 DEF ToSet
<1> QED BY <1>1, <1>5, <1>6, <1>7 DEF Row, s

\* Two rows without a common owner make a row.
LEMMA RowConcat ==
    ASSUME NEW s, NEW t, Row(s), Row(t), ToSet(s) \cap ToSet(t) = {}
    PROVE  /\ Row(s \o t) /\ Len(s \o t) = Len(s) + Len(t)
           /\ ToSet(s \o t) = ToSet(s) \cup ToSet(t)
           /\ Begins(s \o t, s)
<1> DEFINE z == s \o t
           m == Len(s)
           n == Len(t)
<1>1. /\ s \in Seq(Owners) /\ t \in Seq(Owners) /\ m \in Nat /\ n \in Nat
      /\ DOMAIN s = 1..m /\ DOMAIN t = 1..n
    BY DEF Row
<1>2. z \in Seq(Owners) /\ Len(z) = m + n /\ DOMAIN z = 1..(m + n)
    BY <1>1
<1>3. \A i \in 1..m : z[i] = s[i]
    BY <1>1
<1>4. \A i \in (m + 1)..(m + n) : z[i] = t[i - m] /\ i - m \in 1..n
    BY <1>1
<1> HIDE DEF z, m, n
<1>5. ASSUME NEW i \in 1..m, NEW j \in (m + 1)..(m + n) PROVE z[i] # z[j]
    <2>1. z[i] \in ToSet(s) /\ z[j] \in ToSet(t)
        BY <1>1, <1>3, <1>4 DEF ToSet
    <2> QED BY <2>1
<1>6. ASSUME NEW i \in DOMAIN z, NEW j \in DOMAIN z, z[i] = z[j] PROVE i = j
    <2>1. CASE i \in 1..m /\ j \in 1..m
        BY <1>1, <1>3, <1>6, <2>1 DEF Row
    <2>2. CASE i \notin 1..m /\ j \notin 1..m
        <3>1. /\ i \in (m + 1)..(m + n) /\ j \in (m + 1)..(m + n)
            BY <1>1, <1>2, <2>2
        <3>2. i - m = j - m
            BY <1>1, <1>4, <1>6, <3>1 DEF Row
        <3> QED BY <1>1, <3>1, <3>2
    <2>3. CASE i \in 1..m /\ j \notin 1..m
        BY <1>1, <1>2, <1>5, <1>6, <2>3
    <2>4. CASE i \notin 1..m /\ j \in 1..m
        BY <1>1, <1>2, <1>5, <1>6, <2>4
    <2> QED BY <2>1, <2>2, <2>3, <2>4
<1>7. ToSet(z) = ToSet(s) \cup ToSet(t)
    <2>1. ASSUME NEW i \in DOMAIN z PROVE z[i] \in ToSet(s) \cup ToSet(t)
        <3>1. CASE i \in 1..m
            BY <1>1, <1>3, <3>1 DEF ToSet
        <3>2. CASE i \notin 1..m
            <4>1. i \in (m + 1)..(m + n)
                BY <1>1, <1>2, <3>2
            <4>2. z[i] = t[i - m] /\ i - m \in DOMAIN t
                BY <1>1, <1>4, <4>1
            <4> QED BY <4>2 DEF ToSet
        <3> QED BY <3>1, <3>2
    <2>2. ASSUME NEW i \in DOMAIN s PROVE s[i] \in ToSet(z)
        <3>1. i \in 1..m /\ i \in 1..(m + n)
            BY <1>1
        <3> QED BY <1>2, <1>3, <3>1 DEF ToSet
    <2>3. ASSUME NEW i \in DOMAIN t PROVE t[i] \in ToSet(z)
        <3>1. i + m \in (m + 1)..(m + n) /\ i + m \in 1..(m + n) /\ i + m - m = i
            BY <1>1
        <3>2. z[i + m] = t[i]
            <4> DEFINE k == i + m
            <4>1. k \in (m + 1)..(m + n) /\ k - m = i
                BY <1>1, <3>1
            <4> HIDE DEF k
            <4>2. z[k] = t[k - m]
                BY <1>4, <4>1
            <4> QED BY <4>1, <4>2 DEF k
        <3> QED BY <1>2, <3>1, <3>2 DEF ToSet
    <2> QED BY <2>1, <2>2, <2>3 DEF ToSet
<1>8. Row(z)
    BY <1>2, <1>6 DEF Row
<1>9. Begins(z, s)
    BY <1>1, <1>2, <1>3 DEF Begins, m
<1> QED BY <1>2, <1>7, <1>8, <1>9 DEF z, m, n

\* One owner is a row.
LEMMA RowOne ==
    ASSUME NEW o \in Owners
    PROVE  Row(<<o>>) /\ Len(<<o>>) = 1 /\ ToSet(<<o>>) = {o}
    BY DEF Row, ToSet

\* One more owner at the end of a row.
LEMMA RowAppend ==
    ASSUME NEW s, NEW o \in Owners, Row(s), o \notin ToSet(s)
    PROVE  /\ Row(Append(s, o)) /\ Len(Append(s, o)) = Len(s) + 1
           /\ ToSet(Append(s, o)) = ToSet(s) \cup {o}
           /\ Begins(Append(s, o), s)
<1>1. Append(s, o) = s \o <<o>>
    BY DEF Row
<1>2. Row(<<o>>) /\ Len(<<o>>) = 1 /\ ToSet(<<o>>) = {o}
    BY RowOne
<1>3. /\ Row(s \o <<o>>) /\ Len(s \o <<o>>) = Len(s) + 1
      /\ ToSet(s \o <<o>>) = ToSet(s) \cup {o} /\ Begins(s \o <<o>>, s)
    BY <1>2, RowConcat
<1> QED BY <1>1, <1>3

\* What the destruction of the youngest owner leaves.
LEMMA RowFront ==
    ASSUME NEW s, Row(s), Len(s) > 0
    PROVE  /\ Row(Front(s)) /\ Len(Front(s)) = Len(s) - 1
           /\ \A i \in 1..(Len(s) - 1) : Front(s)[i] = s[i]
           /\ Last(s) \in Owners /\ Last(s) = s[Len(s)] /\ Last(s) \in ToSet(s)
           /\ ToSet(Front(s)) = ToSet(s) \ {Last(s)}
<1> DEFINE z == Front(s)
           n == Len(s)
<1>1. s \in Seq(Owners) /\ n \in Nat /\ n > 0 /\ DOMAIN s = 1..n
    BY DEF Row
<1>2. z = SubSeq(s, 1, n - 1)
    BY DEF Front
<1>3. /\ z \in Seq(Owners) /\ Len(z) = n - 1 /\ DOMAIN z = 1..(n - 1)
      /\ \A i \in 1..(n - 1) : z[i] = s[i]
    BY <1>1, <1>2
<1>4. Last(s) = s[n] /\ n \in DOMAIN s /\ s[n] \in Owners /\ s[n] \in ToSet(s)
    BY <1>1 DEF Last, ToSet
<1> HIDE DEF z, n
<1>5. Row(z)
    BY <1>1, <1>3 DEF Row
<1>6. ToSet(z) = ToSet(s) \ {s[n]}
    <2>1. ASSUME NEW i \in DOMAIN z PROVE z[i] \in ToSet(s) /\ z[i] # s[n]
        <3>1. i \in DOMAIN s /\ i # n /\ z[i] = s[i]
            BY <1>1, <1>3
        <3> QED BY <1>4, <3>1 DEF Row, ToSet
    <2>2. ASSUME NEW i \in DOMAIN s, s[i] # s[n] PROVE s[i] \in ToSet(z)
        <3>1. i \in DOMAIN z /\ z[i] = s[i]
            BY <1>1, <1>3, <2>2
        <3> QED BY <3>1 DEF ToSet
    <2> QED BY <2>1, <2>2 DEF ToSet
<1> QED BY <1>3, <1>4, <1>5, <1>6 DEF z, n

-----------------------------------------------------------------------------
(* The invariant of main *)

\* The statement that main is at, or goes on with once it has unwound.
Label == IF pc = "unwind" THEN unwind.next ELSE pc

InSession == {"run", "probe_pair", "probe_group", "probe_recv", "arm_read", "running"}
Labels == InSession \cup
    {"cli", "ring", "tun", "listener", "accept", "remote", "connect", "set_up", "create_session",
     "create_receiver", "create_transmitter", "return", "exit", "crashed"}

\* What is alive at each statement.
Listening == Of("main") \o <<<<"main", "listener">>>>
InLocal == Of("main") \o Of("local")
InRun == Of("main") \o Of("session")
Probing == InRun \o <<<<"probe", "ring">>>>
ScopeAt(label) ==
    CASE label \in {"cli", "ring", "exit", "crashed"} -> <<>>
      [] label = "tun" -> <<<<"main", "ring">>>>
      [] label \in {"listener", "connect", "set_up", "create_session"} -> Of("main")
      [] label = "accept" -> Listening
      [] label = "remote" -> Append(Listening, <<"main", "peer">>)
      [] label \in {"create_receiver", "create_transmitter", "return"} -> InLocal
      [] label \in {"run", "arm_read", "running"} -> InRun
      [] label = "probe_pair" -> Probing
      [] label \in {"probe_group", "probe_recv"} ->
            Probing \o <<<<"probe", "send">>, <<"probe", "recv">>>>

\* Objects are destroyed down to what is alive at the statement to go on with.
Scoped ==
    /\ Label \in Labels
    /\ Row(scope)
    /\ pc # "unwind" => scope = ScopeAt(pc)
    /\ pc = "unwind" => /\ unwind.next \in {"exit", "set_up", "run", "arm_read"}
                        /\ unwind.to = Len(ScopeAt(unwind.next))
                        /\ Begins(scope, ScopeAt(unwind.next))

\* Each descriptor in an object is open, of its kind and in no other object,
\* and every open one is in an object.
Hold(live, h, f) ==
    /\ \A o \in Owners : h[o] # NoFd => o \in live /\ h[o] \in DOMAIN f /\ f[h[o]] = Kind(o)
    /\ \A o, p \in Owners : h[o] = h[p] /\ h[o] # NoFd => o = p
    /\ \A n \in DOMAIN f : \E o \in Owners : h[o] = n

Full(place) == \A o \in ToSet(Of(place)) : holds[o] # NoFd
Empty(place) == \A o \in ToSet(Of(place)) : holds[o] = NoFd

\* Where the ring, the device and the connection are.
Placed ==
    /\ Label = "tun" => holds[<<"main", "ring">>] # NoFd
    /\ Label \in {"listener", "accept", "connect"} =>
            \A o \in ToSet(Of("main")) : holds[o] # NoFd <=> o # <<"main", "socket">>
    /\ Label \in {"remote", "set_up", "create_session"} => Full("main")
    /\ Label \in {"create_receiver", "create_transmitter", "return"} => Full("local") /\ Empty("main")
    /\ Label \in InSession => Full("session") /\ Empty("main") /\ Empty("local")

\* No more descriptors are open than the program needs so far.
MaxFd(label) ==
    CASE label \in {"cli", "ring", "crashed"} -> 2
      [] label = "tun" -> 3
      [] label \in {"listener", "connect"} -> 5
      [] label = "accept" -> 6
      [] label \in {"remote", "set_up", "create_session", "create_receiver",
                    "create_transmitter", "return", "run"} -> 7
      [] label = "probe_pair" -> 8
      [] OTHER -> 10

DescriptorInv ==
    /\ Scoped
    /\ holds \in [Owners -> Int]
    /\ Hold(Live, holds, fds)
    /\ Placed
    /\ DOMAIN fds \subseteq 3..MaxFd(Label)

\* The owners that are alive at each statement are a row.
LEMMA RowsAre ==
    /\ Row(<<>>) /\ Len(<<>>) = 0 /\ ToSet(<<>>) = {}
    /\ Row(Listening) /\ ToSet(Listening) = ToSet(Of("main")) \cup {<<"main", "listener">>}
    /\ Begins(Listening, Of("main"))
    /\ Row(InLocal) /\ ToSet(InLocal) = ToSet(Of("main")) \cup ToSet(Of("local"))
    /\ Row(InRun) /\ ToSet(InRun) = ToSet(Of("main")) \cup ToSet(Of("session")) /\ Len(InRun) = 8
    /\ Row(Probing) /\ ToSet(Probing) = ToSet(InRun) \cup {<<"probe", "ring">>}
    /\ Begins(Probing, InRun)
<1>1. Row(<<>>) /\ Len(<<>>) = 0 /\ ToSet(<<>>) = {}
    BY DEF Row, ToSet
<1>2. /\ <<"main", "listener">> \in Owners /\ <<"main", "peer">> \in Owners
      /\ <<"probe", "ring">> \in Owners /\ <<"probe", "send">> \in Owners
    BY OwnersAre
<1>3. /\ Row(Of("main")) /\ Len(Of("main")) = 4 /\ Row(Of("local")) /\ Row(Of("session"))
      /\ Len(Of("session")) = 4
    BY OfIs
<1>4. /\ ToSet(Of("main")) \cap ToSet(Of("local")) = {}
      /\ ToSet(Of("main")) \cap ToSet(Of("session")) = {}
      /\ ToSet(Of("main")) \cap {<<"main", "listener">>} = {}
      /\ (ToSet(Of("main")) \cup ToSet(Of("session"))) \cap {<<"probe", "ring">>} = {}
    BY OfIs
<1>5. /\ Row(Listening) /\ ToSet(Listening) = ToSet(Of("main")) \cup {<<"main", "listener">>}
      /\ Begins(Listening, Of("main"))
    BY <1>2, <1>3, <1>4, RowOne, RowConcat DEF Listening
<1>6. Row(InLocal) /\ ToSet(InLocal) = ToSet(Of("main")) \cup ToSet(Of("local"))
    BY <1>3, <1>4, RowConcat DEF InLocal
<1>7. Row(InRun) /\ ToSet(InRun) = ToSet(Of("main")) \cup ToSet(Of("session")) /\ Len(InRun) = 8
    <2>1. /\ Row(InRun) /\ ToSet(InRun) = ToSet(Of("main")) \cup ToSet(Of("session"))
          /\ Len(InRun) = Len(Of("main")) + Len(Of("session"))
        BY <1>3, <1>4, RowConcat DEF InRun
    <2>2. Len(InRun) = 4 + 4
        BY <1>3, <2>1, Zenon
    <2>3. 4 + 4 = 8
        OBVIOUS
    <2> QED BY <2>1, <2>2, <2>3, Zenon
<1>8. /\ Row(Probing) /\ ToSet(Probing) = ToSet(InRun) \cup {<<"probe", "ring">>}
      /\ Begins(Probing, InRun)
    BY <1>2, <1>4, <1>7, RowOne, RowConcat DEF Probing
<1> QED BY <1>1, <1>5, <1>6, <1>7, <1>8

\* What begins with a row that begins with a third one begins with that.
LEMMA BeginsMore ==
    ASSUME NEW s, NEW t, NEW u, Row(t), Row(u), Begins(s, t), Begins(t, u)
    PROVE  Begins(s, u)
<1>1. Len(t) \in Nat /\ Len(u) \in Nat /\ Len(u) <= Len(t) /\ Len(t) <= Len(s)
    BY DEF Row, Begins
<1>2. ASSUME NEW i \in 1..Len(u) PROVE s[i] = u[i]
    <2>1. i \in 1..Len(t)
        BY <1>1
    <2> QED BY <2>1 DEF Begins
<1>3. Len(u) <= Len(s)
    <2> QED BY <1>1 DEF Begins
<1> QED BY <1>2, <1>3 DEF Begins

\* The rows at which one more owner, or several more, are alive.
LEMMA LongerRows ==
    /\ Row(<<<<"main", "ring">>>>) /\ ToSet(<<<<"main", "ring">>>>) = {<<"main", "ring">>}
    /\ Row(Append(Of("main"), <<"main", "peer">>))
    /\ ToSet(Append(Of("main"), <<"main", "peer">>)) = ToSet(Of("main")) \cup {<<"main", "peer">>}
    /\ Begins(Append(Of("main"), <<"main", "peer">>), Of("main"))
    /\ Row(Append(Listening, <<"main", "peer">>))
    /\ ToSet(Append(Listening, <<"main", "peer">>)) = ToSet(Listening) \cup {<<"main", "peer">>}
    /\ Begins(Append(Listening, <<"main", "peer">>), Of("main"))
    /\ Row(InRun \o Of("local")) /\ ToSet(InRun \o Of("local")) = ToSet(InRun) \cup ToSet(Of("local"))
    /\ Begins(InRun \o Of("local"), InRun)
    /\ Row(Probing \o <<<<"probe", "send">>, <<"probe", "recv">>>>)
    /\ ToSet(Probing \o <<<<"probe", "send">>, <<"probe", "recv">>>>) =
            ToSet(Probing) \cup {<<"probe", "send">>, <<"probe", "recv">>}
    /\ Begins(Probing \o <<<<"probe", "send">>, <<"probe", "recv">>>>, InRun)
<1>1. /\ <<"main", "ring">> \in Owners /\ <<"main", "peer">> \in Owners
      /\ <<"probe", "send">> \in Owners /\ <<"probe", "recv">> \in Owners
    BY OwnersAre
<1>2. Row(<<<<"main", "ring">>>>) /\ ToSet(<<<<"main", "ring">>>>) = {<<"main", "ring">>}
    BY <1>1, RowOne
<1>3. Row(Of("main")) /\ Row(Of("local")) /\ Row(Listening) /\ Row(InRun) /\ Row(Probing)
    BY OfIs, RowsAre
<1>4. <<"main", "peer">> \notin ToSet(Of("main")) /\ <<"main", "peer">> \notin ToSet(Listening)
    BY OfIs, RowsAre
<1>5. ToSet(InRun) \cap ToSet(Of("local")) = {}
    BY OfIs, RowsAre
<1>6. /\ Row(Append(Of("main"), <<"main", "peer">>))
      /\ ToSet(Append(Of("main"), <<"main", "peer">>)) = ToSet(Of("main")) \cup {<<"main", "peer">>}
      /\ Begins(Append(Of("main"), <<"main", "peer">>), Of("main"))
    BY <1>1, <1>3, <1>4, RowAppend
<1>7. /\ Row(Append(Listening, <<"main", "peer">>))
      /\ ToSet(Append(Listening, <<"main", "peer">>)) = ToSet(Listening) \cup {<<"main", "peer">>}
      /\ Begins(Append(Listening, <<"main", "peer">>), Listening)
    BY <1>1, <1>3, <1>4, RowAppend
<1>8. Begins(Append(Listening, <<"main", "peer">>), Of("main"))
    BY <1>3, <1>7, RowsAre, BeginsMore
<1>9. /\ Row(InRun \o Of("local"))
      /\ ToSet(InRun \o Of("local")) = ToSet(InRun) \cup ToSet(Of("local"))
      /\ Begins(InRun \o Of("local"), InRun)
    BY <1>3, <1>5, RowConcat
<1> DEFINE p == <<<<"probe", "send">>, <<"probe", "recv">>>>
<1>10. Row(p) /\ ToSet(p) = {<<"probe", "send">>, <<"probe", "recv">>}
    <2>1. p \in Seq(Owners) /\ DOMAIN p = 1..2 /\ p[1] = <<"probe", "send">> /\ p[2] = <<"probe", "recv">>
        BY <1>1
    <2> HIDE DEF p
    <2> QED BY <2>1 DEF Row, ToSet
<1>11. ToSet(Probing) \cap ToSet(p) = {}
    BY <1>10, OfIs, RowsAre
<1>12. /\ Row(Probing \o p) /\ ToSet(Probing \o p) = ToSet(Probing) \cup ToSet(p)
       /\ Begins(Probing \o p, Probing)
    <2> HIDE DEF p
    <2> QED BY <1>3, <1>10, <1>11, RowConcat
<1>13. Begins(Probing \o p, InRun)
    <2> HIDE DEF p
    <2> QED BY <1>3, <1>12, RowsAre, BeginsMore
<1> QED BY <1>2, <1>6, <1>7, <1>8, <1>9, <1>10, <1>12, <1>13

\* The rows at the statements that main goes on with after unwinding, and the
\* rows at the others.
LEMMA ScopeValues ==
    /\ \A label \in {"cli", "ring", "exit", "crashed"} : ScopeAt(label) = <<>>
    /\ ScopeAt("tun") = <<<<"main", "ring">>>>
    /\ \A label \in {"listener", "connect", "set_up", "create_session"} : ScopeAt(label) = Of("main")
    /\ ScopeAt("accept") = Listening
    /\ ScopeAt("remote") = Append(Listening, <<"main", "peer">>)
    /\ \A label \in {"create_receiver", "create_transmitter", "return"} : ScopeAt(label) = InLocal
    /\ \A label \in {"run", "arm_read", "running"} : ScopeAt(label) = InRun
    /\ ScopeAt("probe_pair") = Probing
    /\ \A label \in {"probe_group", "probe_recv"} :
            ScopeAt(label) = Probing \o <<<<"probe", "send">>, <<"probe", "recv">>>>
    /\ Len(ScopeAt("exit")) = 0 /\ Len(ScopeAt("set_up")) = 4
    /\ Len(ScopeAt("run")) = 8 /\ Len(ScopeAt("arm_read")) = 8
<1>1. /\ \A label \in {"cli", "ring", "exit", "crashed"} : ScopeAt(label) = <<>>
      /\ ScopeAt("tun") = <<<<"main", "ring">>>>
      /\ ScopeAt("accept") = Listening
      /\ ScopeAt("remote") = Append(Listening, <<"main", "peer">>)
      /\ ScopeAt("probe_pair") = Probing
    BY DEF ScopeAt
<1>2. \A label \in {"listener", "connect", "set_up", "create_session"} : ScopeAt(label) = Of("main")
    BY DEF ScopeAt
<1>3. \A label \in {"create_receiver", "create_transmitter", "return"} : ScopeAt(label) = InLocal
    BY DEF ScopeAt
<1>4. \A label \in {"run", "arm_read", "running"} : ScopeAt(label) = InRun
    BY DEF ScopeAt
<1>5. \A label \in {"probe_group", "probe_recv"} :
            ScopeAt(label) = Probing \o <<<<"probe", "send">>, <<"probe", "recv">>>>
    BY DEF ScopeAt
<1> HIDE DEF ScopeAt
<1> QED BY <1>1, <1>2, <1>3, <1>4, <1>5, OfIs, RowsAre

\* What is alive at each statement is a row.
LEMMA ScopeRow == ASSUME NEW label \in Labels PROVE Row(ScopeAt(label))
<1>1. CASE label \in {"cli", "ring", "exit", "crashed"}
    BY <1>1, ScopeValues, RowsAre
<1>2. CASE label \in {"listener", "connect", "set_up", "create_session"}
    BY <1>2, ScopeValues, OfIs
<1>3. CASE label \in {"create_receiver", "create_transmitter", "return"}
    BY <1>3, ScopeValues, RowsAre
<1>4. CASE label \in {"run", "arm_read", "running"}
    BY <1>4, ScopeValues, RowsAre
<1>5. CASE label \in {"probe_group", "probe_recv"}
    BY <1>5, ScopeValues, LongerRows
<1>6. CASE label \in {"tun", "accept", "remote", "probe_pair"}
    BY <1>6, ScopeValues, RowsAre, LongerRows
<1> QED BY <1>1, <1>2, <1>3, <1>4, <1>5, <1>6 DEF Labels, InSession

\* A step to the next statement is right when what is alive there is.
LEMMA GotoScoped ==
    ASSUME NEW label \in Labels, Goto(label), scope' = ScopeAt(label)
    PROVE  Scoped' /\ Label' = label
<1>1. label # "unwind"
    BY DEF Labels, InSession
<1>2. pc' = label /\ Label' = label
    BY <1>1 DEF Goto, Label
<1>3. Row(scope')
    BY ScopeRow
<1> QED BY <1>1, <1>2, <1>3 DEF Scoped

\* So is the beginning of an unwinding.
LEMMA LeaveScoped ==
    ASSUME NEW label \in {"exit", "set_up", "run", "arm_read"},
           Leave(Len(ScopeAt(label)), label), Row(scope'), Begins(scope', ScopeAt(label))
    PROVE  Scoped' /\ Label' = label
<1>1. pc' = "unwind" /\ unwind' = [to |-> Len(ScopeAt(label)), next |-> label]
    BY DEF Leave
<1>2. Label' = label /\ label \in Labels
    BY <1>1 DEF Label, Labels, InSession
<1>3. /\ (unwind.next)' = label /\ (unwind.to)' = Len(ScopeAt(label))
    BY <1>1
<1> HIDE DEF Leave
<1> QED BY <1>1, <1>2, <1>3 DEF Scoped

\* Every row begins with the empty one.
LEMMA BeginsExit ==
    ASSUME NEW s, Row(s)
    PROVE  Begins(s, ScopeAt("exit"))
    BY ScopeValues DEF Begins, Row

\* A failure of a call leaves main with what is alive to destroy.
LEMMA FailureScoped ==
    ASSUME Scoped, Leave(0, "exit"), UNCHANGED scope
    PROVE  Scoped' /\ Label' = "exit"
<1>1. Leave(Len(ScopeAt("exit")), "exit")
    BY ScopeValues
<1>2. Row(scope') /\ Begins(scope', ScopeAt("exit"))
    BY BeginsExit DEF Scoped
<1> QED BY <1>1, <1>2, LeaveScoped

\* The youngest object while there is one to destroy, and its destruction.
LEMMA DestroyScoped ==
    ASSUME Scoped, pc = "unwind", Len(scope) > unwind.to
    PROVE  /\ Top \in Owners /\ Top \in Live
           /\ Top \notin ToSet(ScopeAt(Label)) /\ ToSet(ScopeAt(Label)) \subseteq Live
           /\ Destroy => Scoped' /\ Label' = Label /\ Live' = Live \ {Top}
<1> DEFINE u == ScopeAt(unwind.next)
           n == Len(scope)
<1>1. /\ n > Len(u) /\ Row(scope) /\ Begins(scope, u) /\ Label = unwind.next
      /\ unwind.next \in {"exit", "set_up", "run", "arm_read"}
    BY DEF Scoped, Label
<1>2. n \in Nat /\ Row(u) /\ Len(u) \in Nat /\ DOMAIN u = 1..Len(u) /\ DOMAIN scope = 1..n
    <2>1. Row(u)
        BY ScopeRow, <1>1 DEF Labels, InSession
    <2> HIDE DEF u
    <2> QED BY <1>1, <2>1 DEF Row
<1> HIDE DEF u, n
<1>3. /\ Row(Front(scope)) /\ Len(Front(scope)) = n - 1
      /\ \A i \in 1..(n - 1) : Front(scope)[i] = scope[i]
      /\ Last(scope) \in Owners /\ Last(scope) = scope[n] /\ Last(scope) \in ToSet(scope)
      /\ ToSet(Front(scope)) = ToSet(scope) \ {Last(scope)}
    <2>1. Row(scope) /\ Len(scope) > 0
        BY <1>1, <1>2 DEF n
    <2> QED BY <2>1, RowFront DEF n
<1>4. Begins(Front(scope), u)
    <2>1. ASSUME NEW i \in 1..Len(u) PROVE Front(scope)[i] = u[i]
        <3>1. i \in 1..(n - 1)
            BY <1>1, <1>2
        <3> QED BY <1>1, <1>3, <3>1 DEF Begins
    <2>2. Len(u) <= Len(Front(scope))
        BY <1>1, <1>2, <1>3
    <2> QED BY <2>1, <2>2 DEF Begins
<1>5. ASSUME Destroy PROVE Scoped' /\ Label' = Label /\ scope' = Front(scope)
    <2>1. scope' = Front(scope) /\ pc' = pc /\ unwind' = unwind /\ Label' = Label
        BY <1>5 DEF Destroy, Label
    <2>2. /\ pc' = "unwind" /\ Label' \in Labels /\ Row(scope')
          /\ (unwind.next)' \in {"exit", "set_up", "run", "arm_read"}
          /\ (unwind.to)' = Len(ScopeAt((unwind.next)'))
          /\ Begins(scope', ScopeAt((unwind.next)'))
        BY <1>1, <1>3, <1>4, <2>1 DEF Scoped, u
    <2> QED BY <2>1, <2>2 DEF Scoped
<1>6. ASSUME NEW i \in DOMAIN u PROVE u[i] \in ToSet(scope) /\ u[i] # Last(scope)
    <2>1. i \in 1..n /\ i # n /\ n \in 1..n
        BY <1>1, <1>2
    <2>2. scope[i] = u[i]
        BY <1>1, <1>2 DEF Begins
    <2>3. scope[i] # scope[n]
        BY <1>1, <1>2, <2>1 DEF Row
    <2> QED BY <1>2, <1>3, <2>1, <2>2, <2>3 DEF ToSet
<1>7. ToSet(u) \subseteq ToSet(scope) /\ Last(scope) \notin ToSet(u)
    BY <1>6 DEF ToSet
<1>8. Label = unwind.next /\ u = ScopeAt(Label)
    BY <1>1 DEF u
<1> QED BY <1>1, <1>3, <1>5, <1>7, <1>8 DEF Live, Top

-----------------------------------------------------------------------------
(* Who holds what *)

\* Some more objects get a descriptor each.
LEMMA HoldMore ==
    ASSUME NEW live, NEW live2, NEW h, NEW h2, NEW f, NEW f2, NEW new \in SUBSET Owners,
           Hold(live, h, f), live \cup new \subseteq live2,
           \A o \in new : h[o] = NoFd /\ h2[o] \notin DOMAIN f /\ f2[h2[o]] = Kind(o),
           \A o \in Owners \ new : h2[o] = h[o],
           \A o, p \in new : h2[o] = h2[p] => o = p,
           DOMAIN f2 = DOMAIN f \cup { h2[o] : o \in new },
           \A n \in DOMAIN f : f2[n] = f[n],
           NoFd \notin DOMAIN f
    PROVE  Hold(live2, h2, f2)
<1>1. ASSUME NEW o \in Owners, h2[o] # NoFd
      PROVE  o \in live2 /\ h2[o] \in DOMAIN f2 /\ f2[h2[o]] = Kind(o)
    <2>1. CASE o \in new
        BY <2>1
    <2>2. CASE o \notin new
        <3>1. h2[o] = h[o]
            BY <2>2
        <3>2. o \in live /\ h[o] \in DOMAIN f /\ f[h[o]] = Kind(o)
            BY <1>1, <3>1 DEF Hold
        <3> QED BY <3>1, <3>2
    <2> QED BY <2>1, <2>2
<1>2. ASSUME NEW o \in Owners \ new, h[o] # NoFd PROVE h[o] \in DOMAIN f
    BY <1>2 DEF Hold
<1>3. ASSUME NEW o \in Owners, NEW p \in Owners, h2[o] = h2[p], h2[o] # NoFd PROVE o = p
    <2>1. CASE o \in new /\ p \in new
        BY <1>3, <2>1
    <2>2. CASE o \notin new /\ p \notin new
        BY <1>3, <2>2 DEF Hold
    <2>3. CASE o \in new /\ p \notin new
        BY <1>2, <1>3, <2>3
    <2>4. CASE o \notin new /\ p \in new
        BY <1>2, <1>3, <2>4
    <2> QED BY <2>1, <2>2, <2>3, <2>4
<1>4. ASSUME NEW n \in DOMAIN f2 PROVE \E o \in Owners : h2[o] = n
    <2>1. CASE n \in DOMAIN f
        <3>1. PICK o \in Owners : h[o] = n
            BY <2>1 DEF Hold
        <3>2. o \notin new
            BY <2>1, <3>1
        <3> QED BY <3>1, <3>2
    <2>3. CASE n \notin DOMAIN f
        BY <2>3
    <2> QED BY <2>1, <2>3
<1> QED BY <1>1, <1>3, <1>4 DEF Hold

\* The descriptor of an object goes with it.
LEMMA HoldLess ==
    ASSUME NEW live, NEW h \in [Owners -> Int], NEW f, NEW o \in Owners, Hold(live, h, f)
    PROVE  Hold(live \ {o}, [h EXCEPT ![o] = NoFd], [n \in DOMAIN f \ {h[o]} |-> f[n]])
<1> DEFINE h2 == [h EXCEPT ![o] = NoFd]
           f2 == [n \in DOMAIN f \ {h[o]} |-> f[n]]
<1>1. h2[o] = NoFd /\ \A p \in Owners \ {o} : h2[p] = h[p]
    OBVIOUS
<1>2. DOMAIN f2 = DOMAIN f \ {h[o]} /\ \A n \in DOMAIN f \ {h[o]} : f2[n] = f[n]
    OBVIOUS
<1> HIDE DEF h2, f2
<1>3. ASSUME NEW p \in Owners, h2[p] # NoFd
      PROVE  p \in live \ {o} /\ h2[p] \in DOMAIN f2 /\ f2[h2[p]] = Kind(p)
    <2>1. p # o /\ h2[p] = h[p]
        BY <1>1, <1>3
    <2>2. p \in live /\ h[p] \in DOMAIN f /\ f[h[p]] = Kind(p) /\ h[p] # h[o]
        BY <1>3, <2>1 DEF Hold
    <2> QED BY <1>2, <2>1, <2>2
<1>4. \A p, q \in Owners : h2[p] = h2[q] /\ h2[p] # NoFd => p = q
    BY <1>1 DEF Hold
<1>5. ASSUME NEW n \in DOMAIN f2 PROVE \E p \in Owners : h2[p] = n
    <2>1. n \in DOMAIN f /\ n # h[o]
        BY <1>2
    <2>2. PICK p \in Owners : h[p] = n
        BY <2>1 DEF Hold
    <2> QED BY <1>1, <2>1, <2>2
<1>6. Hold(live \ {o}, h2, f2)
    BY <1>3, <1>4, <1>5 DEF Hold
<1> QED BY <1>6 DEF h2, f2

\* Descriptors move to other objects of the same kind: to o from from[o].
LEMMA HoldMoved ==
    ASSUME NEW live, NEW live2, NEW h, NEW h2, NEW f, Hold(live, h, f), NEW from,
           \A o \in Owners : h2[o] # NoFd =>
                /\ o \in live2
                /\ from[o] \in Owners /\ Kind(from[o]) = Kind(o) /\ h2[o] = h[from[o]],
           \A o, p \in Owners : h2[o] # NoFd /\ from[o] = from[p] /\ h2[p] # NoFd => o = p,
           \A o \in Owners : h[o] # NoFd => \E p \in Owners : h2[p] = h[o],
           NoFd \notin DOMAIN f
    PROVE  Hold(live2, h2, f)
<1>1. ASSUME NEW o \in Owners, h2[o] # NoFd
      PROVE  o \in live2 /\ h2[o] \in DOMAIN f /\ f[h2[o]] = Kind(o)
    <2>1. /\ o \in live2 /\ from[o] \in Owners /\ Kind(from[o]) = Kind(o) /\ h2[o] = h[from[o]]
        BY <1>1
    <2>2. h[from[o]] \in DOMAIN f /\ f[h[from[o]]] = Kind(from[o])
        BY <1>1, <2>1 DEF Hold
    <2> QED BY <2>1, <2>2
<1>2. ASSUME NEW o \in Owners, NEW p \in Owners, h2[o] = h2[p], h2[o] # NoFd PROVE o = p
    <2>1. /\ from[o] \in Owners /\ h2[o] = h[from[o]] /\ from[p] \in Owners /\ h2[p] = h[from[p]]
        BY <1>2
    <2>2. h[from[o]] = h[from[p]] /\ h[from[o]] # NoFd
        BY <1>2, <2>1
    <2>3. from[o] = from[p]
        BY <2>1, <2>2 DEF Hold
    <2> QED BY <1>2, <2>3
<1>3. ASSUME NEW n \in DOMAIN f PROVE \E o \in Owners : h2[o] = n
    <2>1. PICK o \in Owners : h[o] = n
        BY DEF Hold
    <2> QED BY <2>1
<1> QED BY <1>1, <1>2, <1>3 DEF Hold

\* The construction of one object.
LEMMA AcquireOne ==
    ASSUME NEW o \in Owners, NEW b \in 2..9, DOMAIN fds \subseteq 3..b, Row(scope),
           holds \in [Owners -> Int], Hold(Live, holds, fds), o \notin Live, Acquire(<<o>>)
    PROVE  /\ scope' = scope \o <<o>> /\ Live' = Live \cup {o}
           /\ holds' \in [Owners -> Int] /\ holds'[o] # NoFd
           /\ \A p \in Owners \ {o} : holds'[p] = holds[p]
           /\ DOMAIN fds' \subseteq 3..(b + 1) /\ Hold(Live', holds', fds')
<1> DEFINE new == FreeFds(1)
           At(p) == CHOOSE i \in DOMAIN <<o>> : <<o>>[i] = p
<1>1. FreeFd \in 3..(b + 1) /\ FreeFd \notin DOMAIN fds
    BY FreeFdIsFree
<1>2. DOMAIN new = 1..1 /\ new[1] = FreeFd
    BY OneFreeFd
<1> HIDE DEF new
<1>3. ToSet(new) = {FreeFd} /\ ToSet(<<o>>) = {o} /\ Len(<<o>>) = 1
    BY <1>2 DEF ToSet
<1>4. DOMAIN <<o>> = 1..1 /\ <<o>>[1] = o
    OBVIOUS
<1>5. At(o) = 1
    BY <1>4
<1>6. (CHOOSE i \in DOMAIN <<o>> : new[i] = FreeFd) = 1
    BY <1>2, <1>4
<1>7. /\ scope' = scope \o <<o>>
      /\ holds' = [p \in Owners |-> IF p \in ToSet(<<o>>) THEN new[At(p)] ELSE holds[p]]
      /\ fds' = [n \in DOMAIN fds \cup ToSet(new) |->
                    IF n \in DOMAIN fds THEN fds[n]
                    ELSE Kind(<<o>>[CHOOSE i \in DOMAIN <<o>> : new[i] = n])]
    BY <1>3 DEF Acquire, new
<1>8. /\ holds'[o] = FreeFd /\ \A p \in Owners \ {o} : holds'[p] = holds[p]
      /\ holds' \in [Owners -> Int]
    <2> HIDE DEF At
    <2> QED BY <1>1, <1>2, <1>3, <1>5, <1>7
<1>9. DOMAIN fds' = DOMAIN fds \cup {FreeFd}
    BY <1>3, <1>7
<1>10. \A n \in DOMAIN fds : fds'[n] = fds[n]
    BY <1>7
<1>11. fds'[FreeFd] = Kind(o)
    BY <1>1, <1>3, <1>4, <1>6, <1>7
<1>12. Live' = Live \cup {o}
    BY <1>3, <1>7, RowOne, RowConcat DEF Live
<1>13. holds[o] = NoFd
    BY DEF Hold
<1>14. Hold(Live', holds', fds')
    <2> DEFINE N == {o}
    <2>1. /\ N \in SUBSET Owners /\ Live \cup N \subseteq Live'
          /\ \A p \in N : holds[p] = NoFd /\ holds'[p] \notin DOMAIN fds /\ fds'[holds'[p]] = Kind(p)
          /\ \A p \in Owners \ N : holds'[p] = holds[p]
          /\ \A p, q \in N : holds'[p] = holds'[q] => p = q
        BY <1>1, <1>8, <1>11, <1>12, <1>13
    <2>2. DOMAIN fds' = DOMAIN fds \cup { holds'[p] : p \in N }
        BY <1>8, <1>9
    <2>3. NoFd \notin DOMAIN fds
        BY DEF NoFd
    <2> HIDE DEF N
    <2> QED BY <1>10, <2>1, <2>2, <2>3, HoldMore
<1>15. holds'[o] # NoFd
    BY <1>1, <1>8 DEF NoFd
<1>16. DOMAIN fds' \subseteq 3..(b + 1)
    BY <1>1, <1>9
<1> QED BY <1>7, <1>8, <1>12, <1>14, <1>15, <1>16

\* The construction of two objects.
LEMMA AcquireTwo ==
    ASSUME NEW o \in Owners, NEW p \in Owners, o # p, NEW b \in 2..8, DOMAIN fds \subseteq 3..b,
           Row(scope), holds \in [Owners -> Int], Hold(Live, holds, fds), o \notin Live, p \notin Live,
           Row(<<o, p>>), Acquire(<<o, p>>)
    PROVE  /\ scope' = scope \o <<o, p>> /\ Live' = Live \cup {o, p}
           /\ holds' \in [Owners -> Int]
           /\ DOMAIN fds' \subseteq 3..(b + 2) /\ Hold(Live', holds', fds')
<1> DEFINE new == FreeFds(2)
           s == <<o, p>>
           At(q) == CHOOSE i \in DOMAIN s : s[i] = q
<1>1. /\ DOMAIN new = 1..2 /\ new[1] \in 3..(b + 2) \ DOMAIN fds
      /\ new[2] \in 3..(b + 2) \ DOMAIN fds /\ new[1] # new[2]
    BY TwoFreeFds
<1>2. Len(s) = 2
    OBVIOUS
<1>3. /\ scope' = scope \o s
      /\ holds' = [q \in Owners |-> IF q \in ToSet(s) THEN new[At(q)] ELSE holds[q]]
      /\ fds' = [n \in DOMAIN fds \cup ToSet(new) |->
                    IF n \in DOMAIN fds THEN fds[n]
                    ELSE Kind(s[CHOOSE i \in DOMAIN s : new[i] = n])]
    BY <1>2 DEF Acquire
<1>4. DOMAIN s = 1..2 /\ s[1] = o /\ s[2] = p
    OBVIOUS
<1> HIDE DEF new, s
<1>5. ToSet(new) = {new[1], new[2]} /\ ToSet(s) = {o, p}
    BY <1>1, <1>4 DEF ToSet
<1>6. At(o) = 1 /\ At(p) = 2
    BY <1>4
<1>7. /\ (CHOOSE i \in DOMAIN s : new[i] = new[1]) = 1
      /\ (CHOOSE i \in DOMAIN s : new[i] = new[2]) = 2
    BY <1>1, <1>4
<1> HIDE DEF At
<1>8. /\ holds'[o] = new[1] /\ holds'[p] = new[2]
      /\ \A q \in Owners \ {o, p} : holds'[q] = holds[q]
    BY <1>3, <1>5, <1>6
<1>9. holds' \in [Owners -> Int]
    <2>1. \A q \in Owners : holds'[q] \in Int
        BY <1>1, <1>8
    <2>2. holds' = [q \in Owners |-> holds'[q]]
        BY <1>3
    <2> QED BY <2>1, <2>2
<1>10. DOMAIN fds' = DOMAIN fds \cup {new[1], new[2]}
    BY <1>3, <1>5
<1>11. \A n \in DOMAIN fds : fds'[n] = fds[n]
    BY <1>3
<1>12. fds'[new[1]] = Kind(o) /\ fds'[new[2]] = Kind(p)
    BY <1>1, <1>3, <1>4, <1>5, <1>7
<1>13. Live' = Live \cup {o, p}
    <2>1. Row(s) /\ ToSet(scope) \cap ToSet(s) = {}
        BY <1>5 DEF Live, s
    <2> QED BY <1>3, <1>5, <2>1, RowConcat DEF Live
<1>14. holds[o] = NoFd /\ holds[p] = NoFd
    BY DEF Hold
<1>15. Hold(Live', holds', fds')
    <2> DEFINE N == {o, p}
    <2>1. /\ N \in SUBSET Owners /\ Live \cup N \subseteq Live'
          /\ \A q \in N : holds[q] = NoFd /\ holds'[q] \notin DOMAIN fds /\ fds'[holds'[q]] = Kind(q)
          /\ \A q \in Owners \ N : holds'[q] = holds[q]
          /\ \A q, r \in N : holds'[q] = holds'[r] => q = r
        BY <1>1, <1>8, <1>12, <1>13, <1>14
    <2>2. DOMAIN fds' = DOMAIN fds \cup { holds'[q] : q \in N }
        BY <1>8, <1>10
    <2>3. NoFd \notin DOMAIN fds
        BY DEF NoFd
    <2> HIDE DEF N
    <2> QED BY <1>11, <2>1, <2>2, <2>3, HoldMore
<1>16. DOMAIN fds' \subseteq 3..(b + 2)
    BY <1>1, <1>10
<1> QED BY <1>3, <1>8, <1>9, <1>13, <1>15, <1>16 DEF s

-----------------------------------------------------------------------------
(* The invariant is kept *)

\* What is open at each statement, by number.
LEMMA MaxFdIs ==
    /\ \A label \in Labels : MaxFd(label) \in 2..10 /\ MaxFd("exit") >= MaxFd(label)
    /\ MaxFd("ring") = 2 /\ MaxFd("tun") = 3 /\ MaxFd("listener") = 5 /\ MaxFd("connect") = 5
    /\ MaxFd("accept") = 6 /\ MaxFd("remote") = 7 /\ MaxFd("set_up") = 7
    /\ MaxFd("create_session") = 7 /\ MaxFd("create_receiver") = 7
    /\ MaxFd("create_transmitter") = 7 /\ MaxFd("return") = 7 /\ MaxFd("run") = 7
    /\ MaxFd("probe_pair") = 8 /\ MaxFd("probe_group") = 10 /\ MaxFd("probe_recv") = 10
    /\ MaxFd("arm_read") = 10 /\ MaxFd("running") = 10 /\ MaxFd("cli") = 2
    BY DEF MaxFd

\* No descriptor is negative.
LEMMA DescriptorsPositive ==
    ASSUME DescriptorInv
    PROVE  /\ Label \in Labels /\ MaxFd(Label) \in 2..10 /\ DOMAIN fds \subseteq 3..MaxFd(Label)
           /\ NoFd \notin DOMAIN fds /\ Row(scope) /\ holds \in [Owners -> Int]
           /\ Hold(Live, holds, fds) /\ Placed
           /\ pc # "unwind" => Label = pc /\ scope = ScopeAt(pc) /\ Live = ToSet(ScopeAt(pc))
           /\ \A o \in Owners : o \notin Live => holds[o] = NoFd
<1>1. Label \in Labels /\ Row(scope) /\ (pc # "unwind" => scope = ScopeAt(pc))
    BY DEF DescriptorInv, Scoped
<1>2. MaxFd(Label) \in 2..10 /\ DOMAIN fds \subseteq 3..MaxFd(Label)
    BY <1>1, MaxFdIs DEF DescriptorInv
<1>3. NoFd \notin DOMAIN fds
    BY <1>2 DEF NoFd
<1>4. pc # "unwind" => Label = pc /\ Live = ToSet(ScopeAt(pc))
    BY <1>1 DEF Label, Live
<1>5. \A o \in Owners : o \notin Live => holds[o] = NoFd
    BY DEF DescriptorInv, Hold
<1> QED BY <1>1, <1>2, <1>3, <1>4, <1>5 DEF DescriptorInv

\* A step that neither constructs nor destroys nor moves.
LEMMA QuietStep ==
    ASSUME DescriptorInv, UNCHANGED <<scope, holds, fds>>, Scoped',
           MaxFd(Label') \in Int, MaxFd(Label) <= MaxFd(Label'), Placed'
    PROVE  DescriptorInv'
<1>1. Live' = Live
    BY DEF Live
<1>2. Hold(Live', holds', fds')
    BY <1>1 DEF DescriptorInv
<1>3. DOMAIN fds' \subseteq 3..MaxFd(Label')
    BY DescriptorsPositive
<1>4. holds' \in [Owners -> Int]
    BY DEF DescriptorInv
<1> QED BY <1>2, <1>3, <1>4 DEF DescriptorInv

\* A failed call.
LEMMA FailureStep ==
    ASSUME DescriptorInv, Leave(0, "exit"), UNCHANGED <<scope, holds, fds>>
    PROVE  DescriptorInv'
<1>1. Scoped' /\ Label' = "exit"
    BY FailureScoped DEF DescriptorInv
<1>2. Placed'
    BY <1>1 DEF Placed, InSession
<1>3. MaxFd(Label') \in Int /\ MaxFd(Label) <= MaxFd(Label')
    <2>1. Label \in Labels /\ "exit" \in Labels
        BY DescriptorsPositive DEF Labels
    <2> QED BY <1>1, <2>1, MaxFdIs
<1> QED BY <1>1, <1>2, <1>3, QuietStep

\* The command line.
LEMMA CliStep == ASSUME DescriptorInv, Cli PROVE DescriptorInv'
<1>1. /\ pc = "cli" /\ UNCHANGED <<scope, holds, fds>>
      /\ Goto("cli") \/ Goto("ring") \/ Goto("exit")
    BY DEF Cli
<1>2. Label = "cli" /\ scope' = <<>>
    BY <1>1, DescriptorsPositive, ScopeValues
<1>3. ASSUME NEW label \in {"cli", "ring", "exit"}, Goto(label) PROVE DescriptorInv'
    <2>1. label \in Labels /\ scope' = ScopeAt(label)
        BY <1>2, ScopeValues DEF Labels
    <2>2. Scoped' /\ Label' = label
        BY <1>3, <2>1, GotoScoped
    <2>3. Placed'
        BY <2>2 DEF Placed, InSession
    <2>4. MaxFd(Label') \in Int /\ MaxFd(Label) <= MaxFd(Label')
        BY <1>2, <2>1, <2>2, MaxFdIs
    <2> QED BY <1>1, <2>2, <2>3, <2>4, QuietStep
<1> QED BY <1>1, <1>3

\* The ring.
LEMMA CreateQueueStep == ASSUME DescriptorInv, CreateQueue PROVE DescriptorInv'
<1> DEFINE o == <<"main", "ring">>
<1>1. pc = "ring" /\ Acquire(<<o>>) /\ Goto("tun")
    BY DEF CreateQueue
<1>2. Label = "ring" /\ scope = <<>> /\ Live = {} /\ DOMAIN fds \subseteq 3..2
    BY <1>1, DescriptorsPositive, ScopeValues, RowsAre, MaxFdIs
<1>3. o \in Owners
    BY OwnersAre
<1> HIDE DEF o
<1>4. /\ scope' = <<>> \o <<o>> /\ holds' \in [Owners -> Int] /\ holds'[o] # NoFd
      /\ DOMAIN fds' \subseteq 3..(2 + 1) /\ Hold(Live', holds', fds')
    BY <1>1, <1>2, <1>3, DescriptorsPositive, AcquireOne
<1>5. scope' = ScopeAt("tun")
    BY <1>3, <1>4, ScopeValues DEF o
<1>6. Scoped' /\ Label' = "tun"
    BY <1>1, <1>5, GotoScoped DEF Labels
<1>7. Placed'
    BY <1>4, <1>6 DEF Placed, InSession, o
<1>8. DOMAIN fds' \subseteq 3..MaxFd(Label')
    BY <1>4, <1>6, MaxFdIs
<1> QED BY <1>4, <1>6, <1>7, <1>8 DEF DescriptorInv

\* The device with its netlink socket.
LEMMA CreateTunDeviceStep == ASSUME DescriptorInv, CreateTunDevice PROVE DescriptorInv'
<1> DEFINE new == FreeFds(2)
           t == <<"main", "tun">>
           n == <<"main", "nl">>
<1>1. /\ pc = "tun" /\ scope' = Of("main")
      /\ holds' = [holds EXCEPT ![t] = new[1], ![n] = new[2]]
      /\ fds' = [m \in DOMAIN fds \cup ToSet(new) |->
                    CASE m = new[1] -> "tun" [] m = new[2] -> "nl" [] OTHER -> fds[m]]
      /\ Goto(IF config.bind_address THEN "listener" ELSE "connect")
    BY DEF CreateTunDevice
<1>2. Label = "tun" /\ Live = {<<"main", "ring">>} /\ DOMAIN fds \subseteq 3..3
    BY <1>1, DescriptorsPositive, ScopeValues, LongerRows, MaxFdIs
<1>3. /\ DOMAIN new = 1..2 /\ new[1] \in 3..(3 + 2) \ DOMAIN fds
      /\ new[2] \in 3..(3 + 2) \ DOMAIN fds /\ new[1] # new[2]
    BY <1>2, TwoFreeFds
<1> HIDE DEF new
<1>4. ToSet(new) = {new[1], new[2]}
    BY <1>3 DEF ToSet
<1>5. t \in Owners /\ n \in Owners /\ t # n /\ Kind(t) = "tun" /\ Kind(n) = "nl"
    BY OwnersAre DEF Kind
<1>6. /\ holds[t] = NoFd /\ holds[n] = NoFd /\ holds[<<"main", "socket">>] = NoFd
      /\ holds[<<"main", "ring">>] # NoFd
    BY <1>2, <1>5, DescriptorsPositive, OwnersAre DEF Placed
<1> DEFINE N == {t, n}
<1>7. /\ holds'[t] = new[1] /\ holds'[n] = new[2]
      /\ \A o \in Owners \ N : holds'[o] = holds[o]
      /\ holds' \in [Owners -> Int]
    <2>1. holds \in [Owners -> Int]
        BY DescriptorsPositive
    <2> QED BY <1>1, <1>3, <1>5, <2>1
<1>8. DOMAIN fds' = DOMAIN fds \cup {new[1], new[2]}
    BY <1>1, <1>4
<1>9. \A m \in DOMAIN fds : fds'[m] = fds[m]
    BY <1>1, <1>3
<1>10. fds'[new[1]] = "tun" /\ fds'[new[2]] = "nl"
    BY <1>1, <1>3, <1>4
<1>11. Live' = ToSet(Of("main")) /\ Live \cup N \subseteq Live'
    BY <1>1, <1>2, OfIs DEF Live
<1>12. Hold(Live', holds', fds')
    <2>1. /\ N \in SUBSET Owners
          /\ \A o \in N : holds[o] = NoFd /\ holds'[o] \notin DOMAIN fds /\ fds'[holds'[o]] = Kind(o)
          /\ \A o, p \in N : holds'[o] = holds'[p] => o = p
        BY <1>3, <1>5, <1>6, <1>7, <1>10
    <2>2. DOMAIN fds' = DOMAIN fds \cup { holds'[o] : o \in N }
        BY <1>7, <1>8
    <2> HIDE DEF N
    <2> QED BY <1>7, <1>9, <1>11, <2>1, <2>2, DescriptorsPositive, HoldMore
<1>13. ASSUME NEW label \in {"listener", "connect"}, Goto(label) PROVE DescriptorInv'
    <2>1. label \in Labels /\ scope' = ScopeAt(label)
        BY <1>1, ScopeValues DEF Labels
    <2>2. Scoped' /\ Label' = label
        BY <1>13, <2>1, GotoScoped
    <2>3. \A o \in ToSet(Of("main")) : holds'[o] # NoFd <=> o # <<"main", "socket">>
        <3>1. /\ ToSet(Of("main")) = {<<"main", "ring">>, n, t, <<"main", "socket">>}
              /\ n # <<"main", "socket">> /\ t # <<"main", "socket">>
              /\ <<"main", "ring">> # <<"main", "socket">>
            BY OfIs
        <3>2. /\ <<"main", "ring">> \in Owners \ N /\ <<"main", "socket">> \in Owners \ N
            BY OwnersAre
        <3>3. holds'[t] # NoFd /\ holds'[n] # NoFd
            BY <1>3, <1>7 DEF NoFd
        <3>4. holds'[<<"main", "ring">>] # NoFd /\ holds'[<<"main", "socket">>] = NoFd
            BY <1>6, <1>7, <3>2
        <3> HIDE DEF t, n
        <3> QED BY <3>1, <3>3, <3>4
    <2>4. Placed'
        BY <2>2, <2>3 DEF Placed, InSession
    <2>5. DOMAIN fds' \subseteq 3..MaxFd(Label')
        BY <1>2, <1>3, <1>8, <2>2, MaxFdIs
    <2> QED BY <1>7, <1>12, <2>2, <2>4, <2>5 DEF DescriptorInv
<1> QED BY <1>1, <1>13

\* The listening socket.
LEMMA CreateListenerStep == ASSUME DescriptorInv, CreateListener PROVE DescriptorInv'
<1> DEFINE o == <<"main", "listener">>
<1>1. pc = "listener" /\ Acquire(<<o>>) /\ Goto("accept")
    BY DEF CreateListener
<1>2. /\ Label = "listener" /\ scope = Of("main") /\ Live = ToSet(Of("main"))
      /\ DOMAIN fds \subseteq 3..5
    BY <1>1, DescriptorsPositive, ScopeValues, MaxFdIs
<1>3. o \in Owners /\ o \notin Live
    BY <1>2, OwnersAre, OfIs
<1> HIDE DEF o
<1>4. /\ scope' = scope \o <<o>> /\ holds' \in [Owners -> Int]
      /\ \A p \in Owners \ {o} : holds'[p] = holds[p]
      /\ DOMAIN fds' \subseteq 3..(5 + 1) /\ Hold(Live', holds', fds')
    <2>1. Row(scope) /\ holds \in [Owners -> Int] /\ Hold(Live, holds, fds) /\ 5 \in 2..9
        BY DescriptorsPositive
    <2> QED BY <1>1, <1>2, <1>3, <2>1, AcquireOne
<1>5. scope' = ScopeAt("accept")
    BY <1>2, <1>4, ScopeValues DEF o, Listening
<1>6. Scoped' /\ Label' = "accept"
    BY <1>1, <1>5, GotoScoped DEF Labels
<1>7. \A p \in ToSet(Of("main")) : holds'[p] = holds[p]
    <2>1. \A p \in ToSet(Of("main")) : p \in Owners \ {o}
        BY OfIs, OwnersAre DEF o
    <2> QED BY <1>4, <2>1
<1>8. Placed'
    BY <1>2, <1>6, <1>7, DescriptorsPositive DEF Placed, InSession
<1>9. DOMAIN fds' \subseteq 3..MaxFd(Label')
    BY <1>4, <1>6, MaxFdIs
<1> QED BY <1>4, <1>6, <1>8, <1>9 DEF DescriptorInv

\* The connection, moved from the Result or the block into socket.
LEMMA TakePeerFacts ==
    ASSUME DescriptorInv, NEW b \in 2..9, DOMAIN fds \subseteq 3..b, NEW ACTION goto, TakePeer(goto),
           ToSet(Of("main")) \subseteq Live, <<"main", "peer">> \notin Live,
           \A o \in ToSet(Of("main")) : holds[o] # NoFd <=> o # <<"main", "socket">>
    PROVE  /\ goto /\ scope' = Append(scope, <<"main", "peer">>)
           /\ Live' = Live \cup {<<"main", "peer">>}
           /\ holds' \in [Owners -> Int] /\ DOMAIN fds' \subseteq 3..(b + 1)
           /\ Hold(Live', holds', fds')
           /\ \A o \in ToSet(Of("main")) : holds'[o] # NoFd
           /\ \A o \in Owners \ {<<"main", "socket">>} : holds'[o] = holds[o]
<1> DEFINE s == <<"main", "socket">>
           p == <<"main", "peer">>
<1>1. FreeFd \in 3..(b + 1) /\ FreeFd \notin DOMAIN fds
    BY FreeFdIsFree
<1>2. /\ fds' = [n \in DOMAIN fds \cup {FreeFd} |-> IF n = FreeFd THEN "connection" ELSE fds[n]]
      /\ holds' = [holds EXCEPT ![s] = FreeFd, ![p] = NoFd]
      /\ scope' = Append(scope, p) /\ goto
    BY DEF TakePeer, MovedFrom
<1>3. s \in Owners /\ p \in Owners /\ s # p /\ Kind(s) = "connection" /\ s \in ToSet(Of("main"))
    BY OwnersAre, OfIs DEF Kind
<1>4. holds[p] = NoFd /\ holds[s] = NoFd
    BY <1>3, DescriptorsPositive
<1>5. holds'[s] = FreeFd /\ \A o \in Owners \ {s} : holds'[o] = holds[o]
    BY <1>2, <1>3, <1>4, DescriptorsPositive
<1>6. holds' \in [Owners -> Int]
    <2>1. \A o \in Owners : holds'[o] \in Int
        BY <1>1, <1>5, DescriptorsPositive
    <2>2. holds' = [o \in Owners |-> holds'[o]]
        BY <1>2, DescriptorsPositive
    <2> QED BY <2>1, <2>2
<1>7. Live' = Live \cup {p}
    BY <1>2, <1>3, RowAppend, DescriptorsPositive DEF Live
<1>8. /\ DOMAIN fds' = DOMAIN fds \cup {FreeFd} /\ fds'[FreeFd] = "connection"
      /\ \A n \in DOMAIN fds : fds'[n] = fds[n]
    BY <1>1, <1>2
<1>9. Hold(Live', holds', fds')
    <2> DEFINE N == {s}
    <2>1. /\ N \in SUBSET Owners /\ Live \cup N \subseteq Live'
          /\ \A o \in N : holds[o] = NoFd /\ holds'[o] \notin DOMAIN fds /\ fds'[holds'[o]] = Kind(o)
          /\ \A o \in Owners \ N : holds'[o] = holds[o]
          /\ \A o, q \in N : holds'[o] = holds'[q] => o = q
        BY <1>1, <1>3, <1>4, <1>5, <1>7, <1>8
    <2>2. DOMAIN fds' = DOMAIN fds \cup { holds'[o] : o \in N }
        BY <1>5, <1>8
    <2> HIDE DEF N
    <2> QED BY <1>8, <2>1, <2>2, DescriptorsPositive, HoldMore
<1>10. ASSUME NEW o \in ToSet(Of("main")) PROVE holds'[o] # NoFd
    <2>1. CASE o = s
        BY <1>1, <1>5, <2>1 DEF NoFd
    <2>2. CASE o # s
        <3>1. o \in Owners
            BY OfIs, OwnersAre
        <3> QED BY <1>5, <2>2, <3>1
    <2> QED BY <2>1, <2>2
<1>11. DOMAIN fds' \subseteq 3..(b + 1)
    BY <1>1, <1>8
<1> QED BY <1>2, <1>5, <1>6, <1>7, <1>9, <1>10, <1>11

\* A connection from outside.
LEMMA AcceptFromStep == ASSUME DescriptorInv, AcceptFrom PROVE DescriptorInv'
<1>1. pc = "accept" /\ TakePeer(Goto("remote"))
    BY DEF AcceptFrom
<1>2. Label = "accept" /\ scope = Listening /\ Live = ToSet(Listening) /\ DOMAIN fds \subseteq 3..6
    BY <1>1, DescriptorsPositive, ScopeValues, MaxFdIs
<1>3. /\ ToSet(Of("main")) \subseteq Live /\ <<"main", "peer">> \notin Live
      /\ \A o \in ToSet(Of("main")) : holds[o] # NoFd <=> o # <<"main", "socket">>
    BY <1>2, RowsAre, OfIs, DescriptorsPositive DEF Placed
<1>4. /\ Goto("remote") /\ scope' = Append(scope, <<"main", "peer">>)
      /\ holds' \in [Owners -> Int] /\ DOMAIN fds' \subseteq 3..(6 + 1)
      /\ Hold(Live', holds', fds') /\ \A o \in ToSet(Of("main")) : holds'[o] # NoFd
    <2>1. 6 \in 2..9
        OBVIOUS
    <2> QED BY <1>1, <1>2, <1>3, <2>1, TakePeerFacts
<1>5. scope' = ScopeAt("remote")
    BY <1>2, <1>4, ScopeValues
<1>6. Scoped' /\ Label' = "remote"
    BY <1>4, <1>5, GotoScoped DEF Labels
<1>7. Placed'
    BY <1>4, <1>6 DEF Placed, InSession, Full
<1>8. DOMAIN fds' \subseteq 3..MaxFd(Label')
    BY <1>4, <1>6, MaxFdIs
<1> QED BY <1>4, <1>6, <1>7, <1>8 DEF DescriptorInv

\* A connection to the outside.
LEMMA ConnectToStep == ASSUME DescriptorInv, ConnectTo PROVE DescriptorInv'
<1>1. pc = "connect" /\ TakePeer(Leave(4, "set_up"))
    BY DEF ConnectTo
<1>2. /\ Label = "connect" /\ scope = Of("main") /\ Live = ToSet(Of("main"))
      /\ DOMAIN fds \subseteq 3..5
    BY <1>1, DescriptorsPositive, ScopeValues, MaxFdIs
<1>3. /\ ToSet(Of("main")) \subseteq Live /\ <<"main", "peer">> \notin Live
      /\ \A o \in ToSet(Of("main")) : holds[o] # NoFd <=> o # <<"main", "socket">>
    BY <1>2, OfIs, DescriptorsPositive DEF Placed
<1>4. /\ Leave(4, "set_up") /\ scope' = Append(scope, <<"main", "peer">>)
      /\ holds' \in [Owners -> Int] /\ DOMAIN fds' \subseteq 3..(5 + 1)
      /\ Hold(Live', holds', fds') /\ \A o \in ToSet(Of("main")) : holds'[o] # NoFd
    <2>1. 5 \in 2..9
        OBVIOUS
    <2> QED BY <1>1, <1>2, <1>3, <2>1, TakePeerFacts
<1>5. Row(scope') /\ Begins(scope', ScopeAt("set_up")) /\ Leave(Len(ScopeAt("set_up")), "set_up")
    BY <1>2, <1>4, ScopeValues, LongerRows
<1>6. Scoped' /\ Label' = "set_up"
    BY <1>5, LeaveScoped
<1>7. Placed'
    BY <1>4, <1>6 DEF Placed, InSession, Full
<1>8. DOMAIN fds' \subseteq 3..MaxFd(Label')
    BY <1>4, <1>6, MaxFdIs
<1> QED BY <1>4, <1>6, <1>7, <1>8 DEF DescriptorInv

\* The end of the block of the listener.
LEMMA RemoteAddressStep == ASSUME DescriptorInv, RemoteAddress PROVE DescriptorInv'
<1>1. pc = "remote" /\ Leave(4, "set_up") /\ UNCHANGED <<scope, holds, fds>>
    BY DEF RemoteAddress
<1>2. Label = "remote" /\ scope' = Append(Listening, <<"main", "peer">>)
    BY <1>1, DescriptorsPositive, ScopeValues
<1>3. Row(scope') /\ Begins(scope', ScopeAt("set_up")) /\ Leave(Len(ScopeAt("set_up")), "set_up")
    BY <1>1, <1>2, ScopeValues, LongerRows
<1>4. Scoped' /\ Label' = "set_up"
    BY <1>3, LeaveScoped
<1>5. Placed'
    BY <1>1, <1>2, <1>4, DescriptorsPositive DEF Placed, InSession, Full
<1>6. MaxFd(Label') \in Int /\ MaxFd(Label) <= MaxFd(Label')
    BY <1>2, <1>4, MaxFdIs
<1> QED BY <1>1, <1>4, <1>5, <1>6, QuietStep

\* The interface comes up.
LEMMA SetUpStep == ASSUME DescriptorInv, SetUp PROVE DescriptorInv'
<1>1. pc = "set_up" /\ Goto("create_session") /\ UNCHANGED <<scope, holds, fds>>
    BY DEF SetUp
<1>2. Label = "set_up" /\ scope' = ScopeAt("create_session")
    BY <1>1, DescriptorsPositive, ScopeValues
<1>3. Scoped' /\ Label' = "create_session"
    BY <1>1, <1>2, GotoScoped DEF Labels
<1>4. Placed'
    BY <1>1, <1>2, <1>3, DescriptorsPositive DEF Placed, InSession, Full
<1>5. MaxFd(Label') \in Int /\ MaxFd(Label) <= MaxFd(Label')
    BY <1>2, <1>3, MaxFdIs
<1> QED BY <1>1, <1>3, <1>4, <1>5, QuietStep

\* The members move from one place to another.
LEMMA MoveFacts ==
    ASSUME DescriptorInv, UNCHANGED fds,
           NEW from \in {"main", "local", "session"}, NEW to \in {"main", "local", "session"},
           from # to, MoveMembers(from, to), Full(from), Empty(to),
           Live \subseteq Live', ToSet(Of(to)) \subseteq Live'
    PROVE  /\ holds' \in [Owners -> Int] /\ Hold(Live', holds', fds')
           /\ \A o \in ToSet(Of(to)) : holds'[o] # NoFd /\ holds'[o] = holds[<<from, o[2]>>]
           /\ \A o \in ToSet(Of(from)) : holds'[o] = NoFd
           /\ \A o \in Owners \ (ToSet(Of(from)) \cup ToSet(Of(to))) : holds'[o] = holds[o]
<1> DEFINE F == ToSet(Of(from))
           T == ToSet(Of(to))
           src == [o \in Owners |-> IF o \in T THEN <<from, o[2]>> ELSE o]
<1>1. holds' = [o \in Owners |-> CASE o \in T -> holds[<<from, o[2]>>]
                                   [] o \in F -> NoFd
                                   [] OTHER -> holds[o]]
    BY DEF MoveMembers, MovedFrom
<1>2. /\ F = { <<from, "ring">>, <<from, "nl">>, <<from, "tun">>, <<from, "socket">> }
      /\ T = { <<to, "ring">>, <<to, "nl">>, <<to, "tun">>, <<to, "socket">> }
    BY OfIs
<1>3. F \subseteq Owners /\ T \subseteq Owners
    BY <1>2, OwnersAre
<1>4. ASSUME NEW o \in T PROVE <<from, o[2]>> \in F /\ Kind(<<from, o[2]>>) = Kind(o) /\ o \notin F
    BY <1>2 DEF Kind
<1>5. \A o, p \in T : <<from, o[2]>> = <<from, p[2]>> => o = p
    BY <1>2
<1>6. \A o \in F : \E p \in T : <<from, p[2]>> = o
    BY <1>2
<1>7. /\ \A o \in F : holds[o] # NoFd
      /\ \A o \in T : holds[o] = NoFd
    BY DEF Full, Empty
<1> HIDE DEF F, T
<1>8. /\ \A o \in T : holds'[o] = holds[<<from, o[2]>>] /\ holds'[o] # NoFd
      /\ \A o \in F : holds'[o] = NoFd
      /\ \A o \in Owners \ (F \cup T) : holds'[o] = holds[o]
    BY <1>1, <1>3, <1>4, <1>7
<1>9. holds' \in [Owners -> Int]
    <2>1. \A o \in Owners : holds'[o] \in Int
        <3>1. NoFd \in Int /\ holds \in [Owners -> Int]
            BY DescriptorsPositive DEF NoFd
        <3> QED BY <1>3, <1>4, <1>8, <3>1
    <2>2. holds' = [o \in Owners |-> holds'[o]]
        BY <1>1
    <2> QED BY <2>1, <2>2
<1>10. /\ \A o \in T : src[o] = <<from, o[2]>> /\ src[o] \in F
       /\ \A o \in Owners \ T : src[o] = o
    BY <1>3, <1>4
<1> HIDE DEF src
<1>11. ASSUME NEW o \in Owners, holds'[o] # NoFd
       PROVE  /\ o \in Live'
              /\ src[o] \in Owners /\ Kind(src[o]) = Kind(o) /\ holds'[o] = holds[src[o]]
    <2>1. CASE o \in T
        BY <1>3, <1>4, <1>8, <1>10, <2>1 DEF T
    <2>2. CASE o \notin T
        <3>1. o \notin F /\ holds'[o] = holds[o] /\ src[o] = o
            BY <1>8, <1>10, <1>11, <2>2
        <3>2. o \in Live
            BY <1>11, <3>1, DescriptorsPositive
        <3> QED BY <3>1, <3>2
    <2> QED BY <2>1, <2>2
<1>12. ASSUME NEW o \in Owners, NEW p \in Owners, holds'[o] # NoFd, src[o] = src[p], holds'[p] # NoFd
       PROVE  o = p
    <2>1. o \notin F /\ p \notin F
        BY <1>8, <1>12
    <2>2. CASE o \in T /\ p \in T
        BY <1>5, <1>10, <1>12, <2>2
    <2>3. CASE o \in T /\ p \notin T
        BY <1>10, <1>12, <2>1, <2>3
    <2>4. CASE o \notin T /\ p \in T
        BY <1>10, <1>12, <2>1, <2>4
    <2>5. CASE o \notin T /\ p \notin T
        BY <1>10, <1>12, <2>5
    <2> QED BY <2>2, <2>3, <2>4, <2>5
<1>13. ASSUME NEW o \in Owners, holds[o] # NoFd PROVE \E p \in Owners : holds'[p] = holds[o]
    <2>1. CASE o \in F
        BY <1>3, <1>6, <1>8, <2>1
    <2>2. CASE o \notin F
        BY <1>7, <1>8, <1>13, <2>2
    <2> QED BY <2>1, <2>2
<1>14. Hold(Live', holds', fds)
    BY <1>11, <1>12, <1>13, DescriptorsPositive, HoldMoved
<1> QED BY <1>8, <1>9, <1>14 DEF F, T

\* The owners at one place are not those at another.
LEMMA PlacesApart ==
    /\ ToSet(Of("main")) \cap ToSet(Of("local")) = {}
    /\ ToSet(Of("main")) \cap ToSet(Of("session")) = {}
    /\ ToSet(Of("local")) \cap ToSet(Of("session")) = {}
    /\ \A place \in {"main", "local", "session"} : ToSet(Of(place)) \subseteq Owners
    BY OfIs, OwnersAre

\* The local session takes the members.
LEMMA CreateSessionStep == ASSUME DescriptorInv, CreateSession PROVE DescriptorInv'
<1>1. /\ pc = "create_session" /\ MoveMembers("main", "local") /\ scope' = scope \o Of("local")
      /\ Goto("create_receiver") /\ UNCHANGED fds
    BY DEF CreateSession
<1>2. /\ Label = "create_session" /\ scope = Of("main") /\ Live = ToSet(Of("main"))
      /\ DOMAIN fds \subseteq 3..7
    BY <1>1, DescriptorsPositive, ScopeValues, MaxFdIs
<1>3. scope' = InLocal /\ Live' = ToSet(Of("main")) \cup ToSet(Of("local"))
    BY <1>1, <1>2, RowsAre DEF InLocal, Live
<1>4. Full("main") /\ Empty("local")
    BY <1>2, DescriptorsPositive, PlacesApart DEF Placed, Empty
<1>5. /\ holds' \in [Owners -> Int] /\ Hold(Live', holds', fds')
      /\ \A o \in ToSet(Of("local")) : holds'[o] # NoFd
      /\ \A o \in ToSet(Of("main")) : holds'[o] = NoFd
    BY <1>1, <1>2, <1>3, <1>4, MoveFacts
<1>6. Scoped' /\ Label' = "create_receiver"
    BY <1>1, <1>3, ScopeValues, GotoScoped DEF Labels
<1>7. Placed'
    BY <1>5, <1>6 DEF Placed, InSession, Full, Empty
<1>8. DOMAIN fds' \subseteq 3..MaxFd(Label')
    BY <1>1, <1>2, <1>6, MaxFdIs
<1> QED BY <1>5, <1>6, <1>7, <1>8 DEF DescriptorInv

\* The session of the Result takes them from the local one, which is destroyed
\* next.
LEMMA ReturnSessionStep == ASSUME DescriptorInv, ReturnSession PROVE DescriptorInv'
<1>1. /\ pc = "return" /\ MoveMembers("local", "session")
      /\ scope' = Of("main") \o Of("session") \o Of("local")
      /\ Leave(8, "run") /\ UNCHANGED fds
    BY DEF ReturnSession
<1>2. /\ Label = "return" /\ Live = ToSet(Of("main")) \cup ToSet(Of("local"))
      /\ DOMAIN fds \subseteq 3..7
    BY <1>1, DescriptorsPositive, ScopeValues, RowsAre, MaxFdIs
<1>3. /\ scope' = InRun \o Of("local")
      /\ Live' = ToSet(Of("main")) \cup ToSet(Of("session")) \cup ToSet(Of("local"))
    BY <1>1, RowsAre, LongerRows DEF InRun, Live
<1>4. Full("local") /\ Empty("session") /\ Empty("main")
    BY <1>2, DescriptorsPositive, PlacesApart DEF Placed, Empty
<1>5. /\ holds' \in [Owners -> Int] /\ Hold(Live', holds', fds')
      /\ \A o \in ToSet(Of("session")) : holds'[o] # NoFd
      /\ \A o \in ToSet(Of("local")) : holds'[o] = NoFd
      /\ \A o \in Owners \ (ToSet(Of("local")) \cup ToSet(Of("session"))) : holds'[o] = holds[o]
    BY <1>1, <1>2, <1>3, <1>4, MoveFacts
<1>6. \A o \in ToSet(Of("main")) : holds'[o] = NoFd
    BY <1>4, <1>5, PlacesApart DEF Empty
<1>7. Row(scope') /\ Begins(scope', ScopeAt("run")) /\ Leave(Len(ScopeAt("run")), "run")
    BY <1>1, <1>3, ScopeValues, LongerRows
<1>8. Scoped' /\ Label' = "run"
    BY <1>7, LeaveScoped
<1>9. Placed'
    BY <1>5, <1>6, <1>8 DEF Placed, InSession, Full, Empty
<1>10. DOMAIN fds' \subseteq 3..MaxFd(Label')
    BY <1>1, <1>2, <1>8, MaxFdIs
<1> QED BY <1>5, <1>8, <1>9, <1>10 DEF DescriptorInv

\* What the steps inside a session, or on the way to one, keep.
LEMMA PlacedAgain ==
    ASSUME Placed, UNCHANGED holds, Label' = Label \/ {Label, Label'} \subseteq InSession
              \/ {Label, Label'} \subseteq {"create_receiver", "create_transmitter", "return"}
    PROVE  Placed'
<1>1. CASE Label' = Label
    BY <1>1 DEF Placed, Full, Empty
<1>2. CASE {Label, Label'} \subseteq InSession
    BY <1>2 DEF Placed, Full, Empty, InSession
<1>3. CASE {Label, Label'} \subseteq {"create_receiver", "create_transmitter", "return"}
    BY <1>3 DEF Placed, Full, Empty, InSession
<1> QED BY <1>1, <1>2, <1>3

\* The halves of the session with their groups, the group of the probe and the
\* start of the loop: nothing is constructed that holds a descriptor.
LEMMA InPlaceStep ==
    ASSUME DescriptorInv, NEW label \in Labels, NEW next \in Labels, pc = label, Goto(next),
           UNCHANGED <<scope, holds, fds>>,
           <<label, next>> \in { <<"create_receiver", "create_transmitter">>,
                                 <<"create_transmitter", "return">>,
                                 <<"probe_group", "probe_recv">>, <<"arm_read", "running">> }
    PROVE  DescriptorInv'
<1>1. Label = label /\ scope' = ScopeAt(next)
    BY DescriptorsPositive, ScopeValues DEF Labels, InSession
<1>2. Scoped' /\ Label' = next
    BY <1>1, GotoScoped
<1>3. Placed'
    BY <1>1, <1>2, DescriptorsPositive, PlacedAgain DEF InSession
<1>4. MaxFd(Label') \in Int /\ MaxFd(Label) <= MaxFd(Label')
    BY <1>1, <1>2, MaxFdIs
<1> QED BY <1>2, <1>3, <1>4, QuietStep

\* The ring of the probe.
LEMMA ProbeRingStep == ASSUME DescriptorInv, ProbeRing PROVE DescriptorInv'
<1> DEFINE o == <<"probe", "ring">>
<1>1. pc = "run" /\ Acquire(<<o>>) /\ Goto("probe_pair")
    BY DEF ProbeRing
<1>2. Label = "run" /\ scope = InRun /\ Live = ToSet(InRun) /\ DOMAIN fds \subseteq 3..7
    BY <1>1, DescriptorsPositive, ScopeValues, MaxFdIs
<1>3. o \in Owners /\ o \notin Live
    BY <1>2, OwnersAre, OfIs, RowsAre
<1>4. \A place \in {"main", "local", "session"} : ToSet(Of(place)) \subseteq Owners \ {o}
    BY OfIs, OwnersAre
<1> HIDE DEF o
<1>5. /\ scope' = scope \o <<o>> /\ holds' \in [Owners -> Int]
      /\ \A p \in Owners \ {o} : holds'[p] = holds[p]
      /\ DOMAIN fds' \subseteq 3..(7 + 1) /\ Hold(Live', holds', fds')
    <2>1. Row(scope) /\ holds \in [Owners -> Int] /\ Hold(Live, holds, fds) /\ 7 \in 2..9
        BY DescriptorsPositive
    <2> QED BY <1>1, <1>2, <1>3, <2>1, AcquireOne
<1>6. scope' = ScopeAt("probe_pair")
    BY <1>2, <1>5, ScopeValues DEF o, Probing
<1>7. Scoped' /\ Label' = "probe_pair"
    BY <1>1, <1>6, GotoScoped DEF Labels, InSession
<1>8. \A place \in {"main", "local", "session"} : \A p \in ToSet(Of(place)) : holds'[p] = holds[p]
    BY <1>4, <1>5
<1>9. Placed'
    BY <1>2, <1>7, <1>8, DescriptorsPositive DEF Placed, InSession, Full, Empty
<1>10. DOMAIN fds' \subseteq 3..MaxFd(Label')
    BY <1>5, <1>7, MaxFdIs
<1> QED BY <1>5, <1>7, <1>9, <1>10 DEF DescriptorInv

\* Its socket pair.
LEMMA ProbePairStep == ASSUME DescriptorInv, ProbePair PROVE DescriptorInv'
<1> DEFINE o == <<"probe", "send">>
           p == <<"probe", "recv">>
<1>1. pc = "probe_pair" /\ Acquire(<<o, p>>) /\ Goto("probe_group")
    BY DEF ProbePair
<1>2. Label = "probe_pair" /\ scope = Probing /\ Live = ToSet(Probing) /\ DOMAIN fds \subseteq 3..8
    BY <1>1, DescriptorsPositive, ScopeValues, MaxFdIs
<1>3. o \in Owners /\ p \in Owners /\ o # p /\ o \notin Live /\ p \notin Live
    BY <1>2, OwnersAre, OfIs, RowsAre
<1>4. \A place \in {"main", "local", "session"} : ToSet(Of(place)) \subseteq Owners \ {o, p}
    BY OfIs, OwnersAre
<1>5. Row(<<o, p>>)
    BY <1>3 DEF Row
<1>6. scope \o <<o, p>> = ScopeAt("probe_group")
    BY <1>2, ScopeValues
<1> HIDE DEF o, p
<1>7. /\ scope' = scope \o <<o, p>> /\ holds' \in [Owners -> Int]
      /\ \A q \in Owners \ {o, p} : holds'[q] = holds[q]
      /\ DOMAIN fds' \subseteq 3..(8 + 2) /\ Hold(Live', holds', fds')
    <2>1. Row(scope) /\ holds \in [Owners -> Int] /\ Hold(Live, holds, fds) /\ 8 \in 2..8
        BY DescriptorsPositive
    <2>2. DOMAIN fds \subseteq 3..8 /\ o \notin Live /\ p \notin Live /\ Acquire(<<o, p>>)
        BY <1>1, <1>2, <1>3
    <2>3. o \in Owners /\ p \in Owners /\ o # p /\ Row(<<o, p>>)
        BY <1>3, <1>5
    <2>4. Hold(Live', holds', fds') /\ holds' \in [Owners -> Int]
        BY <2>1, <2>2, <2>3, AcquireTwo
    <2>5. scope' = scope \o <<o, p>>
        BY <2>2 DEF Acquire
    <2>6. ASSUME NEW q \in Owners \ {o, p} PROVE holds'[q] = holds[q]
        <3>1. q \notin ToSet(<<o, p>>)
            BY DEF ToSet
        <3> QED BY <2>2, <3>1 DEF Acquire
    <2>7. DOMAIN fds' \subseteq 3..(8 + 2)
        BY <2>1, <2>2, <2>3, AcquireTwo
    <2> QED BY <2>4, <2>5, <2>6, <2>7
<1>8. Scoped' /\ Label' = "probe_group"
    BY <1>1, <1>6, <1>7, GotoScoped DEF Labels, InSession
<1>9. \A place \in {"main", "local", "session"} : \A q \in ToSet(Of(place)) : holds'[q] = holds[q]
    BY <1>4, <1>7
<1>10. Placed'
    BY <1>2, <1>8, <1>9, DescriptorsPositive DEF Placed, InSession, Full, Empty
<1>11. DOMAIN fds' \subseteq 3..MaxFd(Label')
    BY <1>7, <1>8, MaxFdIs
<1> QED BY <1>7, <1>8, <1>10, <1>11 DEF DescriptorInv

\* The end of the probe.
LEMMA ProbeAnswerStep == ASSUME DescriptorInv, ProbeAnswer PROVE DescriptorInv'
<1>1. pc = "probe_recv" /\ Leave(8, "arm_read") /\ UNCHANGED <<scope, holds, fds>>
    BY DEF ProbeAnswer
<1>2. Label = "probe_recv" /\ scope' = Probing \o <<<<"probe", "send">>, <<"probe", "recv">>>>
    BY <1>1, DescriptorsPositive, ScopeValues
<1>3. /\ Row(scope') /\ Begins(scope', ScopeAt("arm_read"))
      /\ Leave(Len(ScopeAt("arm_read")), "arm_read")
    BY <1>1, <1>2, ScopeValues, LongerRows
<1>4. Scoped' /\ Label' = "arm_read"
    BY <1>3, LeaveScoped
<1>5. Placed'
    BY <1>1, <1>2, <1>4, DescriptorsPositive, PlacedAgain DEF InSession
<1>6. MaxFd(Label') \in Int /\ MaxFd(Label) <= MaxFd(Label')
    BY <1>2, <1>4, MaxFdIs
<1> QED BY <1>1, <1>4, <1>5, <1>6, QuietStep

\* The destruction of an object.
LEMMA DestroyStep == ASSUME DescriptorInv, Destroy PROVE DescriptorInv'
<1>1. /\ Scoped' /\ Label' = Label /\ Top \in Owners /\ Live' = Live \ {Top}
      /\ Top \notin ToSet(ScopeAt(Label)) /\ ToSet(ScopeAt(Label)) \subseteq Live
    BY DestroyScoped DEF DescriptorInv, Destroy
<1>2. /\ holds' = [holds EXCEPT ![Top] = NoFd]
      /\ fds' = [n \in DOMAIN fds \ {holds[Top]} |-> fds[n]]
      /\ pc = "unwind" /\ Label \in {"exit", "set_up", "run", "arm_read"}
    BY DEF Destroy, DescriptorInv, Scoped, Label
<1> DEFINE top == Top
<1>3. top = Top
    OBVIOUS
<1> HIDE DEF top
<1>4. Hold(Live', holds', fds')
    <2>1. holds \in [Owners -> Int] /\ Hold(Live, holds, fds) /\ top \in Owners
        BY <1>1, <1>3, DescriptorsPositive
    <2>2. Hold(Live \ {top}, [holds EXCEPT ![top] = NoFd], [n \in DOMAIN fds \ {holds[top]} |-> fds[n]])
        BY <2>1, HoldLess
    <2> QED BY <1>1, <1>2, <1>3, <2>2
<1>5. \A o \in Owners : holds'[o] = IF o = top THEN NoFd ELSE holds[o]
    BY <1>1, <1>2, <1>3, DescriptorsPositive
<1>6. holds' \in [Owners -> Int]
    <2>1. \A o \in Owners : holds'[o] \in Int
        BY <1>5, DescriptorsPositive DEF NoFd
    <2>2. holds' = [o \in Owners |-> holds'[o]]
        BY <1>2, DescriptorsPositive
    <2> QED BY <2>1, <2>2
<1>7. DOMAIN fds' \subseteq 3..MaxFd(Label')
    BY <1>1, <1>2, DescriptorsPositive
<1>8. Placed'
    <2>1. CASE Label = "exit"
        BY <1>1, <2>1 DEF Placed, InSession
    <2>2. CASE Label = "set_up"
        <3>1. ToSet(Of("main")) \subseteq Owners \ {top}
            BY <1>1, <1>3, <2>2, ScopeValues, PlacesApart
        <3>2. Full("main")
            BY <2>2, DescriptorsPositive DEF Placed
        <3>3. Full("main")'
            BY <1>5, <3>1, <3>2 DEF Full
        <3> QED BY <1>1, <2>2, <3>3 DEF Placed, InSession
    <2>3. CASE Label \in {"run", "arm_read"}
        <3>1. ToSet(Of("session")) \subseteq Owners \ {top}
            BY <1>1, <1>3, <2>3, ScopeValues, RowsAre, PlacesApart
        <3>2. Full("session") /\ Empty("main") /\ Empty("local")
            BY <2>3, DescriptorsPositive DEF Placed, InSession
        <3>3. Full("session")'
            BY <1>5, <3>1, <3>2 DEF Full
        <3>4. Empty("main")' /\ Empty("local")'
            BY <1>5, <3>2, PlacesApart DEF Empty
        <3> QED BY <1>1, <2>3, <3>3, <3>4 DEF Placed, InSession
    <2> QED BY <1>2, <2>1, <2>2, <2>3
<1> QED BY <1>1, <1>4, <1>6, <1>7, <1>8 DEF DescriptorInv

\* The end of an unwinding.
LEMMA UnwoundStep == ASSUME DescriptorInv, Unwound PROVE DescriptorInv'
<1> DEFINE label == unwind.next
           u == ScopeAt(label)
<1>1. /\ pc = "unwind" /\ Goto(label) /\ UNCHANGED <<scope, holds, fds>>
      /\ Len(scope) = Len(u) /\ Begins(scope, u) /\ Label = label
    BY DEF Unwound, DescriptorInv, Scoped, Label
<1>2. label \in Labels /\ Row(u) /\ Row(scope)
    <2>1. label \in Labels
        BY <1>1, DescriptorsPositive
    <2> QED BY <2>1, ScopeRow, DescriptorsPositive
<1> HIDE DEF u, label
<1>3. scope = u
    <2>1. \A i \in 1..Len(u) : scope[i] = u[i]
        BY <1>1 DEF Begins
    <2>2. scope \in Seq(Owners) /\ u \in Seq(Owners)
        BY <1>2 DEF Row
    <2> QED BY <1>1, <2>1, <2>2
<1>4. Scoped' /\ Label' = label
    BY <1>1, <1>2, <1>3, GotoScoped DEF u
<1>5. Placed'
    BY <1>1, <1>4, DescriptorsPositive, PlacedAgain
<1>6. MaxFd(Label') \in Int /\ MaxFd(Label) <= MaxFd(Label')
    BY <1>1, <1>2, <1>4, MaxFdIs
<1> QED BY <1>1, <1>4, <1>5, <1>6, QuietStep

\* The kernel takes everything that a crashed process had.
LEMMA CrashStep == ASSUME DescriptorInv, Crash PROVE DescriptorInv'
<1>1. /\ Goto("crashed") /\ scope' = <<>> /\ holds' = [o \in Owners |-> NoFd] /\ fds' = <<>>
    BY DEF Crash
<1>2. Scoped' /\ Label' = "crashed"
    BY <1>1, ScopeValues, GotoScoped DEF Labels
<1>3. holds' \in [Owners -> Int] /\ \A o \in Owners : holds'[o] = NoFd
    BY <1>1 DEF NoFd
<1>4. DOMAIN fds' = {}
    BY <1>1
<1>5. Hold(Live', holds', fds')
    BY <1>3, <1>4 DEF Hold
<1>6. Placed'
    BY <1>2 DEF Placed, InSession
<1> QED BY <1>2, <1>3, <1>4, <1>5, <1>6 DEF DescriptorInv

\* A step that leaves main's statement and everything with a descriptor alone.
LEMMA StutterStep ==
    ASSUME DescriptorInv, UNCHANGED <<pc, unwind, scope, holds, fds>>
    PROVE  DescriptorInv'
<1>1. Label' = Label
    BY DEF Label
<1>2. Scoped'
    BY <1>1 DEF DescriptorInv, Scoped
<1>3. Placed'
    BY <1>1, DescriptorsPositive, PlacedAgain
<1>4. MaxFd(Label') \in Int /\ MaxFd(Label) <= MaxFd(Label')
    BY <1>1, DescriptorsPositive
<1> QED BY <1>2, <1>3, <1>4, QuietStep

\* Every step of main keeps the invariant of its descriptors.
LEMMA DescriptorStep == ASSUME DescriptorInv, [Next]_vars PROVE DescriptorInv'
<1>1. CASE Cli
    BY <1>1, CliStep
<1>2. CASE CreateQueue
    BY <1>2, CreateQueueStep
<1>3. CASE CreateTunDevice
    BY <1>3, CreateTunDeviceStep
<1>4. CASE CreateListener
    BY <1>4, CreateListenerStep
<1>5. CASE AcceptFrom
    BY <1>5, AcceptFromStep
<1>6. CASE RemoteAddress
    BY <1>6, RemoteAddressStep
<1>7. CASE ConnectTo
    BY <1>7, ConnectToStep
<1>8. CASE SetUp
    BY <1>8, SetUpStep
<1>9. CASE CreateSession
    BY <1>9, CreateSessionStep
<1>10. CASE CreateReceiver
    <2>1. pc = "create_receiver" /\ Goto("create_transmitter") /\ UNCHANGED <<scope, holds, fds>>
        BY <1>10 DEF CreateReceiver, Create
    <2> QED BY <2>1, InPlaceStep DEF Labels
<1>11. CASE CreateTransmitter
    <2>1. pc = "create_transmitter" /\ Goto("return") /\ UNCHANGED <<scope, holds, fds>>
        BY <1>11 DEF CreateTransmitter, Create
    <2> QED BY <2>1, InPlaceStep DEF Labels
<1>12. CASE ReturnSession
    BY <1>12, ReturnSessionStep
<1>13. CASE ProbeRing
    BY <1>13, ProbeRingStep
<1>14. CASE ProbePair
    BY <1>14, ProbePairStep
<1>15. CASE ProbeGroup
    <2>1. pc = "probe_group" /\ Goto("probe_recv") /\ UNCHANGED <<scope, holds, fds>>
        BY <1>15 DEF ProbeGroup
    <2> QED BY <2>1, InPlaceStep DEF Labels, InSession
<1>16. CASE ProbeAnswer
    BY <1>16, ProbeAnswerStep
<1>17. CASE RunStart
    <2>1. pc = "arm_read" /\ Goto("running") /\ UNCHANGED <<scope, holds, fds>>
        BY <1>17 DEF RunStart
    <2> QED BY <2>1, InPlaceStep DEF Labels, InSession
<1>18. CASE Fails
    BY <1>18, FailureStep DEF Fails
<1>19. CASE GroupNoMemory
    BY <1>19, FailureStep DEF GroupNoMemory, GroupFails
<1>20. CASE FreeGroup
    BY <1>20, StutterStep DEF FreeGroup
<1>21. CASE Destroy
    BY <1>21, DestroyStep
<1>22. CASE Unwound
    BY <1>22, UnwoundStep
<1>23. CASE Crash
    BY <1>23, CrashStep
<1>24. CASE UNCHANGED vars
    BY <1>24, StutterStep DEF vars, own_vars
<1> QED BY <1>1, <1>2, <1>3, <1>4, <1>5, <1>6, <1>7, <1>8, <1>9, <1>10, <1>11, <1>12, <1>13, <1>14,
           <1>15, <1>16, <1>17, <1>18, <1>19, <1>20, <1>21, <1>22, <1>23, <1>24 DEF Next

\* Nothing is open when main begins.
LEMMA DescriptorInit == ASSUME Init PROVE DescriptorInv
<1>1. /\ pc = "cli" /\ scope = <<>> /\ holds = [o \in Owners |-> NoFd] /\ DOMAIN fds = {}
    BY DEF Init
<1>2. Label = "cli" /\ "cli" \in Labels
    BY <1>1 DEF Label, Labels
<1>3. Scoped
    BY <1>1, <1>2, RowsAre, ScopeValues DEF Scoped
<1>4. holds \in [Owners -> Int] /\ \A o \in Owners : holds[o] = NoFd
    BY <1>1 DEF NoFd
<1>5. Hold(Live, holds, fds)
    BY <1>1, <1>4 DEF Hold
<1>6. Placed
    BY <1>2 DEF Placed, InSession
<1> QED BY <1>1, <1>3, <1>4, <1>5, <1>6 DEF DescriptorInv

\* Every open descriptor is held by exactly one live object, of its own kind,
\* and no object holds a closed one: from the command line to the end of the
\* process, through every move, every end of a block and every failure.
THEOREM DescriptorsAreOwned == Spec => []DescriptorsOwned
<1>1. Init => DescriptorInv
    BY DescriptorInit
<1>2. DescriptorInv /\ [Next]_vars => DescriptorInv'
    BY DescriptorStep
<1>3. ASSUME DescriptorInv PROVE DescriptorsOwned
    <2>1. Hold(Live, holds, fds) /\ NoFd \notin DOMAIN fds
        BY <1>3, DescriptorsPositive
    <2>2. ASSUME NEW n \in DOMAIN fds
          PROVE  \E o \in Live : /\ holds[o] = n /\ Kind(o) = fds[n]
                                 /\ \A other \in Live \ {o} : holds[other] # n
        <3>1. PICK o \in Owners : holds[o] = n
            BY <2>1 DEF Hold
        <3>2. o \in Live /\ Kind(o) = fds[n]
            BY <2>1, <3>1 DEF Hold
        <3>3. Live \subseteq Owners
            BY <1>3, DescriptorsPositive DEF Live, Row, ToSet
        <3>4. ASSUME NEW other \in Live \ {o} PROVE holds[other] # n
            <4>1. other \in Owners /\ other # o /\ n # NoFd
                BY <2>1, <3>3
            <4> QED BY <2>1, <3>1, <4>1 DEF Hold
        <3> QED BY <3>1, <3>2, <3>4
    <2>3. ASSUME NEW o \in Owners, holds[o] # NoFd PROVE o \in Live /\ holds[o] \in DOMAIN fds
        BY <2>1, <2>3 DEF Hold
    <2> QED BY <2>2, <2>3 DEF DescriptorsOwned
<1> QED BY <1>1, <1>2, <1>3, PTL DEF Spec

-----------------------------------------------------------------------------
(* Groups *)

RingOf(place) == <<place, "ring">>

\* A group has the address of the ring it was created with.
Group(n, place) == [bgid |-> n, ring_ |-> RingOf(place)]
BothGroups == <<Group(0, "local"), Group(1, "local")>>

\* The groups of the rings of the session at each statement.
GroupsOf(label, place) ==
    CASE place = "local" /\ label = "create_transmitter" -> <<Group(0, "local")>>
      [] place = "local" /\ label = "return" -> BothGroups
      [] place = "session" /\ label \in InSession -> BothGroups
      [] OTHER -> <<>>

Pairs(fd, list) == { <<fd, list[i].bgid>> : i \in DOMAIN list }

GroupInv ==
    /\ \A r \in registered : r[1] \in DOMAIN fds
    /\ Label \in {"probe_pair", "probe_group", "probe_recv"} => holds[RingOf("probe")] # NoFd
    /\ Label # "exit" =>
        /\ groups = [o \in Rings |-> groups[o]]
        /\ \A place \in {"main", "local", "session"} : groups[RingOf(place)] = GroupsOf(Label, place)
        /\ groups[RingOf("probe")] # <<>> =>
                /\ groups[RingOf("probe")] = <<Group(0, "probe")>>
                /\ Label \in {"probe_recv", "arm_read"} /\ holds[RingOf("probe")] # NoFd
        /\ registered = UNION { Pairs(holds[o], groups[o]) : o \in Rings }

\* The rings, one by one.
LEMMA RingsAre ==
    /\ Rings = {RingOf("main"), RingOf("local"), RingOf("session"), RingOf("probe")}
    /\ \A p, q \in {"main", "local", "session", "probe"} : RingOf(p) = RingOf(q) => p = q
    /\ Rings \subseteq Owners
    /\ \A place \in {"main", "local", "session"} : RingOf(place) \in ToSet(Of(place))
<1>1. Rings \subseteq Owners
    BY DEF Rings
<1>2. \A place \in {"main", "local", "session"} : RingOf(place) \in ToSet(Of(place))
    BY OfIs DEF RingOf
<1>3. \A p, q \in {"main", "local", "session", "probe"} : RingOf(p) = RingOf(q) => p = q
    BY DEF RingOf
<1>4. \A o \in Owners : o[2] = "ring" <=>
            o \in {<<"main", "ring">>, <<"local", "ring">>, <<"session", "ring">>, <<"probe", "ring">>}
    BY OwnersAre
<1>5. {<<"main", "ring">>, <<"local", "ring">>, <<"session", "ring">>, <<"probe", "ring">>} \subseteq Owners
    BY OwnersAre
<1>6. Rings = {RingOf("main"), RingOf("local"), RingOf("session"), RingOf("probe")}
    BY <1>4, <1>5 DEF Rings, RingOf
<1> QED BY <1>1, <1>2, <1>3, <1>6

\* The kernel's names of no group, one group and two.
LEMMA PairsAre ==
    ASSUME NEW fd
    PROVE  /\ Pairs(fd, <<>>) = {}
           /\ \A place \in {"local", "probe"} : Pairs(fd, <<Group(0, place)>>) = {<<fd, 0>>}
           /\ Pairs(fd, BothGroups) = {<<fd, 0>>, <<fd, 1>>}
<1>1. Pairs(fd, <<>>) = {}
    BY DEF Pairs
<1>2. ASSUME NEW place \in {"local", "probe"} PROVE Pairs(fd, <<Group(0, place)>>) = {<<fd, 0>>}
    <2> DEFINE s == <<Group(0, place)>>
    <2>1. DOMAIN s = {1} /\ s[1].bgid = 0
        BY DEF Group
    <2> HIDE DEF s
    <2> QED BY <2>1 DEF Pairs, s
<1>3. Pairs(fd, BothGroups) = {<<fd, 0>>, <<fd, 1>>}
    <2>1. DOMAIN BothGroups = {1, 2} /\ BothGroups[1].bgid = 0 /\ BothGroups[2].bgid = 1
        BY DEF BothGroups, Group
    <2> QED BY <2>1 DEF Pairs
<1> QED BY <1>1, <1>2, <1>3

Early == {"cli", "ring", "tun", "listener", "accept", "remote", "connect", "set_up",
          "create_session", "create_receiver", "crashed"}

\* The groups of the session's rings, statement by statement.
LEMMA GroupsOfIs ==
    /\ \A label \in Early, place \in {"main", "local", "session"} : GroupsOf(label, place) = <<>>
    /\ \A label \in InSession : /\ GroupsOf(label, "session") = BothGroups
                                /\ GroupsOf(label, "local") = <<>> /\ GroupsOf(label, "main") = <<>>
    /\ GroupsOf("create_transmitter", "local") = <<Group(0, "local")>>
    /\ GroupsOf("return", "local") = BothGroups
    /\ \A label \in {"create_transmitter", "return"} :
            GroupsOf(label, "session") = <<>> /\ GroupsOf(label, "main") = <<>>
<1>1. \A label \in Early, place \in {"main", "local", "session"} : GroupsOf(label, place) = <<>>
    BY DEF GroupsOf, Early, InSession
<1>2. \A label \in InSession : /\ GroupsOf(label, "session") = BothGroups
                               /\ GroupsOf(label, "local") = <<>> /\ GroupsOf(label, "main") = <<>>
    BY DEF GroupsOf, InSession
<1>3. /\ GroupsOf("create_transmitter", "local") = <<Group(0, "local")>>
      /\ GroupsOf("return", "local") = BothGroups
    BY DEF GroupsOf
<1>4. \A label \in {"create_transmitter", "return"} :
            GroupsOf(label, "session") = <<>> /\ GroupsOf(label, "main") = <<>>
    BY DEF GroupsOf, InSession
<1> QED BY <1>1, <1>2, <1>3, <1>4

\* What the kernel knows, ring by ring.
LEMMA RegisteredIs ==
    ASSUME GroupInv, Label # "exit"
    PROVE  registered = Pairs(holds[RingOf("main")], groups[RingOf("main")])
                        \cup Pairs(holds[RingOf("local")], groups[RingOf("local")])
                        \cup Pairs(holds[RingOf("session")], groups[RingOf("session")])
                        \cup Pairs(holds[RingOf("probe")], groups[RingOf("probe")])
<1>1. registered = UNION { Pairs(holds[o], groups[o]) : o \in Rings }
    BY DEF GroupInv
<1> QED BY <1>1, RingsAre

\* Before the session has a group there is none.
LEMMA EarlyIs ==
    ASSUME GroupInv, Label \in Early
    PROVE  registered = {} /\ groups = [o \in Rings |-> <<>>]
<1>1. Label # "exit" /\ Label \notin {"probe_recv", "arm_read"}
    BY DEF Early
<1>2. \A place \in {"main", "local", "session", "probe"} : groups[RingOf(place)] = <<>>
    BY <1>1, GroupsOfIs DEF GroupInv
<1>3. \A o \in Rings : groups[o] = <<>>
    BY <1>2, RingsAre
<1>4. registered = {}
    BY <1>1, <1>2, RegisteredIs, PairsAre
<1>5. groups = [o \in Rings |-> groups[o]]
    BY <1>1 DEF GroupInv
<1> QED BY <1>3, <1>4, <1>5

\* Without groups a step to such a statement keeps the invariant.
LEMMA EarlyGives ==
    ASSUME registered' = {}, groups' = [o \in Rings |-> <<>>], Label' \in Early
    PROVE  GroupInv'
<1>1. /\ Label' # "exit"
      /\ Label' \notin {"probe_pair", "probe_group", "probe_recv"}
    BY DEF Early
<1>2. \A o \in Rings : groups'[o] = <<>>
    OBVIOUS
<1>3. \A place \in {"main", "local", "session", "probe"} : groups'[RingOf(place)] = <<>>
    BY <1>2, RingsAre
<1>4. \A place \in {"main", "local", "session"} : groups'[RingOf(place)] = GroupsOf(Label', place)
    BY <1>3, GroupsOfIs
<1>5. \A o \in Rings : Pairs(holds'[o], groups'[o]) = {}
    BY <1>2, PairsAre
<1>6. registered' = UNION { Pairs(holds'[o], groups'[o]) : o \in Rings }
    BY <1>5
<1>7. groups' = [o \in Rings |-> groups'[o]]
    OBVIOUS
<1> QED BY <1>1, <1>3, <1>4, <1>6, <1>7 DEF GroupInv

\* The same for any rings and groups.
LEMMA UnionIs ==
    ASSUME NEW h, NEW g
    PROVE  UNION { Pairs(h[o], g[o]) : o \in Rings } =
                Pairs(h[RingOf("main")], g[RingOf("main")])
                \cup Pairs(h[RingOf("local")], g[RingOf("local")])
                \cup Pairs(h[RingOf("session")], g[RingOf("session")])
                \cup Pairs(h[RingOf("probe")], g[RingOf("probe")])
    BY RingsAre

\* The statement after a step.
LEMMA NextLabel ==
    ASSUME NEW label
    PROVE  /\ label # "unwind" /\ Goto(label) => Label' = label
           /\ \A n : Leave(n, label) => Label' = label
    BY DEF Label, Goto, Leave

\* On the way out only the descriptors of the groups matter.
LEMMA ExitGives ==
    ASSUME Label' = "exit", \A r \in registered' : r[1] \in DOMAIN fds'
    PROVE  GroupInv'
    BY DEF GroupInv

\* A ring with groups is a live one.
LEMMA Grouped ==
    ASSUME DescriptorInv, GroupInv, Label # "exit", NEW o \in Rings, groups[o] # <<>>
    PROVE  /\ holds[o] # NoFd /\ o \in Live /\ o # RingOf("main")
           /\ Label \in Early => FALSE
<1>1. PICK place \in {"main", "local", "session", "probe"} : o = RingOf(place)
    BY RingsAre
<1>2. Label \notin Early
    BY EarlyIs
<1>3. Label \in InSession \cup {"create_transmitter", "return"}
    BY <1>2, DescriptorsPositive DEF Labels, Early
<1>4. place # "main"
    BY <1>1, <1>3, GroupsOfIs DEF GroupInv
<1>5. holds[o] # NoFd
    <2>1. CASE place = "probe"
        BY <1>1, <2>1 DEF GroupInv
    <2>2. CASE place = "local"
        <3>1. Label \notin InSession
            BY <1>1, <2>2, GroupsOfIs DEF GroupInv
        <3>2. Full("local")
            BY <1>3, <3>1, DescriptorsPositive DEF Placed
        <3> QED BY <1>1, <2>2, <3>2, RingsAre DEF Full
    <2>3. CASE place = "session"
        <3>1. Label \in InSession
            BY <1>1, <1>3, <2>3, GroupsOfIs DEF GroupInv
        <3>2. Full("session")
            BY <3>1, DescriptorsPositive DEF Placed
        <3> QED BY <1>1, <2>3, <3>2, RingsAre DEF Full
    <2> QED BY <1>4, <2>1, <2>2, <2>3
<1>6. o \in Live
    BY <1>5, RingsAre, DescriptorsPositive
<1>7. o # RingOf("main")
    BY <1>1, <1>4, RingsAre
<1> QED BY <1>2, <1>5, <1>6, <1>7

\* A step that leaves the groups, and the rings that have some, alone.
LEMMA SameGroups ==
    ASSUME GroupInv, Label # "exit", Label' # "exit", UNCHANGED <<groups, registered>>,
           \A o \in Rings : groups[o] # <<>> => holds'[o] = holds[o],
           \A r \in registered : r[1] \in DOMAIN fds',
           \A place \in {"main", "local", "session"} : GroupsOf(Label', place) = GroupsOf(Label, place),
           groups[RingOf("probe")] # <<>> => Label' \in {"probe_recv", "arm_read"},
           Label' \in {"probe_pair", "probe_group", "probe_recv"} => holds'[RingOf("probe")] # NoFd
    PROVE  GroupInv'
<1>1. /\ groups = [o \in Rings |-> groups[o]]
      /\ \A place \in {"main", "local", "session"} : groups[RingOf(place)] = GroupsOf(Label, place)
      /\ groups[RingOf("probe")] # <<>> =>
            groups[RingOf("probe")] = <<Group(0, "probe")>> /\ holds[RingOf("probe")] # NoFd
      /\ registered = UNION { Pairs(holds[o], groups[o]) : o \in Rings }
    BY DEF GroupInv
<1>2. \A o \in Rings : Pairs(holds'[o], groups'[o]) = Pairs(holds[o], groups[o])
    <2> SUFFICES ASSUME NEW o \in Rings PROVE Pairs(holds'[o], groups[o]) = Pairs(holds[o], groups[o])
        OBVIOUS
    <2>1. CASE groups[o] = <<>>
        BY <2>1, PairsAre
    <2>2. CASE groups[o] # <<>>
        BY <2>2
    <2> QED BY <2>1, <2>2
<1>3. registered' = UNION { Pairs(holds'[o], groups'[o]) : o \in Rings }
    BY <1>1, <1>2
<1>4. /\ groups' = [o \in Rings |-> groups'[o]]
      /\ \A place \in {"main", "local", "session"} : groups'[RingOf(place)] = GroupsOf(Label', place)
    BY <1>1
<1>5. groups'[RingOf("probe")] # <<>> =>
            /\ groups'[RingOf("probe")] = <<Group(0, "probe")>>
            /\ Label' \in {"probe_recv", "arm_read"} /\ holds'[RingOf("probe")] # NoFd
    BY <1>1, RingsAre
<1> QED BY <1>3, <1>4, <1>5 DEF GroupInv

\* The steps up to the creation of the session, and the crash.
LEMMA EarlyStep ==
    ASSUME GroupInv,
           Cli \/ CreateQueue \/ CreateTunDevice \/ CreateListener \/ AcceptFrom \/ RemoteAddress
             \/ ConnectTo \/ SetUp \/ CreateSession \/ Crash
    PROVE  GroupInv'
<1>1. CASE Cli
    <2>1. Label \in Early /\ UNCHANGED <<groups, registered>>
        BY <1>1 DEF Cli, Label, Early
    <2>2. Label' \in Early \cup {"exit"}
        BY <1>1, NextLabel DEF Cli, Early
    <2>3. registered' = {} /\ groups' = [o \in Rings |-> <<>>]
        BY <2>1, EarlyIs
    <2> QED BY <2>2, <2>3, EarlyGives, ExitGives
<1>2. CASE CreateQueue \/ CreateTunDevice \/ CreateListener \/ AcceptFrom \/ RemoteAddress
             \/ ConnectTo \/ SetUp
    <2>1. Label \in Early /\ UNCHANGED <<groups, registered>>
        BY <1>2 DEF CreateQueue, CreateTunDevice, CreateListener, AcceptFrom, RemoteAddress, ConnectTo,
                    SetUp, Label, Early
    <2>2. Label' \in Early
        BY <1>2, NextLabel DEF CreateQueue, CreateTunDevice, CreateListener, AcceptFrom, RemoteAddress,
                    ConnectTo, SetUp, TakePeer, Early
    <2>3. registered' = {} /\ groups' = [o \in Rings |-> <<>>]
        BY <2>1, EarlyIs
    <2> QED BY <2>2, <2>3, EarlyGives
<1>3. CASE CreateSession
    <2>1. Label \in Early /\ UNCHANGED registered /\ Label' = "create_receiver"
        BY <1>3, NextLabel DEF CreateSession, Label, Early
    <2>2. registered = {} /\ groups = [o \in Rings |-> <<>>]
        BY <2>1, EarlyIs
    <2>3. groups' = [groups EXCEPT ![RingOf("local")] = groups[RingOf("main")],
                                   ![RingOf("main")] = <<>>]
        BY <1>3 DEF CreateSession, MoveMembers, RingOf
    <2>4. groups' = [o \in Rings |-> <<>>]
        BY <2>2, <2>3, RingsAre
    <2> QED BY <2>1, <2>2, <2>4, EarlyGives DEF Early
<1>4. CASE Crash
    BY <1>4, NextLabel, EarlyGives DEF Crash, Early
<1> QED BY <1>1, <1>2, <1>3, <1>4

\* What destruction leaves of the kernel's groups, in general.
LEMMA DestroyRegistered ==
    ASSUME GroupInv, Destroy
    PROVE  \A r \in registered' : r[1] \in DOMAIN fds'
<1>1. /\ registered' = { r \in registered : r[1] # holds[Top] }
      /\ DOMAIN fds' = DOMAIN fds \ {holds[Top]}
    BY DEF Destroy
<1>2. \A r \in registered : r[1] \in DOMAIN fds
    BY DEF GroupInv
<1> QED BY <1>1, <1>2

\* The way out: a failed call, a group that found no memory, and the
\* destruction of everything.
LEMMA ExitStep ==
    ASSUME GroupInv,
           \/ Fails \/ GroupNoMemory
           \/ Label = "exit" /\ (FreeGroup \/ Destroy \/ Unwound)
    PROVE  GroupInv'
<1>1. CASE Fails \/ GroupNoMemory
    <2>1. Leave(0, "exit") /\ fds' = fds /\ registered' \subseteq registered
        BY <1>1 DEF Fails, GroupNoMemory, GroupFails
    <2> QED BY <2>1, NextLabel, ExitGives DEF GroupInv
<1>2. CASE Label = "exit" /\ FreeGroup
    <2>1. Label' = Label /\ fds' = fds /\ registered' \subseteq registered
        BY <1>2 DEF FreeGroup, Label
    <2> QED BY <1>2, <2>1, ExitGives DEF GroupInv
<1>3. CASE Label = "exit" /\ Destroy
    <2>1. Label' = Label
        BY <1>3 DEF Destroy, Label
    <2> QED BY <1>3, <2>1, DestroyRegistered, ExitGives
<1>4. CASE Label = "exit" /\ Unwound
    <2>1. Label' = "exit" /\ fds' = fds /\ registered' = registered
        BY <1>4 DEF Unwound, Goto, Label
    <2> QED BY <2>1, ExitGives DEF GroupInv
<1> QED BY <1>1, <1>2, <1>3, <1>4

\* The end of a block, of the local session and of the probe leave the groups
\* of the others alone.
LEMMA DestroyGroups ==
    ASSUME DescriptorInv, GroupInv, Destroy, Label # "exit"
    PROVE  GroupInv'
<1> DEFINE top == Top
           fd == holds[top]
<1>1. /\ pc = "unwind" /\ Len(scope) > unwind.to /\ ~HasGroups
      /\ fds' = [n \in DOMAIN fds \ {fd} |-> fds[n]]
      /\ registered' = { r \in registered : r[1] # fd }
      /\ holds' = [holds EXCEPT ![top] = NoFd]
      /\ UNCHANGED <<pc, unwind, groups>>
    BY DEF Destroy
<1>2. top \in Owners
    BY <1>1, DestroyScoped DEF DescriptorInv
<1>3. ~(top \in Rings /\ groups[top] # <<>>)
    BY <1>1 DEF HasGroups
<1>4. Label' = Label /\ Label \in {"set_up", "run", "arm_read"}
    BY <1>1 DEF Label, DescriptorInv, Scoped
<1> HIDE DEF top, fd
<1>5. ASSUME NEW o \in Rings, groups[o] # <<>> PROVE holds'[o] = holds[o] /\ holds[o] # fd
    <2>1. o # top /\ o \in Owners /\ holds[o] # NoFd
        BY <1>3, <1>5, Grouped, RingsAre
    <2>2. holds[o] # holds[top]
        BY <1>2, <2>1, DescriptorsPositive DEF Hold
    <2> QED BY <1>1, <2>1, <2>2, DescriptorsPositive DEF fd
<1>6. ASSUME NEW r \in registered PROVE r[1] # fd
    <2>1. PICK o \in Rings : r \in Pairs(holds[o], groups[o])
        BY DEF GroupInv
    <2>2. groups[o] # <<>> /\ r[1] = holds[o]
        BY <2>1, PairsAre DEF Pairs
    <2> QED BY <1>5, <2>2
<1>7. registered' = registered
    BY <1>1, <1>6
<1>8. \A r \in registered : r[1] \in DOMAIN fds'
    BY <1>7, DestroyRegistered
<1> QED BY <1>1, <1>4, <1>5, <1>7, <1>8, SameGroups DEF GroupInv

\* ~BufferGroup of the probe's group.
LEMMA FreeGroupStep ==
    ASSUME DescriptorInv, GroupInv, FreeGroup, Label # "exit"
    PROVE  GroupInv'
<1> DEFINE p == RingOf("probe")
           s == RingOf("session")
<1>1. /\ pc = "unwind" /\ Len(scope) > unwind.to /\ Top \in Rings /\ groups[Top] # <<>>
      /\ groups' = [groups EXCEPT ![Top] = Tail(groups[Top])]
      /\ UNCHANGED <<pc, unwind, holds, fds>>
    BY DEF FreeGroup, HasGroups
<1>2. /\ Label' = Label /\ Label \in {"set_up", "run", "arm_read"}
      /\ Top \in Live /\ Top \notin ToSet(ScopeAt(Label))
    BY <1>1, DestroyScoped DEF Label, DescriptorInv, Scoped
<1>3. Label \in {"run", "arm_read"}
    BY <1>1, <1>2, Grouped DEF Early
<1>4. Top # RingOf("main") /\ Top # s
    BY <1>2, <1>3, ScopeValues, RowsAre, RingsAre
<1>5. groups[RingOf("local")] = <<>> /\ groups[RingOf("main")] = <<>> /\ groups[s] = BothGroups
    BY <1>3, GroupsOfIs DEF GroupInv, InSession
<1>6. Top = p
    BY <1>1, <1>4, <1>5, RingsAre
<1>7. groups[p] = <<Group(0, "probe")>> /\ Label = "arm_read"
    BY <1>1, <1>3, <1>6 DEF GroupInv
<1>8. registered' = registered \ {<<holds[p], 0>>}
    <2> DEFINE g == Head(groups[Top])
    <2>1. g.ring_ = p /\ g.bgid = 0
        BY <1>6, <1>7 DEF Group
    <2>2. IF g.ring_ \in Live THEN registered' = registered \ {<<holds[g.ring_], g.bgid>>}
          ELSE \E lost \in {{}} \cup { {r} : r \in registered } : registered' = registered \ lost
        BY DEF FreeGroup
    <2> HIDE DEF g
    <2> QED BY <1>2, <1>6, <2>1, <2>2
<1>9. holds[p] # holds[s]
    <2>1. p \in Rings /\ s \in Rings /\ p # s /\ groups[p] # <<>>
        BY <1>7, RingsAre
    <2>2. holds[p] # NoFd
        BY <1>2, <2>1, Grouped
    <2> QED BY <2>1, <2>2, RingsAre, DescriptorsPositive DEF Hold
<1>10. registered = {<<holds[s], 0>>, <<holds[s], 1>>} \cup {<<holds[p], 0>>}
    BY <1>2, <1>5, <1>7, RegisteredIs, PairsAre
<1>11. groups'[p] = <<>> /\ \A o \in Rings \ {p} : groups'[o] = groups[o]
    <2>1. groups = [o \in Rings |-> groups[o]]
        BY <1>2 DEF GroupInv
    <2>2. Tail(groups[p]) = <<>>
        BY <1>7
    <2> QED BY <1>1, <1>6, <2>1, <2>2
<1>12. registered' = {<<holds[s], 0>>, <<holds[s], 1>>}
    BY <1>8, <1>9, <1>10
<1>13. /\ groups'[RingOf("local")] = <<>> /\ groups'[RingOf("main")] = <<>>
       /\ groups'[s] = BothGroups
    BY <1>5, <1>11, RingsAre
<1>14. registered' = UNION { Pairs(holds'[o], groups'[o]) : o \in Rings }
    <2>1. UNION { Pairs(holds'[o], groups'[o]) : o \in Rings } =
                Pairs(holds'[RingOf("main")], groups'[RingOf("main")])
                \cup Pairs(holds'[RingOf("local")], groups'[RingOf("local")])
                \cup Pairs(holds'[s], groups'[s]) \cup Pairs(holds'[p], groups'[p])
        BY UnionIs
    <2>2. /\ Pairs(holds'[RingOf("main")], groups'[RingOf("main")]) = {}
          /\ Pairs(holds'[RingOf("local")], groups'[RingOf("local")]) = {}
          /\ Pairs(holds'[p], groups'[p]) = {}
          /\ Pairs(holds'[s], groups'[s]) = {<<holds[s], 0>>, <<holds[s], 1>>}
        BY <1>1, <1>11, <1>13, PairsAre
    <2> QED BY <1>12, <2>1, <2>2
<1>15. groups' = [o \in Rings |-> groups'[o]]
    <2>1. groups = [o \in Rings |-> groups[o]]
        BY <1>2 DEF GroupInv
    <2> QED BY <1>1, <2>1
<1>16. \A place \in {"main", "local", "session"} : groups'[RingOf(place)] = GroupsOf(Label', place)
    BY <1>2, <1>7, <1>13, GroupsOfIs DEF InSession
<1>17. \A r \in registered' : r[1] \in DOMAIN fds'
    BY <1>1, <1>8 DEF GroupInv
<1>18. Label' \notin {"probe_pair", "probe_group", "probe_recv"}
    BY <1>2
<1> QED BY <1>11, <1>14, <1>15, <1>16, <1>17, <1>18 DEF GroupInv

\* What adding an element at the end of a list gives.
LEMMA OneMore ==
    ASSUME NEW S, NEW s \in Seq(S), NEW e \in S
    PROVE  /\ Append(s, e) \in Seq(S) /\ Len(Append(s, e)) = Len(s) + 1
           /\ \A i \in 1..Len(s) : Append(s, e)[i] = s[i]
           /\ Append(s, e)[Len(s) + 1] = e
    OBVIOUS

\* Short lists of groups.
LEMMA ListsAre ==
    ASSUME NEW a, NEW b
    PROVE  /\ Len(<<>>) = 0 /\ Len(<<a>>) = 1
           /\ Append(<<>>, a) = <<a>> /\ Append(<<a>>, b) = <<a, b>>
<1> DEFINE S == {a, b}
<1>1. <<>> \in Seq(S) /\ <<a>> \in Seq(S) /\ a \in S /\ b \in S
    OBVIOUS
<1>2. Len(<<>>) = 0 /\ Len(<<a>>) = 1
    OBVIOUS
<1>3. Append(<<>>, a) = <<a>>
    BY <1>1
<1>4. Append(<<a>>, b) = <<a, b>>
    <2> DEFINE s == <<a>>
               t == <<a, b>>
    <2>1. s \in Seq(S) /\ Len(s) = 1 /\ s[1] = a
        BY <1>1
    <2>2. t \in Seq(S) /\ Len(t) = 2 /\ t[1] = a /\ t[2] = b
        BY <1>1
    <2> HIDE DEF s, t, S
    <2>3. Append(s, b) \in Seq(S) /\ Len(Append(s, b)) = 2 /\ Append(s, b)[1] = a /\ Append(s, b)[2] = b
        <3>1. /\ Append(s, b) \in Seq(S) /\ Len(Append(s, b)) = Len(s) + 1
              /\ \A i \in 1..Len(s) : Append(s, b)[i] = s[i]
              /\ Append(s, b)[Len(s) + 1] = b
            <4>1. s \in Seq(S) /\ b \in S
                BY <1>1, <2>1
            <4> QED BY <4>1, OneMore
        <3> QED BY <2>1, <3>1
    <2>4. Append(s, b) = t
        BY <2>2, <2>3
    <2> QED BY <2>4 DEF s, t
<1> QED BY <1>2, <1>3, <1>4

\* create_buffer_group for the receiver, for the transmitter and in the probe.
LEMMA RegisterStep ==
    ASSUME DescriptorInv, GroupInv, CreateReceiver \/ CreateTransmitter \/ ProbeGroup
    PROVE  GroupInv'
<1> DEFINE l == RingOf("local")
           s == RingOf("session")
           p == RingOf("probe")
           m == RingOf("main")
<1>0. /\ {l, s, p, m} \subseteq Owners /\ Rings = {m, l, s, p}
      /\ l # s /\ l # p /\ l # m /\ s # p /\ s # m /\ p # m
    BY RingsAre
<1>1. UNION { Pairs(holds'[o], groups'[o]) : o \in Rings } =
            Pairs(holds'[m], groups'[m]) \cup Pairs(holds'[l], groups'[l])
            \cup Pairs(holds'[s], groups'[s]) \cup Pairs(holds'[p], groups'[p])
    BY UnionIs
<1>2. ASSUME NEW o \in Rings, holds[o] # NoFd, UNCHANGED <<holds, fds>>,
             registered' = registered \cup {<<holds[o], Len(groups[o])>>}
      PROVE  \A r \in registered' : r[1] \in DOMAIN fds'
    <2>1. holds[o] \in DOMAIN fds
        BY <1>2, RingsAre, DescriptorsPositive DEF Hold
    <2>2. \A r \in registered : r[1] \in DOMAIN fds
        BY DEF GroupInv
    <2> QED BY <1>2, <2>1, <2>2
<1>3. CASE CreateReceiver
    <2>1. /\ pc = "create_receiver" /\ Label' = "create_transmitter" /\ UNCHANGED <<holds, fds>>
          /\ groups' = [groups EXCEPT ![l] = Append(groups[l], [bgid |-> Len(groups[l]), ring_ |-> l])]
          /\ registered' = registered \cup {<<holds[l], Len(groups[l])>>}
        BY <1>3, NextLabel DEF CreateReceiver, Create, Register, RingOf
    <2>2. Label = "create_receiver" /\ holds[l] # NoFd
        <3>1. Label = "create_receiver"
            BY <2>1, DescriptorsPositive
        <3>2. Full("local")
            BY <3>1, DescriptorsPositive DEF Placed
        <3> QED BY <3>1, <3>2, RingsAre DEF Full
    <2>3. registered = {} /\ groups = [o \in Rings |-> <<>>]
        BY <2>2, EarlyIs DEF Early
    <2>4. groups[l] = <<>> /\ Len(groups[l]) = 0
        BY <1>0, <2>3
    <2>5. Append(groups[l], [bgid |-> Len(groups[l]), ring_ |-> l]) = <<Group(0, "local")>>
        BY <2>4 DEF Group
    <2>6. /\ groups' = [o \in Rings |-> groups'[o]] /\ groups'[l] = <<Group(0, "local")>>
          /\ groups'[m] = <<>> /\ groups'[s] = <<>> /\ groups'[p] = <<>>
        BY <1>0, <2>1, <2>3, <2>5
    <2>7. registered' = {<<holds[l], 0>>}
        BY <2>1, <2>3, <2>4
    <2>8. /\ Pairs(holds'[m], groups'[m]) = {} /\ Pairs(holds'[s], groups'[s]) = {}
          /\ Pairs(holds'[p], groups'[p]) = {} /\ Pairs(holds'[l], groups'[l]) = {<<holds[l], 0>>}
        BY <2>1, <2>6, PairsAre
    <2>9. registered' = UNION { Pairs(holds'[o], groups'[o]) : o \in Rings }
        BY <1>1, <2>7, <2>8
    <2>10. \A place \in {"main", "local", "session"} : groups'[RingOf(place)] = GroupsOf(Label', place)
        BY <2>1, <2>6, GroupsOfIs
    <2>11. \A r \in registered' : r[1] \in DOMAIN fds'
        BY <1>0, <1>2, <2>1, <2>2
    <2> QED BY <2>1, <2>6, <2>9, <2>10, <2>11 DEF GroupInv
<1>4. CASE CreateTransmitter
    <2>1. /\ pc = "create_transmitter" /\ Label' = "return" /\ UNCHANGED <<holds, fds>>
          /\ groups' = [groups EXCEPT ![l] = Append(groups[l], [bgid |-> Len(groups[l]), ring_ |-> l])]
          /\ registered' = registered \cup {<<holds[l], Len(groups[l])>>}
        BY <1>4, NextLabel DEF CreateTransmitter, Create, Register, RingOf
    <2>2. Label = "create_transmitter" /\ holds[l] # NoFd
        <3>1. Label = "create_transmitter"
            BY <2>1, DescriptorsPositive
        <3>2. Full("local")
            BY <3>1, DescriptorsPositive DEF Placed
        <3> QED BY <3>1, <3>2, RingsAre DEF Full
    <2>3. /\ groups = [o \in Rings |-> groups[o]] /\ groups[l] = <<Group(0, "local")>>
          /\ groups[m] = <<>> /\ groups[s] = <<>> /\ groups[p] = <<>>
        BY <2>2, GroupsOfIs DEF GroupInv
    <2>4. registered = {<<holds[l], 0>>} /\ Len(groups[l]) = 1
        <3>1. registered = {<<holds[l], 0>>}
            <4>1. /\ Pairs(holds[m], groups[m]) = {} /\ Pairs(holds[s], groups[s]) = {}
                  /\ Pairs(holds[p], groups[p]) = {} /\ Pairs(holds[l], groups[l]) = {<<holds[l], 0>>}
                BY <2>3, PairsAre
            <4> QED BY <2>2, <4>1, RegisteredIs
        <3>2. Len(groups[l]) = 1
            BY <2>3, ListsAre
        <3> QED BY <3>1, <3>2
    <2>5. Append(groups[l], [bgid |-> Len(groups[l]), ring_ |-> l]) = BothGroups
        <3> DEFINE b == [bgid |-> Len(groups[l]), ring_ |-> l]
        <3>1. b = Group(1, "local")
            BY <2>4 DEF Group
        <3> HIDE DEF b
        <3>2. Append(groups[l], b) = <<Group(0, "local"), Group(1, "local")>>
            BY <2>3, <3>1, ListsAre
        <3> QED BY <3>2 DEF BothGroups, b
    <2>6. /\ groups' = [o \in Rings |-> groups'[o]] /\ groups'[l] = BothGroups
          /\ groups'[m] = <<>> /\ groups'[s] = <<>> /\ groups'[p] = <<>>
        BY <1>0, <2>1, <2>3, <2>5
    <2>7. registered' = {<<holds[l], 0>>, <<holds[l], 1>>}
        BY <2>1, <2>4
    <2>8. /\ Pairs(holds'[m], groups'[m]) = {} /\ Pairs(holds'[s], groups'[s]) = {}
          /\ Pairs(holds'[p], groups'[p]) = {}
          /\ Pairs(holds'[l], groups'[l]) = {<<holds[l], 0>>, <<holds[l], 1>>}
        BY <2>1, <2>6, PairsAre
    <2>9. registered' = UNION { Pairs(holds'[o], groups'[o]) : o \in Rings }
        BY <1>1, <2>7, <2>8
    <2>10. \A place \in {"main", "local", "session"} : groups'[RingOf(place)] = GroupsOf(Label', place)
        BY <2>1, <2>6, GroupsOfIs
    <2>11. \A r \in registered' : r[1] \in DOMAIN fds'
        BY <1>0, <1>2, <2>1, <2>2
    <2> QED BY <2>1, <2>6, <2>9, <2>10, <2>11 DEF GroupInv
<1>5. CASE ProbeGroup
    <2>1. /\ pc = "probe_group" /\ Label' = "probe_recv" /\ UNCHANGED <<holds, fds>>
          /\ groups' = [groups EXCEPT ![p] = Append(groups[p], [bgid |-> Len(groups[p]), ring_ |-> p])]
          /\ registered' = registered \cup {<<holds[p], Len(groups[p])>>}
        BY <1>5, NextLabel DEF ProbeGroup, Register, RingOf
    <2>2. Label = "probe_group" /\ Label \in InSession
        BY <2>1, DescriptorsPositive DEF InSession
    <2>3. /\ groups = [o \in Rings |-> groups[o]] /\ groups[s] = BothGroups /\ holds[p] # NoFd
          /\ groups[m] = <<>> /\ groups[l] = <<>> /\ groups[p] = <<>>
        BY <2>2, GroupsOfIs DEF GroupInv
    <2>4. registered = {<<holds[s], 0>>, <<holds[s], 1>>} /\ Len(groups[p]) = 0
        BY <2>2, <2>3, RegisteredIs, PairsAre
    <2>5. Append(groups[p], [bgid |-> Len(groups[p]), ring_ |-> p]) = <<Group(0, "probe")>>
        <3> DEFINE b == [bgid |-> Len(groups[p]), ring_ |-> p]
        <3>1. b = Group(0, "probe")
            BY <2>4 DEF Group
        <3> HIDE DEF b
        <3>2. Append(groups[p], b) = <<Group(0, "probe")>>
            BY <2>3, <3>1, ListsAre
        <3> QED BY <3>2 DEF b
    <2>6. /\ groups' = [o \in Rings |-> groups'[o]] /\ groups'[p] = <<Group(0, "probe")>>
          /\ groups'[m] = <<>> /\ groups'[l] = <<>> /\ groups'[s] = BothGroups
        BY <1>0, <2>1, <2>3, <2>5
    <2>7. registered' = {<<holds[s], 0>>, <<holds[s], 1>>, <<holds[p], 0>>}
        BY <2>1, <2>4
    <2>8. /\ Pairs(holds'[m], groups'[m]) = {} /\ Pairs(holds'[l], groups'[l]) = {}
          /\ Pairs(holds'[p], groups'[p]) = {<<holds[p], 0>>}
          /\ Pairs(holds'[s], groups'[s]) = {<<holds[s], 0>>, <<holds[s], 1>>}
        <3>1. Pairs(holds'[m], groups'[m]) = {} /\ Pairs(holds'[l], groups'[l]) = {}
            BY <2>6, PairsAre
        <3>2. Pairs(holds'[p], groups'[p]) = {<<holds[p], 0>>}
            BY <2>1, <2>6, PairsAre
        <3>3. Pairs(holds'[s], groups'[s]) = {<<holds[s], 0>>, <<holds[s], 1>>}
            BY <2>1, <2>6, PairsAre
        <3> QED BY <3>1, <3>2, <3>3
    <2>9. registered' = UNION { Pairs(holds'[o], groups'[o]) : o \in Rings }
        BY <1>1, <2>7, <2>8
    <2>10. \A place \in {"main", "local", "session"} : groups'[RingOf(place)] = GroupsOf(Label', place)
        BY <2>1, <2>6, GroupsOfIs DEF InSession
    <2>11. \A r \in registered' : r[1] \in DOMAIN fds'
        BY <1>0, <1>2, <2>1, <2>3
    <2> QED BY <2>1, <2>3, <2>6, <2>9, <2>10, <2>11 DEF GroupInv
<1> QED BY <1>3, <1>4, <1>5

\* The groups move with the ring.
LEMMA ReturnGroups ==
    ASSUME DescriptorInv, GroupInv, ReturnSession
    PROVE  GroupInv'
<1> DEFINE l == RingOf("local")
           s == RingOf("session")
           p == RingOf("probe")
           m == RingOf("main")
<1>0. /\ {l, s, p, m} \subseteq Owners /\ Rings = {m, l, s, p}
      /\ l # s /\ l # p /\ l # m /\ s # p /\ s # m /\ p # m
    BY RingsAre
<1>1. /\ pc = "return" /\ Label' = "run" /\ UNCHANGED <<fds, registered>>
      /\ groups' = [groups EXCEPT ![s] = groups[l], ![l] = <<>>]
      /\ holds' = [o \in Owners |-> CASE o \in ToSet(Of("session")) -> holds[<<"local", o[2]>>]
                                      [] o \in ToSet(Of("local")) -> MovedFrom(holds[o])
                                      [] OTHER -> holds[o]]
    BY NextLabel DEF ReturnSession, MoveMembers, RingOf
<1>2. Label = "return"
    BY <1>1, DescriptorsPositive
<1>3. /\ groups = [o \in Rings |-> groups[o]] /\ groups[l] = BothGroups
      /\ groups[m] = <<>> /\ groups[s] = <<>> /\ groups[p] = <<>>
    BY <1>2, GroupsOfIs DEF GroupInv
<1>4. registered = {<<holds[l], 0>>, <<holds[l], 1>>}
    BY <1>2, <1>3, RegisteredIs, PairsAre
<1>5. holds'[s] = holds[l]
    <2>1. s \in ToSet(Of("session")) /\ s \in Owners /\ s \notin ToSet(Of("local"))
        BY RingsAre, PlacesApart
    <2>2. <<"local", s[2]>> = l
        BY DEF RingOf
    <2> HIDE DEF s, l
    <2>3. holds'[s] = holds[<<"local", s[2]>>]
        BY <1>1, <2>1
    <2> QED BY <2>2, <2>3
<1>6. /\ groups' = [o \in Rings |-> groups'[o]] /\ groups'[s] = BothGroups
      /\ groups'[m] = <<>> /\ groups'[l] = <<>> /\ groups'[p] = <<>>
    BY <1>0, <1>1, <1>3
<1>7. UNION { Pairs(holds'[o], groups'[o]) : o \in Rings } =
            Pairs(holds'[m], groups'[m]) \cup Pairs(holds'[l], groups'[l])
            \cup Pairs(holds'[s], groups'[s]) \cup Pairs(holds'[p], groups'[p])
    BY UnionIs
<1>8. /\ Pairs(holds'[m], groups'[m]) = {} /\ Pairs(holds'[l], groups'[l]) = {}
      /\ Pairs(holds'[p], groups'[p]) = {}
      /\ Pairs(holds'[s], groups'[s]) = {<<holds[l], 0>>, <<holds[l], 1>>}
    BY <1>5, <1>6, PairsAre
<1>9. registered' = UNION { Pairs(holds'[o], groups'[o]) : o \in Rings }
    BY <1>1, <1>4, <1>7, <1>8
<1>10. \A place \in {"main", "local", "session"} : groups'[RingOf(place)] = GroupsOf(Label', place)
    BY <1>1, <1>6, GroupsOfIs DEF InSession
<1>11. \A r \in registered' : r[1] \in DOMAIN fds'
    BY <1>1 DEF GroupInv
<1> QED BY <1>1, <1>6, <1>9, <1>10, <1>11 DEF GroupInv

\* The probe, and the start of the loop.
LEMMA ProbeSteps ==
    ASSUME DescriptorInv, GroupInv, DescriptorInv',
           ProbeRing \/ ProbePair \/ ProbeAnswer \/ RunStart
    PROVE  GroupInv'
<1> DEFINE p == RingOf("probe")
<1>1. \A r \in registered : r[1] \in DOMAIN fds
    BY DEF GroupInv
<1>2. ASSUME NEW owners, Acquire(owners)
      PROVE  /\ DOMAIN fds \subseteq DOMAIN fds'
             /\ \A o \in Owners : o \notin ToSet(owners) => holds'[o] = holds[o]
    BY <1>2 DEF Acquire
<1>3. \A place \in {"main", "local", "session"}, label \in InSession :
            GroupsOf(label, place) = GroupsOf("run", place)
    BY GroupsOfIs DEF InSession
<1>4. CASE ProbeRing
    <2>1. /\ pc = "run" /\ Acquire(<<p>>) /\ Goto("probe_pair") /\ UNCHANGED <<groups, registered>>
        BY <1>4 DEF ProbeRing, RingOf
    <2>2. Label = "run" /\ Label' = "probe_pair"
        BY <2>1, NextLabel, DescriptorsPositive
    <2>3. groups[p] = <<>>
        BY <2>2 DEF GroupInv
    <2>4. ToSet(<<p>>) = {p}
        BY RowOne, RingsAre
    <2>5. \A o \in Rings : groups[o] # <<>> => holds'[o] = holds[o]
        BY <1>2, <2>1, <2>3, <2>4, RingsAre
    <2>6. holds'[p] # NoFd
        <3>1. /\ scope = InRun /\ Live = ToSet(InRun) /\ DOMAIN fds \subseteq 3..7
            BY <2>1, DescriptorsPositive, ScopeValues, MaxFdIs
        <3>2. p \in Owners /\ p \notin Live
            BY <3>1, RingsAre, OfIs, RowsAre DEF RingOf
        <3>3. Row(scope) /\ holds \in [Owners -> Int] /\ Hold(Live, holds, fds) /\ 7 \in 2..9
            BY DescriptorsPositive
        <3> HIDE DEF p
        <3> QED BY <2>1, <3>1, <3>2, <3>3, AcquireOne
    <2>7. /\ \A r \in registered : r[1] \in DOMAIN fds'
          /\ \A place \in {"main", "local", "session"} : GroupsOf(Label', place) = GroupsOf(Label, place)
        BY <1>1, <1>2, <1>3, <2>1, <2>2 DEF InSession
    <2> QED BY <2>1, <2>2, <2>3, <2>5, <2>6, <2>7, SameGroups
<1>5. CASE ProbePair
    <2> DEFINE pair == <<<<"probe", "send">>, <<"probe", "recv">>>>
    <2>1. pc = "probe_pair" /\ Acquire(pair) /\ Goto("probe_group") /\ UNCHANGED <<groups, registered>>
        BY <1>5 DEF ProbePair
    <2>2. Label = "probe_pair" /\ Label' = "probe_group"
        BY <2>1, NextLabel, DescriptorsPositive
    <2>3. groups[p] = <<>> /\ holds[p] # NoFd
        BY <2>2 DEF GroupInv
    <2>4. \A o \in Rings : o \in Owners /\ o \notin ToSet(pair)
        <3>1. ToSet(pair) = {<<"probe", "send">>, <<"probe", "recv">>}
            BY DEF ToSet
        <3> QED BY <3>1 DEF Rings
    <2> HIDE DEF pair
    <2>5. \A o \in Rings : holds'[o] = holds[o]
        BY <1>2, <2>1, <2>4
    <2>6. holds'[p] # NoFd
        BY <2>3, <2>5, RingsAre
    <2>7. /\ \A r \in registered : r[1] \in DOMAIN fds'
          /\ \A place \in {"main", "local", "session"} : GroupsOf(Label', place) = GroupsOf(Label, place)
        BY <1>1, <1>2, <1>3, <2>1, <2>2 DEF InSession
    <2> QED BY <2>1, <2>2, <2>3, <2>5, <2>6, <2>7, SameGroups
<1>6. CASE ProbeAnswer
    <2>1. /\ pc = "probe_recv" /\ Leave(8, "arm_read") /\ UNCHANGED <<groups, registered, holds, fds>>
        BY <1>6 DEF ProbeAnswer
    <2>2. Label = "probe_recv" /\ Label' = "arm_read"
        BY <2>1, NextLabel, DescriptorsPositive
    <2>3. \A place \in {"main", "local", "session"} : GroupsOf(Label', place) = GroupsOf(Label, place)
        BY <1>3, <2>2 DEF InSession
    <2> QED BY <1>1, <2>1, <2>2, <2>3, SameGroups
<1>7. CASE RunStart
    <2>1. /\ pc = "arm_read" /\ Goto("running") /\ UNCHANGED <<groups, registered, holds, fds>>
        BY <1>7 DEF RunStart
    <2>2. Label = "arm_read" /\ Label' = "running" /\ Live = ToSet(InRun)
        BY <2>1, NextLabel, DescriptorsPositive, ScopeValues
    <2>3. groups[p] = <<>>
        <3>1. p \notin Live
            BY <2>2, OfIs, RowsAre DEF RingOf
        <3> QED BY <2>2, <3>1, Grouped, RingsAre
    <2>4. \A place \in {"main", "local", "session"} : GroupsOf(Label', place) = GroupsOf(Label, place)
        BY <1>3, <2>2 DEF InSession
    <2> QED BY <1>1, <2>1, <2>2, <2>3, <2>4, SameGroups
<1> QED BY <1>4, <1>5, <1>6, <1>7

\* A step that changes at most the place of main, not the statement to go on
\* with.
LEMMA SameLabelGroups ==
    ASSUME GroupInv, Label' = Label, UNCHANGED <<groups, registered, holds, fds>>
    PROVE  GroupInv'
    BY DEF GroupInv

\* Every step of main keeps the invariant of the groups.
LEMMA GroupStep == ASSUME DescriptorInv, GroupInv, DescriptorInv', [Next]_vars PROVE GroupInv'
<1>1. CASE Cli \/ CreateQueue \/ CreateTunDevice \/ CreateListener \/ AcceptFrom \/ RemoteAddress
             \/ ConnectTo \/ SetUp \/ CreateSession \/ Crash
    BY <1>1, EarlyStep
<1>2. CASE CreateReceiver \/ CreateTransmitter \/ ProbeGroup
    BY <1>2, RegisterStep
<1>3. CASE ReturnSession
    BY <1>3, ReturnGroups
<1>4. CASE ProbeRing \/ ProbePair \/ ProbeAnswer \/ RunStart
    BY <1>4, ProbeSteps
<1>5. CASE Fails \/ GroupNoMemory
    BY <1>5, ExitStep
<1>6. CASE FreeGroup
    BY <1>6, ExitStep, FreeGroupStep
<1>7. CASE Destroy
    BY <1>7, ExitStep, DestroyGroups
<1>8. CASE Unwound
    <2>1. pc = "unwind" /\ Goto(unwind.next) /\ UNCHANGED <<groups, registered, holds, fds>>
        BY <1>8 DEF Unwound
    <2>2. Label = unwind.next /\ Label # "unwind"
        BY <2>1, DescriptorsPositive DEF Label, Labels, InSession
    <2>3. Label' = Label
        BY <2>1, <2>2, NextLabel
    <2> QED BY <2>1, <2>3, SameLabelGroups
<1>9. CASE UNCHANGED vars
    BY <1>9, SameLabelGroups DEF vars, own_vars, Label
<1> QED BY <1>1, <1>2, <1>3, <1>4, <1>5, <1>6, <1>7, <1>8, <1>9 DEF Next

\* There is no group when main begins.
LEMMA GroupInit == ASSUME Init PROVE GroupInv
<1>1. /\ pc = "cli" /\ registered = {} /\ groups = [o \in Rings |-> <<>>]
    BY DEF Init
<1>2. Label = "cli"
    BY <1>1 DEF Label
<1>3. \A place \in {"main", "local", "session", "probe"} : groups[RingOf(place)] = <<>>
    BY <1>1, RingsAre
<1>4. \A o \in Rings : Pairs(holds[o], groups[o]) = {}
    BY <1>1, PairsAre
<1>5. registered = UNION { Pairs(holds[o], groups[o]) : o \in Rings }
    BY <1>1, <1>4
<1>6. \A place \in {"main", "local", "session"} : groups[RingOf(place)] = GroupsOf(Label, place)
    BY <1>2, <1>3, GroupsOfIs DEF Early
<1>7. groups = [o \in Rings |-> groups[o]]
    BY <1>1
<1> QED BY <1>1, <1>2, <1>3, <1>5, <1>6, <1>7 DEF GroupInv

\* Until the process is on its way out the kernel knows exactly the groups of
\* the live rings: the end of create_session's local session and of the probe
\* take none of the session's along.
THEOREM GroupsRegistered == Spec => []GroupsStayRegistered
<1>1. Init => DescriptorInv /\ GroupInv
    BY DescriptorInit, GroupInit
<1>2. DescriptorInv /\ GroupInv /\ [Next]_vars => DescriptorInv' /\ GroupInv'
    BY DescriptorStep, GroupStep
<1>3. ASSUME DescriptorInv, GroupInv PROVE GroupsStayRegistered
    <2> DEFINE live == UNION { Pairs(holds[o], groups[o]) : o \in Live \cap Rings }
    <2>1. GroupsStayRegistered <=> (pc = "unwind" /\ unwind.next = "exit") \/ registered = live
        BY DEF GroupsStayRegistered, Pairs
    <2>2. CASE Label # "exit"
        <3>1. registered = UNION { Pairs(holds[o], groups[o]) : o \in Rings }
            BY <1>3, <2>2 DEF GroupInv
        <3>2. \A o \in Rings : o \notin Live => Pairs(holds[o], groups[o]) = {}
            BY <1>3, <2>2, Grouped, PairsAre
        <3>3. registered = live
            BY <3>1, <3>2
        <3> QED BY <2>1, <3>3
    <2>3. CASE Label = "exit" /\ pc # "unwind"
        <3>1. Live = {}
            BY <1>3, <2>3, DescriptorsPositive, ScopeValues, RowsAre
        <3>2. DOMAIN fds = {}
            BY <1>3, <3>1, DescriptorsPositive DEF Hold
        <3>3. registered = {}
            BY <1>3, <3>2 DEF GroupInv
        <3> QED BY <2>1, <3>1, <3>3
    <2>4. CASE Label = "exit" /\ pc = "unwind"
        BY <2>1, <2>4 DEF Label
    <2> QED BY <2>2, <2>3, <2>4
<1> QED BY <1>1, <1>2, <1>3, PTL DEF Spec

-----------------------------------------------------------------------------
(* The session that starts *)

\* The configurations that the loop of getopt leads to.
ConfigInv ==
    /\ config \in [interface_name: BOOLEAN, inner_address: {"none"} \cup Families, mtu: Int,
                   bind_address: BOOLEAN, connect_address: BOOLEAN, proxies: Int]
    /\ config.mtu = 0 \/ MtuAccepted(config.mtu)
    /\ StartsAsDocumented

\* What the pointers and the interface are at each statement.
WiredInv ==
    /\ ConfigInv
    /\ wiring = [p \in {"receiver", "transmitter", "monitor"} |-> wiring[p]]
    /\ Label \in InSession => /\ wiring["receiver"] = <<"session", "members">>
                              /\ wiring["transmitter"] = <<"session", "members">>
    /\ Label = "running" => wiring["monitor"] = <<"session", "members">>
    /\ Label \in InSession \cup {"create_session", "create_receiver", "create_transmitter", "return"}
            => link

\* The configuration after each turn of the loop.
LEMMA ConfigStep == ASSUME ConfigInv, Cli PROVE ConfigInv'
<1> DEFINE C == [interface_name: BOOLEAN, inner_address: {"none"} \cup Families, mtu: Int,
                 bind_address: BOOLEAN, connect_address: BOOLEAN, proxies: Int]
<1>1. config \in C /\ (config.mtu = 0 \/ MtuAccepted(config.mtu)) /\ StartsAsDocumented /\ ParseCli
    BY DEF ConfigInv, Cli
<1>2. CASE Option
    <2>1. cli = "getopt" /\ cli' = cli
        BY <1>2 DEF Option, Set
    <2>2. config' \in C /\ (config'.mtu = 0 \/ MtuAccepted(config'.mtu))
        <3>1. CASE config' = [config EXCEPT !.interface_name = TRUE]
            BY <1>1, <3>1
        <3>2. ASSUME NEW value \in MtuValues, MtuAccepted(value),
                     config' = [config EXCEPT !.mtu = value % 65536]
              PROVE  config' \in C /\ (config'.mtu = 0 \/ MtuAccepted(config'.mtu))
            <4>1. value % 65536 = value /\ value \in Int
                BY <3>2, ConfigAssumption DEF MtuAccepted
            <4> QED BY <1>1, <3>2, <4>1
        <3>3. ASSUME NEW family \in Families, config' = [config EXCEPT !.inner_address = family]
              PROVE  config' \in C /\ (config'.mtu = 0 \/ MtuAccepted(config'.mtu))
            BY <1>1, <3>3
        <3>4. CASE config' = [config EXCEPT !.connect_address = TRUE]
            BY <1>1, <3>4
        <3>5. CASE config' = [config EXCEPT !.bind_address = TRUE]
            BY <1>1, <3>5
        <3>6. CASE config' = [config EXCEPT !.proxies = @ + 1]
            BY <1>1, <3>6
        <3> HIDE DEF C
        <3> QED BY <1>2, <3>1, <3>2, <3>3, <3>4, <3>5, <3>6 DEF Option, Set
    <2>3. StartsAsDocumented'
        BY <2>1 DEF StartsAsDocumented
    <2> QED BY <2>2, <2>3 DEF ConfigInv
<1>3. CASE HelpOrVersion \/ Operand \/ Throw
    <2>1. config' = config /\ (HelpOrVersion \/ Operand => cli = "getopt" /\ cli' = cli)
                           /\ (Throw => cli' = "failed")
        BY <1>3 DEF HelpOrVersion, Operand, Throw
    <2>2. StartsAsDocumented'
        BY <1>3, <2>1 DEF StartsAsDocumented
    <2> QED BY <1>1, <2>1, <2>2 DEF ConfigInv
<1>4. CASE Checks
    <2>1. /\ config' = config /\ end' = end /\ operands' = operands
          /\ cli' = "start" => /\ ~end /\ ~operands /\ config.interface_name /\ config.mtu # 0
                               /\ config.inner_address # "none"
                               /\ config.bind_address # config.connect_address
        BY <1>4 DEF Checks, Verdict
    <2>2. config.inner_address \in {"none"} \cup Families /\ config.mtu \in Int
        BY <1>1
    <2> HIDE DEF C
    <2>3. StartsAsDocumented'
        BY <1>1, <2>1, <2>2 DEF StartsAsDocumented, MtuAccepted
    <2> QED BY <1>1, <2>1, <2>3 DEF ConfigInv, C
<1> QED BY <1>1, <1>2, <1>3, <1>4 DEF ParseCli

\* Every step keeps the wiring.
LEMMA WiredStep ==
    ASSUME DescriptorInv, GroupInv, WiredInv, [Next]_vars
    PROVE  WiredInv'
<1> DEFINE P == {"receiver", "transmitter", "monitor"}
           here == <<"session", "members">>
           Up == InSession \cup {"create_session", "create_receiver", "create_transmitter", "return"}
<1>1. /\ wiring = [p \in P |-> wiring[p]]
      /\ Label \in InSession => wiring["receiver"] = here /\ wiring["transmitter"] = here
      /\ Label = "running" => wiring["monitor"] = here
      /\ Label \in Up => link
    BY DEF WiredInv
<1>2. ASSUME ConfigInv', wiring' = [p \in P |-> wiring'[p]],
             Label' \in InSession => wiring'["receiver"] = here /\ wiring'["transmitter"] = here,
             Label' = "running" => wiring'["monitor"] = here,
             Label' \in Up => link'
      PROVE  WiredInv'
    BY <1>2 DEF WiredInv
<1>3. ConfigInv'
    <2>1. CASE Cli
        BY <2>1, ConfigStep DEF WiredInv
    <2>2. CASE ~Cli
        <3>1. UNCHANGED config_vars
            BY <2>2 DEF Next, vars, CreateQueue, CreateTunDevice, CreateListener, AcceptFrom,
                RemoteAddress, ConnectTo, SetUp, CreateSession, CreateReceiver, CreateTransmitter, Create,
                ReturnSession, ProbeRing, ProbePair, ProbeGroup, ProbeAnswer, RunStart, Fails,
                GroupNoMemory, GroupFails, FreeGroup, Destroy, Unwound, Crash
        <3> QED BY <3>1 DEF WiredInv, ConfigInv, StartsAsDocumented, config_vars
    <2> QED BY <2>1, <2>2
<1>4. CASE Cli \/ CreateQueue \/ CreateTunDevice \/ CreateListener \/ AcceptFrom \/ RemoteAddress
             \/ ConnectTo \/ Fails \/ GroupNoMemory \/ Crash
    <2>1. Label' \notin Up /\ wiring' = wiring
        BY <1>4, NextLabel DEF Cli, CreateQueue, CreateTunDevice, CreateListener, AcceptFrom,
            RemoteAddress, ConnectTo, TakePeer, Fails, GroupNoMemory, GroupFails, Crash, InSession
    <2> QED BY <1>1, <1>2, <1>3, <2>1 DEF InSession
<1>5. CASE SetUp
    <2>1. Label' = "create_session" /\ wiring' = wiring /\ link'
        BY <1>5, NextLabel DEF SetUp
    <2> QED BY <1>1, <1>2, <1>3, <2>1 DEF InSession
<1>6. CASE CreateSession
    <2>1. Label = "create_session" /\ Label' = "create_receiver" /\ wiring' = wiring /\ link' = link
        BY <1>6, NextLabel DEF CreateSession, Label
    <2> QED BY <1>1, <1>2, <1>3, <2>1 DEF InSession
<1>7. CASE CreateReceiver \/ CreateTransmitter
    <2>1. /\ Label \in {"create_receiver", "create_transmitter"}
          /\ Label' \in {"create_transmitter", "return"} /\ link' = link
        BY <1>7, NextLabel DEF CreateReceiver, CreateTransmitter, Create, Label
    <2>2. wiring' = [p \in P |-> wiring'[p]]
        <3>1. PICK what \in P : wiring' = [wiring EXCEPT ![what] = <<"local", "members">>]
            BY <1>7 DEF CreateReceiver, CreateTransmitter, Create
        <3> QED BY <1>1, <3>1
    <2> QED BY <1>1, <1>2, <1>3, <2>1, <2>2 DEF InSession
<1>8. CASE ReturnSession
    <2>1. /\ Label = "return" /\ Label' = "run" /\ link' = link
          /\ wiring' = [wiring EXCEPT !["receiver"] = here, !["transmitter"] = here]
        BY <1>8, NextLabel DEF ReturnSession, Label, Rewired
    <2>2. /\ wiring' = [p \in P |-> wiring'[p]]
          /\ wiring'["receiver"] = here /\ wiring'["transmitter"] = here
        BY <1>1, <2>1
    <2> QED BY <1>1, <1>2, <1>3, <2>1, <2>2
<1>9. CASE ProbeRing \/ ProbePair \/ ProbeGroup \/ ProbeAnswer
    <2>1. /\ Label \in InSession /\ Label' \in InSession \ {"running"}
          /\ wiring' = wiring /\ link' = link
        BY <1>9, NextLabel DEF ProbeRing, ProbePair, ProbeGroup, ProbeAnswer, Label, InSession
    <2> QED BY <1>1, <1>2, <1>3, <2>1
<1>10. CASE RunStart
    <2>1. /\ Label = "arm_read" /\ Label' = "running" /\ link' = link
          /\ wiring' = [wiring EXCEPT !["monitor"] = here]
        BY <1>10, NextLabel DEF RunStart, Label
    <2>2. /\ wiring' = [p \in P |-> wiring'[p]] /\ wiring'["monitor"] = here
          /\ wiring'["receiver"] = wiring["receiver"] /\ wiring'["transmitter"] = wiring["transmitter"]
        BY <1>1, <2>1
    <2> QED BY <1>1, <1>2, <1>3, <2>1, <2>2 DEF InSession
<1>11. CASE FreeGroup \/ UNCHANGED vars
    <2>1. Label' = Label /\ wiring' = wiring /\ link' = link
        BY <1>11 DEF FreeGroup, vars, own_vars, Label
    <2> QED BY <1>1, <1>2, <1>3, <2>1
<1>12. CASE Unwound
    <2>1. pc = "unwind" /\ Goto(unwind.next) /\ wiring' = wiring /\ link' = link
        BY <1>12 DEF Unwound
    <2>2. Label = unwind.next /\ Label # "unwind"
        BY <2>1, DescriptorsPositive DEF Label, Labels, InSession
    <2>3. Label' = Label
        BY <2>1, <2>2, NextLabel
    <2> QED BY <1>1, <1>2, <1>3, <2>1, <2>3
<1>13. CASE Destroy
    <2> DEFINE top == Top
               fd == holds[top]
    <2>1. /\ pc = "unwind" /\ Len(scope) > unwind.to /\ wiring' = wiring
          /\ link' = (link /\ ~(fd \in DOMAIN fds /\ fds[fd] = "tun"))
        BY <1>13 DEF Destroy
    <2>2. /\ Label' = Label /\ top \in Owners /\ top \notin ToSet(ScopeAt(Label))
          /\ Label \in {"exit", "set_up", "run", "arm_read"}
        BY <1>13, <2>1, DestroyScoped DEF DescriptorInv, Scoped, Label
    <2> HIDE DEF top, fd
    <2>3. ASSUME Label \in Up PROVE ~(fd \in DOMAIN fds /\ fds[fd] = "tun")
        <3>1. Label \in {"run", "arm_read"}
            BY <2>2, <2>3 DEF InSession
        <3>2. top \notin ToSet(Of("main")) /\ top \notin ToSet(Of("session"))
            BY <2>2, <3>1, ScopeValues, RowsAre
        <3>3. CASE top \in ToSet(Of("local"))
            <4>1. fd = NoFd
                BY <3>1, <3>3, DescriptorsPositive DEF Placed, InSession, Empty, fd
            <4> QED BY <4>1, DescriptorsPositive
        <3>4. CASE top \notin ToSet(Of("local"))
            <4>1. Kind(top) # "tun"
                <5>1. top \in {<<"main", "listener">>, <<"main", "peer">>, <<"probe", "ring">>,
                               <<"probe", "send">>, <<"probe", "recv">>}
                    BY <2>2, <3>2, <3>4, OwnersAre, OfIs
                <5> QED BY <5>1 DEF Kind
            <4>2. fd \in DOMAIN fds => fds[fd] = Kind(top)
                BY <2>2, DescriptorsPositive DEF Hold, fd
            <4> QED BY <4>1, <4>2
        <3> QED BY <3>3, <3>4
    <2>4. Label' \in Up => link'
        BY <1>1, <2>1, <2>2, <2>3
    <2> QED BY <1>1, <1>2, <1>3, <2>1, <2>2, <2>4
<1> QED BY <1>4, <1>5, <1>6, <1>7, <1>8, <1>9, <1>10, <1>11, <1>12, <1>13 DEF Next

\* What main begins with.
LEMMA WiredInit == ASSUME Init PROVE WiredInv
<1>1. /\ ConfigInit /\ pc = "cli"
      /\ wiring = [p \in {"receiver", "transmitter", "monitor"} |-> Nowhere]
    BY DEF Init
<1>2. Label = "cli"
    BY <1>1 DEF Label
<1>3. ConfigInv
    BY <1>1 DEF ConfigInit, EmptyConfig, ConfigInv, StartsAsDocumented
<1> QED BY <1>1, <1>2, <1>3 DEF WiredInv, InSession

\* When the loop of run() begins the halves of the session and the monitor
\* point at the session that is alive, its members hold what they are for,
\* nothing else is open, the interface is up and the configuration is one that
\* the help text asks for, whatever stoll makes of -m.
THEOREM SessionIsWired == Spec => []SessionWired
<1>1. Init => DescriptorInv /\ GroupInv /\ WiredInv
    BY DescriptorInit, GroupInit, WiredInit
<1>2. DescriptorInv /\ GroupInv /\ WiredInv /\ [Next]_vars => DescriptorInv' /\ GroupInv' /\ WiredInv'
    BY DescriptorStep, GroupStep, WiredStep
<1>3. ASSUME DescriptorInv, WiredInv, pc = "running"
      PROVE  /\ StartsAsDocumented
             /\ \A p \in DOMAIN wiring : wiring[p] = <<"session", "members">>
             /\ DOMAIN fds = { holds[o] : o \in ToSet(Of("session")) }
             /\ \A o \in ToSet(Of("session")) : o \in Live /\ fds[holds[o]] = Kind(o)
             /\ link
    <2>1. Label = "running" /\ Live = ToSet(Of("main")) \cup ToSet(Of("session"))
        BY <1>3, DescriptorsPositive, ScopeValues, RowsAre
    <2>2. Full("session") /\ Empty("main")
        BY <1>3, <2>1, DescriptorsPositive DEF Placed, InSession
    <2>3. \A o \in ToSet(Of("session")) :
                o \in Live /\ holds[o] \in DOMAIN fds /\ fds[holds[o]] = Kind(o)
        BY <1>3, <2>2, DescriptorsPositive, PlacesApart DEF Hold, Full
    <2>4. ASSUME NEW n \in DOMAIN fds PROVE \E o \in ToSet(Of("session")) : holds[o] = n
        <3>1. PICK o \in Owners : holds[o] = n
            BY <1>3, DescriptorsPositive DEF Hold
        <3>2. holds[o] # NoFd
            BY <1>3, <3>1, DescriptorsPositive
        <3>3. o \in Live /\ o \notin ToSet(Of("main"))
            BY <1>3, <2>2, <3>1, <3>2, DescriptorsPositive DEF Empty
        <3> QED BY <2>1, <3>1, <3>3
    <2>5. DOMAIN fds = { holds[o] : o \in ToSet(Of("session")) }
        BY <2>3, <2>4
    <2>6. /\ StartsAsDocumented /\ link
          /\ \A p \in DOMAIN wiring : wiring[p] = <<"session", "members">>
        <3>1. /\ DOMAIN wiring = {"receiver", "transmitter", "monitor"}
              /\ wiring["receiver"] = <<"session", "members">>
              /\ wiring["transmitter"] = <<"session", "members">>
              /\ wiring["monitor"] = <<"session", "members">>
              /\ StartsAsDocumented /\ link
            BY <1>3, <2>1 DEF WiredInv, ConfigInv, InSession
        <3> QED BY <3>1
    <2> QED BY <2>3, <2>5, <2>6
<1>4. DescriptorInv /\ WiredInv => SessionWired
    BY <1>3 DEF SessionWired
<1> QED BY <1>1, <1>2, <1>4, PTL DEF Spec

=============================================================================
