---------------------------- MODULE MCAlgorithms ----------------------------
EXTENDS Algorithms

\* Two addresses of each family and their neighbours at some bits: the ends of
\* bytes and words, and places inside.
Pattern(i, shift) == IF (i + shift) % 3 = 0 THEN 1 ELSE 0
Flipped(bit, i, shift) == IF i = bit THEN 1 - Pattern(i, shift) ELSE Pattern(i, shift)

MCIp4Addresses ==
    { [family |-> "AF_INET", bits |-> [i \in 0..31 |-> Flipped(bit, i, 0)]] :
        bit \in {-1, 0, 7, 8, 20, 30, 31} }
MCIp6Addresses ==
    { [family |-> "AF_INET6", bytes |-> [b \in 0..15 |-> [i \in 0..7 |-> Flipped(bit, 8 * b + i, 1)]]] :
        bit \in {-1, 0, 7, 8, 60, 119, 120, 127} }

Pieces == {"unix", "unixa", ":", "[", "]", "1.2.3.4", "fe::1", "name", "padded",
           "80", "65535", "65536", "99999", " ", "control"}
NamePieces == {"name", "80", ":", "control", "newline"}
TextsOf(pieces, lengths) == UNION { [1..n -> pieces] : n \in lengths }

MCTexts ==
    TextsOf(Pieces, 1..3)
      \cup { <<scheme, ":">> \o name : scheme \in {"unix", "unixa"}, name \in TextsOf(NamePieces, 1..4) }
      \cup { <<"[">> \o host \o <<"]", ":", port>> :
               host \in TextsOf({"fe::1", "1.2.3.4", "name", "]"}, 0..2), port \in DOMAIN Ports }

\* A name of sizeof(sun_path) characters leaves no room for the final zero.
MCRemoteAddresses ==
    { Unix(<<>>, offsetof_sun_path) }
      \cup { Unix(p, offsetof_sun_path + Len(p) + 1) : p \in TextsOf({"name", "control"}, 1..PathSize) }
      \cup { Unix(<<"NUL">> \o n, offsetof_sun_path + 1 + Len(n)) :
               n \in TextsOf({"name", "control", "NUL"}, 0..(PathSize - 1)) }
      \cup { Ip("AF_INET", "1.2.3.4", 80), Ip("AF_INET6", "fe::1", 80) }

\* The test's message, single bits (a CRC is affine: they and the zeros
\* determine it), and one long enough for every loop.
MCMessages ==
    { <<>>, Zportal, [k \in 1..21 |-> {k % 8, (3 * k) % 7}], [k \in 1..16 |-> {}] }
      \cup { [k \in 1..16 |-> IF k = n THEN {(5 * n) % 8} ELSE {}] : n \in 1..16 }

\* In one piece, and in three of which one may be empty.
MCCuts(size) ==
    { <<[address |-> a, end |-> size]>> : a \in {0, 3, 7} }
      \cup { <<[address |-> 5, end |-> first], [address |-> 8, end |-> first + second],
               [address |-> 14, end |-> size]>> :
                 first \in {0, 1, 6} \cap 0..size, second \in {0, 1, 9} \cap 0..(size - 6) }
=============================================================================
