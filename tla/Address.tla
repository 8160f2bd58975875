------------------------------- MODULE Address -------------------------------
(***************************************************************************)
(* zportal::SockAddress, HostPair, parse_address, to_string and resolve.   *)
(* A text is a sequence of pieces, each of which stands for the characters *)
(* a pattern of parse_address tells apart; one piece takes one byte of     *)
(* sun_path.  "padded" is an IPv4 text with the line breaks and blanks of  *)
(* the pattern re_ip4, which is a raw literal over six lines.              *)
(***************************************************************************)
EXTENDS Integers, Sequences, SequencesExt

CONSTANT PathSize  \* sizeof(sockaddr_un::sun_path)

ASSUME PathSizeAssumption == PathSize \in Nat \ {0, 1}

Ports == [p \in {"0", "80", "65535", "65536", "99999"} |->
            CASE p = "0" -> 0 [] p = "80" -> 80 [] p = "65535" -> 65535
              [] p = "65536" -> 65536 [] OTHER -> 99999]
Digits(port) == CHOOSE p \in DOMAIN Ports : Ports[p] = port

Blank == {" ", "newline", "padded"}
Unprintable == {"newline", "padded", "control", "NUL"}

offsetof_sun_path == 2
sizeof_sockaddr_un == offsetof_sun_path + PathSize
sizeof_in == [family \in {"AF_INET", "AF_INET6"} |-> IF family = "AF_INET" THEN 16 ELSE 28]

\* What a call that throws returns.
Thrown == [is |-> "exception"]

-----------------------------------------------------------------------------
(* SockAddress.  sun_path behind the name is zero, as in ss_{}. *)

IsBinary(text) == \E i \in DOMAIN text : text[i] \in Unprintable

Zeros(n) == [i \in 1..n |-> "NUL"]

Unix(bytes, length) ==
    [is |-> "SockAddress", family |-> "AF_UNIX", length |-> length,
     sun_path |-> SubSeq(bytes \o Zeros(PathSize), 1, PathSize)]

Ip(family, ip, port) ==
    [is |-> "SockAddress", family |-> family, length |-> sizeof_in[family],
     ip |-> ip, port |-> port]

\* Mutant: the path may hold any characters.
unix_path_Unchecked(path) ==
    IF Len(path) > PathSize - 1 THEN Thrown
    ELSE Unix(path, offsetof_sun_path + Len(path) + 1)

unix_path(path) ==
    IF Len(path) > PathSize - 1 \/ IsBinary(path) THEN Thrown
    ELSE Unix(path, offsetof_sun_path + Len(path) + 1)

unix_abstract(name) ==
    IF Len(name) > PathSize - 1 THEN Thrown
    ELSE Unix(<<"NUL">> \o name, offsetof_sun_path + 1 + Len(name))

\* inet_pton and getaddrinfo with AI_NUMERICHOST take exactly such a text.
ip4_numeric(text, port) == IF text = <<"1.2.3.4">> THEN Ip("AF_INET", "1.2.3.4", port) ELSE Thrown
ip6_numeric(text, port) == IF text = <<"fe::1">> THEN Ip("AF_INET6", "fe::1", port) ELSE Thrown

is_abstract(a) == a.sun_path[1] = "NUL"

\* Mutant: a length that ends before sun_path is accepted.
is_valid_AnyLength(a) == a.family = "AF_UNIX" => a.length <= sizeof_sockaddr_un

is_valid(a) ==
    IF a.family = "AF_UNIX"
    THEN /\ a.length \in (offsetof_sun_path + 1)..sizeof_sockaddr_un
         /\ ~is_abstract(a) => a.length >= offsetof_sun_path + 2
    ELSE a.length = sizeof_in[a.family]

\* How many bytes str prints of a Unix address, and where they begin.
PrintedSize(a) == a.length - 1 - offsetof_sun_path
PrintedFrom(a) == IF is_abstract(a) THEN 2 ELSE 1

Scheme(a) == IF is_abstract(a) THEN "unixa" ELSE "unix"

\* SockAddress::str(true).
str(a) ==
    IF ~is_valid(a) THEN Thrown
    ELSE CASE a.family = "AF_INET" -> <<a.ip, ":", Digits(a.port)>>
           [] a.family = "AF_INET6" -> <<"[", a.ip, "]", ":", Digits(a.port)>>
           [] OTHER ->
                LET name == SubSeq(a.sun_path, PrintedFrom(a), PrintedFrom(a) + PrintedSize(a) - 1)
                IN  IF IsBinary(name) /\ ~is_abstract(a) THEN Thrown
                    ELSE <<Scheme(a), ":">> \o (IF IsBinary(name) THEN <<"hex">> ELSE name)

\* from_sockaddr of an address the kernel wrote.
from_sockaddr(a) ==
    IF \/ a.length = 0 \/ a.length > 128
       \/ a.family # "AF_UNIX" /\ a.length # sizeof_in[a.family]
    THEN Thrown ELSE a

-----------------------------------------------------------------------------
(* Address: a SockAddress or a host name with a port. *)

HostPair(hostname, port) == [is |-> "HostPair", hostname |-> hostname, port |-> port]

to_string(address) ==
    IF address.is = "HostPair" THEN address.hostname \o <<":", Digits(address.port)>>
    ELSE str(address)

\* The text ends in ":" and one to five digits.
EndsInPort(text) ==
    /\ Len(text) >= 3
    /\ text[Len(text) - 1] = ":" /\ text[Len(text)] \in DOMAIN Ports
BeforePort(text) == SubSeq(text, 1, Len(text) - 2)

\* Mutant: the port is cut to 16 bits.
PortAny(text) == Ports[text[Len(text)]] % 65536

\* parse_port: -1 when it throws.
Port(text) == IF Ports[text[Len(text)]] <= 65535 THEN Ports[text[Len(text)]] ELSE -1

\* The patterns; "." matches no line break.
re_ip4(text) == EndsInPort(text) /\ BeforePort(text) = <<"padded">>
re_ip6(text) ==
    /\ EndsInPort(text) /\ Len(text) >= 5
    /\ text[1] = "[" /\ text[Len(text) - 2] = "]"
    /\ \A i \in 2..(Len(text) - 3) : text[i] # "]"
re_host(text) ==
    /\ EndsInPort(text)
    /\ \A i \in 1..(Len(text) - 2) : text[i] \notin Blank \cup {":", "[", "]"}

\* Mutant: the pattern of host names is tried first.
re_unix_NotHost(text, scheme) ==
    /\ ~re_host(text)
    /\ Len(text) >= 3 /\ text[1] = scheme /\ text[2] = ":"
    /\ \A i \in 3..Len(text) : text[i] \notin {"newline", "padded"}

re_unix(text, scheme) ==
    /\ Len(text) >= 3 /\ text[1] = scheme /\ text[2] = ":"
    /\ \A i \in 3..Len(text) : text[i] \notin {"newline", "padded"}

\* The patterns are tried in this order.
parse_address(text) ==
    LET port == Port(text)
        host == BeforePort(text)
    IN  IF re_unix(text, "unix") THEN unix_path(SubSeq(text, 3, Len(text)))
        ELSE IF re_unix(text, "unixa") THEN unix_abstract(SubSeq(text, 3, Len(text)))
        ELSE IF ~(re_ip4(text) \/ re_ip6(text) \/ re_host(text)) \/ port = -1 THEN Thrown
        ELSE IF re_ip4(text) THEN ip4_numeric(host, port)
        ELSE IF re_ip6(text) THEN ip6_numeric(SubSeq(host, 2, Len(host) - 1), port)
        ELSE HostPair(host, port)

\* resolve; getaddrinfo takes a numeric host as it stands and finds others.
resolve(address) ==
    IF address.is = "SockAddress" THEN address
    ELSE IF address.hostname = <<"1.2.3.4">> THEN from_sockaddr(Ip("AF_INET", "1.2.3.4", address.port))
    ELSE from_sockaddr(Ip("AF_INET6", "found", address.port))

=============================================================================
