----------------------------- MODULE Algorithms -----------------------------
(***************************************************************************)
(* The operations without a state of their own, called one at a time: the  *)
(* arithmetic of networks, addresses and their texts, and the checksum.    *)
(***************************************************************************)
EXTENDS Cidr, Address, Crc32c

CONSTANTS
    Ip4Addresses, Ip6Addresses, \* addresses to combine with every prefix
    Texts,                      \* arguments of -b, -c and -p
    RemoteAddresses,            \* what getpeername may write
    Messages,                   \* bytes to compute the checksum of
    Cuts(_)                     \* the segments a message of a size may come in

ASSUME AddressesAssumption == Ip4Addresses \subseteq Ip4 /\ Ip6Addresses \subseteq Ip6

ASSUME TextsAssumption == Texts \subseteq Seq(STRING)

\* get_remote_address gives the kernel a sockaddr_storage, of 128 bytes.
ASSUME RemoteAssumption ==
    \A a \in RemoteAddresses :
        /\ a.is = "SockAddress"
        /\ IF a.family = "AF_UNIX" THEN a.length \in offsetof_sun_path..128
           ELSE a.family \in DOMAIN sizeof_in /\ a.length = sizeof_in[a.family]

ASSUME MessagesAssumption ==
    /\ Messages \subseteq Seq(SUBSET (0..7))
    /\ \A bytes \in Messages : \A cuts \in Cuts(Len(bytes)) : IsCut(cuts, Len(bytes))

VARIABLES call, result

calls_vars == <<call, result, crc_vars>>

None == [op |-> "none"]

CallsInit == call = None /\ result = None /\ CrcInit

Idle == call = None /\ cpu = "none"

Calls(arguments, value) ==
    /\ call' = arguments
    /\ result' = value
    /\ UNCHANGED crc_vars

CidrOf(x, prefix) == [address |-> x, prefix |-> prefix]

\* Cidr(address, prefix).is_in_network(other)
IsInNetwork ==
    Idle /\ \E x, y \in Ip4Addresses \cup Ip6Addresses, prefix \in 0..128 :
        /\ PrefixAccepted(x, prefix)
        /\ Calls([op |-> "is_in_network", cidr |-> CidrOf(x, prefix), other |-> y],
                 is_in_network(CidrOf(x, prefix), y))

GetNetwork ==
    Idle /\ \E x \in Ip4Addresses \cup Ip6Addresses, prefix \in 0..128 :
        /\ PrefixAccepted(x, prefix)
        /\ Calls([op |-> "get_network", cidr |-> CidrOf(x, prefix)], get_network(CidrOf(x, prefix)))

ParseAddress ==
    Idle /\ \E text \in Texts :
        Calls([op |-> "parse_address", text |-> text], parse_address(text))

\* Socket::get_remote_address.
GetRemoteAddress ==
    Idle /\ \E a \in RemoteAddresses :
        Calls([op |-> "get_remote_address", address |-> a], from_sockaddr(a))

Checksum ==
    /\ Idle
    /\ \E bytes \in Messages, kind \in {"software", "i386", "x86_64"} :
          \E cuts \in Cuts(Len(bytes)) : CrcCall(bytes, cuts, kind)
    /\ UNCHANGED <<call, result>>

Return ==
    /\ call # None
    /\ call' = None /\ result' = None
    /\ UNCHANGED crc_vars

CallsNext ==
    \/ IsInNetwork \/ GetNetwork \/ ParseAddress \/ GetRemoteAddress \/ Return
    \/ Checksum
    \/ crc32c /\ UNCHANGED <<call, result>>

CallsSpec == CallsInit /\ [][CallsNext]_calls_vars

-----------------------------------------------------------------------------
\* get_network clears exactly the bits behind the prefix, and is_in_network
\* compares exactly those before it, in words and in bytes; so an address is
\* in a network exactly when it is in the network's canonical form.
CidrExact ==
    /\ call.op = "is_in_network" =>
          /\ result = SamePrefix(call.cidr.address, call.other, call.cidr.prefix)
          /\ result = is_in_network(get_network(call.cidr), call.other)
    /\ call.op = "get_network" => IsNetworkOf(result, call.cidr)

\* What -b, -c and -p accept can be used and printed: bind, connect and the
\* unguarded to_string in main.cpp:83 do not throw on it.  And what is printed
\* can be given to -b, -c and -p again and means the same, unless it is an
\* abstract name that is printed in hexadecimal.
PrintedReturns ==
    call.op = "parse_address" /\ result # Thrown =>
        /\ result.is = "SockAddress" => is_valid(result)
        /\ to_string(result) # Thrown
        /\ \/ parse_address(to_string(result)) = result
           \/ result.is = "SockAddress" /\ Last(to_string(result)) = "hex"

\* The kernel takes a Unix address for the given bytes of sun_path.
KernelReads(address, bytes) ==
    /\ address.is = "SockAddress" /\ address.family = "AF_UNIX"
    /\ address.length = offsetof_sun_path + Len(bytes)
    /\ \A i \in 1..Len(bytes) : address.sun_path[i] = bytes[i]

\* The formats src/README.md:188-192 lists end as what they name, and what
\* does not fit is refused, never cut.  A numeric address is itself, although
\* re_ip4 matches no ordinary text and IPv4 goes the way of a host name; a
\* host name keeps its name and port.  A path or an abstract name is the
\* kernel's whole name, even where it is digits as in unix:80, which is no
\* port of the host "unix"; one that leaves no room for the zero, or that the
\* parser does not take, is refused, as is any port above 65535.
DocumentedFormats ==
    call.op = "parse_address" =>
        LET text == call.text
            host == BeforePort(text)
            name == SubSeq(text, 3, Len(text))
            Begins(scheme) == Len(text) >= 3 /\ text[1] = scheme /\ text[2] = ":"
        IN  /\ EndsInPort(text) /\ host \in {<<"1.2.3.4">>, <<"[", "fe::1", "]">>} =>
                  IF Ports[Last(text)] > 65535 THEN result = Thrown
                  ELSE resolve(result) = IF Len(host) = 1 THEN Ip("AF_INET", "1.2.3.4", Ports[Last(text)])
                                         ELSE Ip("AF_INET6", "fe::1", Ports[Last(text)])
            /\ EndsInPort(text) /\ host = <<"name">> =>
                  result = IF Ports[Last(text)] > 65535 THEN Thrown ELSE HostPair(host, Ports[Last(text)])
            /\ Begins("unix") =>
                  IF Len(name) >= PathSize \/ IsBinary(name) THEN result = Thrown
                  ELSE KernelReads(resolve(result), name \o <<"NUL">>)
            /\ Begins("unixa") =>
                  IF Len(name) >= PathSize \/ \E i \in DOMAIN name : name[i] \in {"newline", "padded"}
                  THEN result = Thrown
                  ELSE KernelReads(resolve(result), <<"NUL">> \o name)

\* Whatever getpeername writes, unnamed sockets and names that fill sun_path
\* included: from_sockaddr, called in a noexcept function, does not throw, and
\* what is printed is read from inside sun_path.
RemotePrinted ==
    call.op = "get_remote_address" =>
        /\ result # Thrown
        /\ is_valid(result) /\ result.family = "AF_UNIX" =>
              /\ PrintedSize(result) >= 0
              /\ PrintedFrom(result) + PrintedSize(result) - 1 <= PathSize

=============================================================================
