----------------------------- MODULE Connection -----------------------------
(***************************************************************************)
(* zportal::connect_to: the TCP connection of a session is made through a  *)
(* chain of SOCKS5 proxies.  Every proxy is asked, over the same socket,   *)
(* to connect to the next address; behind the last reply the bytes of the  *)
(* peer's session follow at once.  The program cannot look ahead: it has   *)
(* to read each reply to its last byte and no further.                     *)
(***************************************************************************)
EXTENDS Integers, SequencesExt

CONSTANTS
    Routes,         \* address kinds of the proxies, followed by the target's
    HostnameLength, \* bytes of a host name
    ReplyLengths,   \* bound: lengths of host names in replies
    MaxTunnelBytes, \* bound: bytes the peer sends before connect_to returns
    IoErrors        \* whether system calls may fail

AddressKinds == {"IP4", "IP6", "DOMAIN", "LONG_DOMAIN", "OTHER_FAMILY"}

ASSUME ConnectionAssumption ==
    /\ Routes \subseteq Seq(AddressKinds) \ {<<>>}
    /\ HostnameLength \in 1..255
    /\ ReplyLengths \subseteq 0..255
    /\ MaxTunnelBytes \in Nat
    /\ IoErrors \in BOOLEAN

VARIABLES
    route,          \* the proxies and the target
    hop,            \* the proxy socks5_connect is talking to
    step,           \* where connect_to is
    processed,      \* bytes done of the current socket_send or socket_recv
    data,           \* bytes received by the current socket_recv
    wanted,         \* how many it needs
    result,         \* "None" until connect_to fails, then its error
    \* the proxies and the peer
    requests,       \* what they have been asked: [hop, kind, address]
    answered,       \* how many of the requests have an answer
    inbox,          \* bytes in the socket
    tunnel,         \* bytes the peer has sent
    closed,         \* the connection was closed at the other end
    refusals        \* history: kinds of requests a proxy refused or answered oddly

own_vars == <<route, hop, step, processed, data, wanted, result>>
peer_vars == <<answered, inbox, tunnel, closed, refusals>>
vars == <<own_vars, requests, peer_vars>>

Proxies == Len(route) - 1

-----------------------------------------------------------------------------
(* connect_to and socks5_connect *)

\* Errors of resolve (any of them), create_socket and connect.
ConnectFailures ==
    IF IoErrors THEN {"ResolveFailed", "SocketCreateFailed", "ConnectFailed"} ELSE {}

\* Connect to the first proxy, or to the target if there is none.
ConnectFirst ==
    /\ step = "connect"
    /\ result = "None"
    /\ result' \in {"None"} \cup ConnectFailures
    /\ step' = IF result' # "None" THEN step
               ELSE IF Proxies = 0 THEN "connected" ELSE "begin"
    /\ UNCHANGED <<route, hop, processed, data, wanted, requests, peer_vars>>

\* Mutant: a proxy is asked to connect to itself.
OwnAddress == route[hop]

\* The address this proxy is to connect to.
NextAddress == route[hop + 1]

\* The check socks5_connect makes before it sends anything.
Begin ==
    /\ step = "begin"
    /\ result = "None"
    /\ IF NextAddress = "LONG_DOMAIN"
       THEN result' = "SocksHostnameTooLong" /\ UNCHANGED step
       ELSE step' = "send_method" /\ UNCHANGED result
    /\ processed' = 0
    /\ UNCHANGED <<route, hop, data, wanted, requests, peer_vars>>

\* Bytes of the request of a step.
RequestLength ==
    CASE step = "send_method" -> 3
      [] step = "send_connect" /\ NextAddress = "IP4" -> 4 + 4 + 2
      [] step = "send_connect" /\ NextAddress = "IP6" -> 4 + 16 + 2
      [] OTHER -> 4 + 1 + HostnameLength + 2

\* One iteration of socket_send: send accepts n bytes.  A request sent to its
\* last byte is followed by socket_recv of a fixed size.
Send(n) ==
    /\ result = "None"
    /\ step \in {"send_method", "send_connect"}
    /\ processed + n <= RequestLength
    /\ IF processed + n < RequestLength
       THEN processed' = processed + n /\ UNCHANGED <<step, data, wanted, requests>>
       ELSE /\ processed' = 0
            /\ data' = <<>>
            /\ IF step = "send_method"
               THEN /\ step' = "recv_method" /\ wanted' = 2
                    /\ requests' = Append(requests, [hop |-> hop, kind |-> "method",
                                                     address |-> "none"])
               ELSE /\ step' = "recv_reply" /\ wanted' = 4
                    /\ requests' = Append(requests, [hop |-> hop, kind |-> "connect",
                                                     address |-> NextAddress])
    /\ UNCHANGED <<route, hop, result, peer_vars>>

SendFailed ==
    /\ IoErrors
    /\ result = "None"
    /\ step \in {"send_method", "send_connect"}
    /\ result' \in {"SendFailed", "SendReturnedZero"}
    /\ UNCHANGED <<route, hop, step, processed, data, wanted, requests, peer_vars>>

\* Mutant: the port behind an address is forgotten.
AddressLengthNoPort(type) ==
    CASE type = 1 -> 4
      [] type = 4 -> 16
      [] type = 3 -> 1
      [] OTHER -> 0

\* Length of what follows the fixed part of a reply, by its address type;
\* for a host name that is the length byte.
AddressLength(type) ==
    CASE type = 1 -> 4 + 2
      [] type = 4 -> 16 + 2
      [] type = 3 -> 1
      [] OTHER -> 0

\* Mutant: the verdict of a proxy is not looked at.
ReplyFailureIgnored(reply) ==
    IF step = "recv_reply" /\ AddressLength(reply[4].value) = 0
    THEN "SocksUnsupportedTargetFamily" ELSE "None"

\* What the program makes of a reply, or of a part of it, once it is complete.
ReplyFailure(reply) ==
    CASE step = "recv_method" ->
           IF reply[2].value # 0 THEN "SocksAuthMethodUnsupported"
           ELSE IF NextAddress = "OTHER_FAMILY" THEN "SocksUnsupportedTargetFamily"
           ELSE "None"
      [] step = "recv_reply" ->
           IF reply[2].value # 0 THEN "SocksConnectFailed"
           ELSE IF AddressLength(reply[4].value) = 0 THEN "SocksUnsupportedTargetFamily"
           ELSE "None"
      [] OTHER -> "None"

StepAfter(reply) ==
    CASE step = "recv_method" -> "send_connect"
      [] step = "recv_reply" /\ reply[4].value = 3 -> "recv_length"
      [] step = "recv_reply" /\ reply[4].value # 3 -> "recv_address"
      [] step = "recv_length" -> "recv_address"
      [] step = "recv_address" /\ hop < Proxies -> "begin"
      [] OTHER -> "connected"

WantedAfter(reply) ==
    CASE step = "recv_reply" -> AddressLength(reply[4].value)
      [] step = "recv_length" -> reply[1].value + 2
      [] OTHER -> 0

\* Inside socket_recv.
Receiving == step \in {"recv_method", "recv_reply", "recv_length", "recv_address"}

\* One iteration of socket_recv: recv returns n bytes.
Recv(n) ==
    /\ result = "None"
    /\ Receiving
    /\ n <= Len(inbox)
    /\ processed + n <= wanted
    /\ inbox' = SubSeq(inbox, n + 1, Len(inbox))
    /\ LET reply == data \o SubSeq(inbox, 1, n)
       IN  IF processed + n < wanted
           THEN data' = reply /\ processed' = processed + n
                /\ UNCHANGED <<hop, step, wanted, result>>
           ELSE /\ result' = ReplyFailure(reply)
                /\ data' = <<>>
                /\ processed' = 0
                /\ step' = IF result' = "None" THEN StepAfter(reply) ELSE step
                /\ wanted' = IF result' = "None" THEN WantedAfter(reply) ELSE wanted
                /\ hop' = IF step = "recv_address" /\ hop < Proxies THEN hop + 1 ELSE hop
    /\ UNCHANGED <<route, requests, answered, tunnel, closed, refusals>>

\* Mutant: a closed connection is not noticed.
PeerClosedIgnored == FALSE

\* recv returns 0.
PeerClosed ==
    /\ result = "None"
    /\ Receiving
    /\ inbox = <<>> /\ closed
    /\ result' = "PeerClosed"
    /\ UNCHANGED <<route, hop, step, processed, data, wanted, requests, peer_vars>>

RecvFailed ==
    /\ IoErrors
    /\ result = "None"
    /\ Receiving
    /\ result' = "RecvFailed"
    /\ UNCHANGED <<route, hop, step, processed, data, wanted, requests, peer_vars>>

-----------------------------------------------------------------------------
(* The proxies and the peer *)

Byte(of, value) == [of |-> of, value |-> value]
Bytes(of, count) == [k \in 1..count |-> Byte(of, 0)]

\* The reply to a CONNECT, with a bound address of this type.
ConnectReply(rep, type, length) ==
    <<Byte("proxy", 5), Byte("proxy", rep), Byte("proxy", 0), Byte("proxy", type)>>
    \o CASE type = 1 -> Bytes("proxy", 4 + 2)
         [] type = 4 -> Bytes("proxy", 16 + 2)
         [] type = 3 -> <<Byte("proxy", length)>> \o Bytes("proxy", length + 2)
         [] OTHER -> <<>>

\* A proxy answers a request it has received completely.
ProxyAnswer(verdict, type, length) ==
    /\ ~closed
    /\ answered < Len(requests)
    /\ answered' = answered + 1
    /\ LET kind == requests[answered + 1].kind
       IN  /\ inbox' = inbox \o IF kind = "method"
                                THEN <<Byte("proxy", 5), Byte("proxy", verdict)>>
                                ELSE ConnectReply(verdict, type, length)
           /\ refusals' = refusals
                \cup (IF verdict # 0 THEN {kind} ELSE {})
                \cup (IF kind = "connect" /\ type \notin {1, 3, 4} THEN {"type"} ELSE {})
    /\ UNCHANGED <<own_vars, requests, tunnel, closed>>

\* The peer's session starts sending as soon as the last proxy has connected.
PeerSends ==
    /\ ~closed
    /\ answered = 2 * Proxies
    /\ refusals = {}
    /\ step # "connect"
    /\ tunnel < MaxTunnelBytes
    /\ tunnel' = tunnel + 1
    /\ inbox' = Append(inbox, Byte("tunnel", tunnel + 1))
    /\ UNCHANGED <<own_vars, requests, answered, closed, refusals>>

Close ==
    /\ step # "connect"
    /\ ~closed
    /\ closed' = TRUE
    /\ UNCHANGED <<own_vars, requests, answered, inbox, tunnel, refusals>>

-----------------------------------------------------------------------------
Init ==
    /\ route \in Routes
    /\ hop = 1
    /\ step = "connect"
    /\ processed = 0
    /\ data = <<>>
    /\ wanted = 0
    /\ result = "None"
    /\ requests = <<>>
    /\ answered = 0
    /\ inbox = <<>>
    /\ tunnel = 0
    /\ closed = FALSE
    /\ refusals = {}

\* What the program does when no system call fails.
Progress ==
    \/ ConnectFirst \/ Begin \/ PeerClosed
    \/ \E n \in 1..(4 + 1 + 255 + 2) : Send(n) \/ Recv(n)

Run == Progress \/ SendFailed \/ RecvFailed

Answer ==
    \E verdict \in {0, 255}, type \in {1, 3, 4, 2}, length \in ReplyLengths :
        ProxyAnswer(verdict, type, length)

Next == Run \/ Answer \/ PeerSends \/ Close

Spec == Init /\ [][Next]_vars

\* The program runs, and a proxy answers or closes the connection: connect_to
\* has no timeout of its own.  No system call has to fail.
FairSpec == Spec /\ WF_vars(Progress) /\ WF_vars(Answer \/ Close)

-----------------------------------------------------------------------------
(* Properties *)

\* When connect_to succeeds, every byte of every reply has been read and none
\* of the peer's: the session's receiver starts at the first byte of a frame.
StreamAligned ==
    step = "connected" =>
        /\ Len(inbox) = tunnel
        /\ \A i \in DOMAIN inbox : inbox[i] = Byte("tunnel", i)

\* What the proxies are asked, in order: each one is greeted and then asked to
\* connect to the address after its own.
Expected ==
    [r \in 1..(2 * Proxies) |->
        LET h == (r + 1) \div 2
        IN  IF r % 2 = 1 THEN [hop |-> h, kind |-> "method", address |-> "none"]
            ELSE [hop |-> h, kind |-> "connect", address |-> route[h + 1]]]
RequestsInOrder ==
    /\ IsPrefix(requests, Expected)
    /\ step = "connected" => requests = Expected

\* connect_to succeeds only if every proxy agreed, and blames a proxy only if
\* one really refused; this needs every byte of every reply to be read as what
\* it is, wherever recv cuts the stream.
VerdictHonest ==
    /\ step = "connected" => refusals = {}
    /\ result = "SocksAuthMethodUnsupported" => "method" \in refusals
    /\ result = "SocksConnectFailed" => "connect" \in refusals
    /\ result = "SocksUnsupportedTargetFamily"
         => "type" \in refusals \/ \E i \in DOMAIN route : route[i] = "OTHER_FAMILY"

\* connect_to returns.
ConnectReturns == <>(result # "None" \/ step = "connected")

=============================================================================
