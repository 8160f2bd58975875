-------------------------- MODULE ConnectionProofs --------------------------
(***************************************************************************)
(* Proofs about Connection, for every chain of proxies, every length of    *)
(* host names and every way recv cuts the stream: the proxies are asked    *)
(* for the right addresses in the right order, each reply is read to its   *)
(* last byte and no further, and a proxy is blamed only if it refused.     *)
(***************************************************************************)
EXTENDS Connection, SequenceTheorems, TLAPS

-----------------------------------------------------------------------------
(* The invariant *)

Steps == {"connect", "begin", "send_method", "recv_method", "send_connect", "recv_reply",
          "recv_length", "recv_address", "connected"}
StreamBytes == [of : {"proxy", "tunnel"}, value : Nat]
Requests == [hop : Nat, kind : {"method", "connect"}, address : AddressKinds \cup {"none"}]

TypeInv ==
    /\ route \in Seq(AddressKinds) /\ Len(route) >= 1
    /\ hop \in Nat \ {0}
    /\ step \in Steps
    /\ processed \in Nat /\ wanted \in Nat
    /\ data \in Seq(StreamBytes) /\ inbox \in Seq(StreamBytes)
    /\ requests \in Seq(Requests)
    /\ answered \in 0..Len(requests)
    /\ tunnel \in Nat
    /\ refusals \in SUBSET {"method", "connect", "type"}

\* How many requests have been sent at a step.
Asked ==
    CASE step = "connect" -> 0
      [] step \in {"begin", "send_method"} -> 2 * (hop - 1)
      [] step \in {"recv_method", "send_connect"} -> 2 * hop - 1
      [] step \in {"recv_reply", "recv_length", "recv_address"} -> 2 * hop
      [] OTHER -> 2 * Proxies

\* Where connect_to is in its talk with the proxies: an answer is missing only
\* when it waits for the first byte of a reply, and the peer's bytes come
\* behind the last one.
Course ==
    /\ step = "connect" => hop = 1
    /\ step \notin {"connect", "connected"} => hop <= Proxies
    /\ Len(requests) = Asked
    /\ step \notin {"recv_method", "recv_reply"} => answered = Len(requests)
    /\ answered + 1 >= Len(requests)
    /\ tunnel # 0 => answered = 2 * Proxies

\* How many bytes of the reply are left, from the first that the current
\* socket_recv has read on.
Remaining(bytes) ==
    CASE step = "recv_method" -> 2
      [] step = "recv_reply" /\ bytes[4].value = 3 -> 4 + 1 + bytes[5].value + 2
      [] step = "recv_reply" /\ bytes[4].value # 3 -> 4 + AddressLength(bytes[4].value)
      [] step = "recv_length" -> 1 + bytes[1].value + 2
      [] step = "recv_address" -> wanted
      [] OTHER -> 0

\* How many socket_recv is asked for, and has not read all of.
Asking ==
    /\ step = "recv_method" => wanted = 2
    /\ step = "recv_reply" => wanted = 4
    /\ step = "recv_length" => wanted = 1
    /\ Receiving => processed = Len(data) /\ processed < wanted
    /\ ~Receiving => data = <<>>

\* The bytes that tell how long the reply is, and what it says, are there.
Enough(bytes) ==
    /\ step = "recv_method" => Len(bytes) >= 2
    /\ step = "recv_reply" => Len(bytes) >= 4 /\ (bytes[4].value = 3 => Len(bytes) >= 5)
    /\ step = "recv_length" => Len(bytes) >= 1

\* n bytes, and behind them what the peer has sent.
ThenTunnel(bytes, n) ==
    Len(bytes) = n + tunnel /\ \A k \in 1..tunnel : bytes[n + k] = Byte("tunnel", k)

\* What a reply, or what is left of it, says of the proxy.
Tells(bytes) ==
    /\ step = "recv_method" => IF bytes[2].value # 0 THEN "method" \in refusals
                               ELSE refusals = {}
    /\ step = "recv_reply" =>
          /\ bytes[2].value # 0 => "connect" \in refusals
          /\ AddressLength(bytes[4].value) = 0 => "type" \in refusals
          /\ bytes[2].value = 0 /\ AddressLength(bytes[4].value) # 0 => refusals = {}
    /\ step \notin {"recv_method", "recv_reply"} => refusals = {}

\* What has been read and not looked at yet, and what waits in the socket.
Reply == data \o inbox
Socket ==
    IF answered = Len(requests)
    THEN Enough(Reply) /\ ThenTunnel(Reply, Remaining(Reply)) /\ Tells(Reply)
    ELSE data = <<>> /\ inbox = <<>> /\ refusals = {}

\* The requests so far are the first ones expected.
Requested ==
    /\ Len(requests) <= 2 * Proxies
    /\ \A r \in 1..Len(requests) : requests[r] = Expected[r]

\* A proxy is blamed only for what it did.
Blamed ==
    /\ step = "connected" => result = "None"
    /\ result = "SocksAuthMethodUnsupported" => "method" \in refusals
    /\ result = "SocksConnectFailed" => "connect" \in refusals
    /\ result = "SocksUnsupportedTargetFamily"
         => "type" \in refusals \/ \E i \in DOMAIN route : route[i] = "OTHER_FAMILY"

ConnectionInv ==
    /\ TypeInv /\ Requested /\ Blamed
    /\ result = "None" => Course /\ Asking /\ Socket

-----------------------------------------------------------------------------
(* Bytes read and bytes left *)

\* What has been received once recv has returned n bytes more, what is left in
\* the socket, and both together.
Received(received, waiting, n) == received \o SubSeq(waiting, 1, n)
Left(waiting, n) == SubSeq(waiting, n + 1, Len(waiting))
Whole(received, waiting) == received \o waiting

\* recv takes bytes from the front of the socket, and loses none.
LEMMA RecvTakes ==
    ASSUME NEW received \in Seq(StreamBytes), NEW waiting \in Seq(StreamBytes),
           NEW n \in Nat, n <= Len(waiting)
    PROVE  /\ Received(received, waiting, n) \in Seq(StreamBytes)
           /\ Left(waiting, n) \in Seq(StreamBytes)
           /\ Whole(received, waiting) \in Seq(StreamBytes)
           /\ Len(Received(received, waiting, n)) = Len(received) + n
           /\ Len(Left(waiting, n)) = Len(waiting) - n
           /\ Len(Whole(received, waiting)) = Len(received) + Len(waiting)
           /\ \A k \in 1..(Len(received) + n) :
                 Received(received, waiting, n)[k] = Whole(received, waiting)[k]
           /\ \A k \in 1..(Len(waiting) - n) :
                 Left(waiting, n)[k] = Whole(received, waiting)[Len(received) + n + k]
<1> DEFINE front == SubSeq(waiting, 1, n)
           back == SubSeq(waiting, n + 1, Len(waiting))
<1>1. /\ front \in Seq(StreamBytes) /\ Len(front) = n
      /\ \A k \in 1..n : front[k] = waiting[k]
  OBVIOUS
<1>2. /\ back \in Seq(StreamBytes) /\ Len(back) = Len(waiting) - n
      /\ \A k \in 1..(Len(waiting) - n) : back[k] = waiting[n + k]
  OBVIOUS
<1> HIDE DEF front, back
<1> DEFINE first == received \o front
           all == received \o waiting
<1>3. /\ first \in Seq(StreamBytes) /\ Len(first) = Len(received) + n
      /\ \A k \in 1..Len(received) : first[k] = received[k]
      /\ \A k \in 1..n : first[Len(received) + k] = front[k]
  BY <1>1
<1>4. /\ all \in Seq(StreamBytes) /\ Len(all) = Len(received) + Len(waiting)
      /\ \A k \in 1..Len(received) : all[k] = received[k]
      /\ \A k \in 1..Len(waiting) : all[Len(received) + k] = waiting[k]
  OBVIOUS
<1> HIDE DEF first, all
<1>5. Len(received) \in Nat /\ Len(waiting) \in Nat
  OBVIOUS
<1>6. ASSUME NEW k \in 1..(Len(received) + n) PROVE first[k] = all[k]
  <2>1. CASE k <= Len(received)
    BY <1>3, <1>4, <1>5, <2>1
  <2>2. CASE ~(k <= Len(received))
    <3>1. PICK j \in 1..n : k = Len(received) + j
      <4>1. k - Len(received) \in 1..n /\ k = Len(received) + (k - Len(received))
        BY <1>5, <2>2
      <4> QED BY <4>1
    <3>2. j \in 1..Len(waiting)
      BY <1>5
    <3> QED BY <1>1, <1>3, <1>4, <3>1, <3>2
  <2> QED BY <2>1, <2>2
<1>7. ASSUME NEW k \in 1..(Len(waiting) - n) PROVE back[k] = all[Len(received) + n + k]
  <2>1. PICK j \in 1..Len(waiting) : j = n + k
    BY <1>5
  <2>2. back[k] = waiting[j]
    BY <1>2, <2>1
  <2>3. all[Len(received) + j] = waiting[j]
    BY <1>4
  <2>4. Len(received) + j = Len(received) + n + k
    BY <1>5, <2>1
  <2> QED BY <2>2, <2>3, <2>4
<1> QED BY <1>2, <1>3, <1>4, <1>6, <1>7 DEF Received, Left, Whole, front, back, first, all

\* The whole is both parts.
LEMMA WholeFacts ==
    ASSUME NEW s \in Seq(StreamBytes), NEW t \in Seq(StreamBytes)
    PROVE  /\ Whole(s, t) \in Seq(StreamBytes) /\ Len(Whole(s, t)) = Len(s) + Len(t)
           /\ \A k \in 1..Len(s) : Whole(s, t)[k] = s[k]
           /\ \A k \in 1..Len(t) : Whole(s, t)[Len(s) + k] = t[k]
  BY DEF Whole

\* Two sequences with the same elements.
LEMMA SameBytes ==
    ASSUME NEW s \in Seq(StreamBytes), NEW t \in Seq(StreamBytes), Len(s) = Len(t),
           \A k \in 1..Len(s) : s[k] = t[k]
    PROVE  s = t
  OBVIOUS

\* A byte that arrives is the last of the whole.
LEMMA AppendWhole ==
    ASSUME NEW s \in Seq(StreamBytes), NEW t \in Seq(StreamBytes), NEW b \in StreamBytes
    PROVE  Append(Whole(s, t), b) = Whole(s, Append(t, b))
<1> DEFINE all == Whole(s, t)
           waiting == Append(t, b)
           both == Whole(s, waiting)
           longer == Append(all, b)
<1>1. /\ waiting \in Seq(StreamBytes) /\ Len(waiting) = Len(t) + 1
      /\ \A k \in 1..Len(t) : waiting[k] = t[k]
      /\ waiting[Len(t) + 1] = b
  OBVIOUS
<1> HIDE DEF waiting
<1>2. /\ all \in Seq(StreamBytes) /\ Len(all) = Len(s) + Len(t)
      /\ \A k \in 1..Len(s) : all[k] = s[k]
      /\ \A k \in 1..Len(t) : all[Len(s) + k] = t[k]
  BY WholeFacts
<1>3. /\ both \in Seq(StreamBytes) /\ Len(both) = Len(s) + Len(waiting)
      /\ \A k \in 1..Len(s) : both[k] = s[k]
      /\ \A k \in 1..Len(waiting) : both[Len(s) + k] = waiting[k]
  BY <1>1, WholeFacts
<1> HIDE DEF all, both
<1>4. /\ longer \in Seq(StreamBytes) /\ Len(longer) = Len(all) + 1
      /\ \A k \in 1..Len(all) : longer[k] = all[k]
      /\ longer[Len(all) + 1] = b
  BY <1>2
<1> HIDE DEF longer
<1>5. Len(s) \in Nat /\ Len(t) \in Nat
  OBVIOUS
<1>6. ASSUME NEW k \in 1..Len(longer) PROVE longer[k] = both[k]
  <2>1. CASE k <= Len(s)
    BY <1>2, <1>3, <1>4, <1>5, <2>1
  <2>2. CASE k > Len(s)
    <3>1. PICK j \in 1..Len(waiting) : k = Len(s) + j
      <4>1. k - Len(s) \in 1..Len(waiting) /\ k = Len(s) + (k - Len(s))
        BY <1>1, <1>2, <1>4, <1>5, <2>2
      <4> QED BY <4>1
    <3>2. both[k] = waiting[j]
      BY <1>3, <3>1
    <3>3. CASE j = Len(t) + 1
      <4>1. k = Len(all) + 1
        BY <1>2, <1>5, <3>1, <3>3
      <4> QED BY <1>1, <1>4, <3>2, <3>3, <4>1
    <3>4. CASE j # Len(t) + 1
      <4>1. j \in 1..Len(t) /\ k \in 1..Len(all)
        BY <1>1, <1>2, <1>5, <3>1, <3>4
      <4>2. all[k] = t[j]
        BY <1>2, <3>1, <4>1
      <4> QED BY <1>1, <1>4, <3>2, <4>1, <4>2
    <3> QED BY <3>3, <3>4
  <2> QED BY <1>2, <1>4, <1>5, <2>1, <2>2
<1>7. Len(longer) = Len(both)
  BY <1>1, <1>2, <1>3, <1>4, <1>5
<1> QED BY <1>3, <1>4, <1>6, <1>7, SameBytes DEF all, both, longer, waiting

\* Moving bytes from the socket to those received keeps the whole.
LEMMA RecvKeeps ==
    ASSUME NEW received \in Seq(StreamBytes), NEW waiting \in Seq(StreamBytes),
           NEW n \in Nat, n <= Len(waiting)
    PROVE  Whole(Received(received, waiting, n), Left(waiting, n)) = Whole(received, waiting)
<1> DEFINE first == Received(received, waiting, n)
           left == Left(waiting, n)
           all == Whole(received, waiting)
           both == Whole(first, left)
<1>1. /\ first \in Seq(StreamBytes) /\ left \in Seq(StreamBytes) /\ all \in Seq(StreamBytes)
      /\ Len(first) = Len(received) + n /\ Len(left) = Len(waiting) - n
      /\ Len(all) = Len(received) + Len(waiting)
      /\ \A k \in 1..Len(first) : first[k] = all[k]
      /\ \A k \in 1..Len(left) : left[k] = all[Len(first) + k]
  <2> HIDE DEF first, left, all
  <2>1. /\ first \in Seq(StreamBytes) /\ left \in Seq(StreamBytes) /\ all \in Seq(StreamBytes)
        /\ Len(first) = Len(received) + n /\ Len(left) = Len(waiting) - n
        /\ Len(all) = Len(received) + Len(waiting)
        /\ \A k \in 1..(Len(received) + n) : first[k] = all[k]
        /\ \A k \in 1..(Len(waiting) - n) : left[k] = all[Len(received) + n + k]
    BY RecvTakes, ZenonT(40) DEF first, left, all
  <2> QED BY <2>1
<1> HIDE DEF first, left, all
<1>2. /\ both \in Seq(StreamBytes) /\ Len(both) = Len(first) + Len(left)
      /\ \A k \in 1..Len(first) : both[k] = first[k]
      /\ \A k \in 1..Len(left) : both[Len(first) + k] = left[k]
  BY <1>1, WholeFacts
<1> HIDE DEF both
<1>3. Len(received) \in Nat /\ Len(waiting) \in Nat
  OBVIOUS
<1>4. ASSUME NEW k \in 1..Len(both) PROVE both[k] = all[k]
  <2>1. CASE k <= Len(first)
    BY <1>1, <1>2, <1>3, <2>1, SMTT(30)
  <2>2. CASE ~(k <= Len(first))
    <3>1. PICK j \in 1..Len(left) : k = Len(first) + j
      <4>1. k - Len(first) \in 1..Len(left) /\ k = Len(first) + (k - Len(first))
        BY <1>1, <1>2, <1>3, <2>2
      <4> QED BY <4>1
    <3> QED BY <1>1, <1>2, <3>1
  <2> QED BY <2>1, <2>2
<1>5. Len(both) = Len(all)
  BY <1>1, <1>2, <1>3
<1> QED BY <1>1, <1>2, <1>4, <1>5, SameBytes DEF first, left, all, both


-----------------------------------------------------------------------------
(* Steps that read nothing *)

\* What each proxy is asked.
LEMMA ExpectedIs ==
    ASSUME TypeInv, NEW h \in 1..Proxies
    PROVE  /\ Expected[2 * h - 1] = [hop |-> h, kind |-> "method", address |-> "none"]
           /\ Expected[2 * h] = [hop |-> h, kind |-> "connect", address |-> route[h + 1]]
<1>1. Proxies \in Nat /\ h \in Nat
  BY DEF TypeInv, Proxies
<1>2. 2 * h - 1 \in 1..(2 * Proxies) /\ ((2 * h - 1) + 1) \div 2 = h /\ (2 * h - 1) % 2 = 1
  BY <1>1
<1>3. 2 * h \in 1..(2 * Proxies) /\ (2 * h + 1) \div 2 = h /\ (2 * h) % 2 # 1
  BY <1>1
<1> QED BY <1>2, <1>3 DEF Expected

\* The requests stay what they are.
LEMMA RequestedSame == Requested /\ UNCHANGED <<route, requests>> => Requested'
  BY DEF Requested, Expected, Proxies

\* Nothing has been asked or answered at the start.
LEMMA InitConnection == Init => ConnectionInv
<1> SUFFICES ASSUME Init PROVE ConnectionInv
  OBVIOUS
<1>1. /\ route \in Seq(AddressKinds) /\ route # <<>>
      /\ hop = 1 /\ step = "connect" /\ processed = 0 /\ data = <<>> /\ wanted = 0
      /\ result = "None" /\ requests = <<>> /\ answered = 0 /\ inbox = <<>> /\ tunnel = 0
      /\ refusals = {}
  BY ConnectionAssumption DEF Init
<1>2. Len(route) \in Nat /\ Len(route) >= 1 /\ Proxies \in Nat
  BY <1>1 DEF Proxies
<1>3. TypeInv
  BY <1>1, <1>2 DEF TypeInv, Steps
<1>4. Requested /\ Blamed
  BY <1>1, <1>2 DEF Requested, Blamed
<1>5. Course
  BY <1>1, <1>2 DEF Course, Asked
<1>6. Asking
  BY <1>1 DEF Asking, Receiving
<1>7. Socket
  <2>1. Reply = <<>> /\ Len(Reply) = 0
    BY <1>1 DEF Reply
  <2> QED BY <1>1, <2>1 DEF Socket, Enough, ThenTunnel, Remaining, Tells
<1> QED BY <1>3, <1>4, <1>5, <1>6, <1>7 DEF ConnectionInv

\* A failure leaves nothing to say but who is to blame.
LEMMA FailedStep ==
    ASSUME ConnectionInv, TypeInv', UNCHANGED <<route, requests>>,
           result' # "None", step' # "connected", refusals \subseteq refusals',
           result' # result => result' \notin {"SocksAuthMethodUnsupported",
                                    "SocksConnectFailed", "SocksUnsupportedTargetFamily"}
    PROVE  ConnectionInv'
<1>1. Requested'
  BY RequestedSame DEF ConnectionInv
<1>2. Blamed'
  BY DEF ConnectionInv, Blamed
<1> QED BY <1>1, <1>2 DEF ConnectionInv

\* The first connection leads to the first proxy, or is the only one.
LEMMA ConnectFirstStep == ConnectionInv /\ ConnectFirst => ConnectionInv'
<1> SUFFICES ASSUME ConnectionInv, ConnectFirst PROVE ConnectionInv'
  OBVIOUS
<1>1. /\ step = "connect" /\ result = "None"
      /\ UNCHANGED <<route, hop, processed, data, wanted, requests, answered, inbox, tunnel,
                     closed, refusals>>
      /\ result' \in {"None", "ResolveFailed", "SocketCreateFailed", "ConnectFailed"}
      /\ step' = IF result' # "None" THEN step
                 ELSE IF Proxies = 0 THEN "connected" ELSE "begin"
  BY DEF ConnectFirst, ConnectFailures, peer_vars
<1>2. /\ TypeInv /\ Requested /\ Blamed /\ Course /\ Asking /\ Socket
      /\ Proxies \in Nat /\ hop \in Nat \ {0} /\ step \in Steps
  BY <1>1 DEF ConnectionInv, TypeInv, Proxies
<1>3. TypeInv'
  BY <1>1, <1>2 DEF TypeInv, Steps
<1>4. CASE result' # "None"
  <2>1. step' # "connected"
    BY <1>1, <1>4
  <2> QED BY <1>1, <1>3, <1>4, <2>1, FailedStep
<1>5. CASE result' = "None"
  <2>1. hop = 1
    BY <1>1, <1>2 DEF Course
  <2>2. Requested'
    BY <1>1, <1>2, RequestedSame
  <2>3. Blamed'
    BY <1>1, <1>2, <1>5 DEF Blamed
  <2>4. Course'
    <3>1. Len(requests) = 0 /\ answered = 0 /\ Proxies' = Proxies
      BY <1>1, <1>2 DEF Course, Asked, Proxies
    <3>2. Asked' = 0
      <4>1. CASE Proxies = 0
        <5>1. step' = "connected"
          BY <1>1, <1>5, <4>1
        <5> QED BY <3>1, <4>1, <5>1 DEF Asked
      <4>2. CASE Proxies # 0
        <5>1. step' = "begin" /\ hop' = 1
          BY <1>1, <1>5, <2>1, <4>2
        <5> QED BY <5>1 DEF Asked
      <4> QED BY <4>1, <4>2
    <3>3. step' \notin {"connect", "connected"} => hop' <= Proxies'
      BY <1>1, <1>2, <1>5, <2>1, <3>1
    <3>4. step' # "connect"
      BY <1>1, <1>5
    <3> QED BY <1>1, <1>2, <3>1, <3>2, <3>3, <3>4 DEF Course
  <2>5. Asking'
    BY <1>1, <1>2, <1>5 DEF Asking, Receiving
  <2>6. Socket'
    BY <1>1, <1>2, <1>5 DEF Socket, Reply, Enough, ThenTunnel, Remaining, Tells, Course, Asked
  <2> QED BY <1>3, <2>2, <2>3, <2>4, <2>5, <2>6 DEF ConnectionInv
<1> QED BY <1>4, <1>5


\* The check of a host name's length sends and reads nothing.
LEMMA BeginStep == ConnectionInv /\ Begin => ConnectionInv'
<1> SUFFICES ASSUME ConnectionInv, Begin PROVE ConnectionInv'
  OBVIOUS
<1>1. /\ step = "begin" /\ result = "None"
      /\ UNCHANGED <<route, hop, data, wanted, requests, answered, inbox, tunnel, closed,
                     refusals>>
      /\ processed' = 0
      /\ \/ result' = "SocksHostnameTooLong" /\ step' = step
         \/ result' = "None" /\ step' = "send_method"
  BY DEF Begin, peer_vars
<1>2. TypeInv /\ Requested /\ Blamed /\ Course /\ Asking /\ Socket
  BY <1>1 DEF ConnectionInv
<1>3. TypeInv'
  BY <1>1, <1>2 DEF TypeInv, Steps
<1>4. CASE result' = "SocksHostnameTooLong"
  BY <1>1, <1>3, <1>4, FailedStep
<1>5. CASE result' = "None"
  <2>1. step' = "send_method"
    BY <1>1, <1>5
  <2>2. Requested' /\ Blamed'
    BY <1>1, <1>2, <1>5, <2>1, RequestedSame DEF Blamed
  <2>3. Course'
    BY <1>1, <1>2, <1>5, <2>1 DEF Course, Asked, Proxies
  <2>4. Asking'
    BY <1>1, <1>2, <1>5, <2>1 DEF Asking, Receiving
  <2>5. Socket'
    BY <1>1, <1>2, <1>5, <2>1 DEF Socket, Reply, Enough, ThenTunnel, Remaining, Tells
  <2> QED BY <1>3, <2>2, <2>3, <2>4, <2>5 DEF ConnectionInv
<1> QED BY <1>1, <1>4, <1>5

\* System calls that fail, and a connection closed by the other side.
LEMMA FailureStep == ConnectionInv /\ (SendFailed \/ PeerClosed \/ RecvFailed) => ConnectionInv'
<1> SUFFICES ASSUME ConnectionInv, SendFailed \/ PeerClosed \/ RecvFailed PROVE ConnectionInv'
  OBVIOUS
<1>1. /\ UNCHANGED <<route, hop, step, processed, data, wanted, requests, answered, inbox,
                     tunnel, closed, refusals>>
      /\ step # "connected"
      /\ result' \in {"SendFailed", "SendReturnedZero", "PeerClosed", "RecvFailed"}
  BY DEF SendFailed, PeerClosed, RecvFailed, Receiving, peer_vars
<1>2. TypeInv'
  BY <1>1 DEF ConnectionInv, TypeInv
<1> QED BY <1>1, <1>2, FailedStep

\* Sending a part of a request changes nothing else; behind its last byte the
\* answer is read, of which there is nothing yet.
LEMMA SendStep == ASSUME ConnectionInv, NEW n \in 1..(4 + 1 + 255 + 2), Send(n) PROVE ConnectionInv'
<1>1. /\ result = "None" /\ result' = result /\ step \in {"send_method", "send_connect"}
      /\ UNCHANGED <<route, hop, answered, inbox, tunnel, closed, refusals>>
      /\ processed' = 0 \/ processed' = processed + n
  BY DEF Send, peer_vars
<1>2. /\ TypeInv /\ Requested /\ Blamed /\ Course /\ Asking /\ Socket
      /\ Proxies \in Nat /\ hop \in 1..Proxies /\ Proxies' = Proxies /\ data = <<>>
  BY <1>1 DEF ConnectionInv, TypeInv, Proxies, Course, Asking, Receiving
<1>3. CASE UNCHANGED <<step, data, wanted, requests>>
  <2>1. TypeInv'
    <3>1. processed' \in Nat
      <4>1. processed \in Nat /\ n \in Nat
        BY <1>2 DEF TypeInv
      <4>2. CASE processed' = 0
        BY <4>2
      <4>3. CASE processed' = processed + n
        BY <4>1, <4>3
      <4> QED BY <1>1, <4>2, <4>3
    <3>2. /\ route' = route /\ hop' = hop /\ step' = step /\ wanted' = wanted /\ data' = data
          /\ inbox' = inbox /\ requests' = requests /\ answered' = answered
          /\ tunnel' = tunnel /\ refusals' = refusals
      BY <1>1, <1>3
    <3> QED BY <1>2, <3>1, <3>2 DEF TypeInv
  <2>2. Requested' /\ Blamed'
    BY <1>1, <1>2, <1>3, RequestedSame DEF Blamed
  <2>3. Course'
    BY <1>1, <1>2, <1>3 DEF Course, Asked, Proxies
  <2>4. Asking'
    BY <1>1, <1>2, <1>3 DEF Asking, Receiving
  <2>5. Socket'
    BY <1>1, <1>2, <1>3 DEF Socket, Reply, Enough, ThenTunnel, Remaining, Tells
  <2> QED BY <2>1, <2>2, <2>3, <2>4, <2>5 DEF ConnectionInv
<1>4. CASE ~UNCHANGED <<step, data, wanted, requests>>
  <2>1. PICK request : request = IF step = "send_method"
                                 THEN [hop |-> hop, kind |-> "method", address |-> "none"]
                                 ELSE [hop |-> hop, kind |-> "connect", address |-> NextAddress]
    OBVIOUS
  <2>2. /\ processed' = 0 /\ data' = <<>> /\ requests' = Append(requests, request)
        /\ step = "send_method" => step' = "recv_method" /\ wanted' = 2
        /\ step = "send_connect" => step' = "recv_reply" /\ wanted' = 4
    BY <1>1, <1>4, <2>1 DEF Send
  <2>3. request \in Requests
    <3>1. route[hop + 1] \in AddressKinds
      BY <1>2 DEF TypeInv, Proxies
    <3> QED BY <1>2, <2>1, <3>1 DEF Requests, NextAddress
  <2>4. /\ requests' \in Seq(Requests) /\ Len(requests') = Len(requests) + 1
        /\ requests'[Len(requests) + 1] = request
        /\ \A r \in 1..Len(requests) : requests'[r] = requests[r]
        /\ Len(requests) \in Nat /\ answered \in Nat
    BY <1>2, <2>2, <2>3 DEF TypeInv
  <2>5. /\ answered = Len(requests) /\ Len(requests) = Asked
        /\ step = "send_method" => Len(requests) = 2 * hop - 2
        /\ step = "send_connect" => Len(requests) = 2 * hop - 1
    BY <1>1, <1>2 DEF Course, Asked
  <2>6. TypeInv'
    <3>1. step' \in Steps /\ wanted' \in Nat /\ data' \in Seq(StreamBytes)
      BY <1>1, <2>2 DEF Steps
    <3> QED BY <1>1, <1>2, <2>2, <2>4, <3>1 DEF TypeInv
  <2>7. Requested'
    <3>1. request = Expected[Len(requests) + 1]
      <4>1. CASE step = "send_method"
        <5>1. Len(requests) + 1 = 2 * hop - 1
          BY <1>2, <2>5, <4>1
        <5> QED BY <1>2, <2>1, <4>1, <5>1, ExpectedIs
      <4>2. CASE step = "send_connect"
        <5>1. Len(requests) + 1 = 2 * hop
          BY <1>2, <2>5, <4>2
        <5> QED BY <1>2, <2>1, <4>2, <5>1, ExpectedIs DEF NextAddress
      <4> QED BY <1>1, <4>1, <4>2
    <3>2. Expected' = Expected
      BY <1>1 DEF Expected, Proxies
    <3>3. Len(requests') <= 2 * Proxies'
      BY <1>1, <1>2, <2>4, <2>5
    <3>4. \A r \in 1..Len(requests') : requests'[r] = Expected[r]
      <4> SUFFICES ASSUME NEW r \in 1..Len(requests') PROVE requests'[r] = Expected[r]
        OBVIOUS
      <4>1. r \in 1..Len(requests) \/ r = Len(requests) + 1
        BY <2>4
      <4> QED BY <1>2, <2>4, <3>1, <4>1 DEF Requested
    <3> QED BY <3>2, <3>3, <3>4 DEF Requested
  <2>8. Blamed'
    BY <1>1, <1>2, <2>2 DEF Blamed
  <2>9. Course'
    <3>1. step' \in {"recv_method", "recv_reply"}
      BY <1>1, <2>2
    <3>2. Len(requests') = Asked'
      BY <1>1, <1>2, <2>2, <2>4, <2>5 DEF Asked
    <3> QED BY <1>1, <1>2, <2>4, <2>5, <3>1, <3>2 DEF Course
  <2>10. Asking'
    BY <1>1, <2>2 DEF Asking, Receiving
  <2>11. Socket'
    <3>1. answered # Len(requests')
      BY <2>4, <2>5
    <3>2. tunnel = 0
      BY <1>1, <1>2, <2>5 DEF Course
    <3>3. inbox = <<>> /\ refusals = {}
      <4>1. Reply = inbox /\ inbox \in Seq(StreamBytes)
        BY <1>2 DEF Reply, TypeInv
      <4>2. Len(inbox) = 0 /\ refusals = {}
        BY <1>1, <1>2, <2>5, <3>2, <4>1 DEF Socket, Enough, ThenTunnel, Remaining, Tells
      <4> QED BY <4>1, <4>2
    <3> QED BY <1>1, <2>2, <3>1, <3>3 DEF Socket
  <2> QED BY <1>1, <2>6, <2>7, <2>8, <2>9, <2>10, <2>11 DEF ConnectionInv
<1> QED BY <1>3, <1>4


-----------------------------------------------------------------------------
(* The proxies and the peer *)

\* A byte is one, with its value.
LEMMA ByteIs ==
    ASSUME NEW of \in {"proxy", "tunnel"}, NEW value \in Nat
    PROVE  Byte(of, value) \in StreamBytes /\ Byte(of, value).value = value
  BY DEF Byte, StreamBytes

\* Bytes whose value the program does not look at.
LEMMA BytesType ==
    ASSUME NEW count \in Nat
    PROVE  Bytes("proxy", count) \in Seq(StreamBytes) /\ Len(Bytes("proxy", count)) = count
<1>1. Byte("proxy", 0) \in StreamBytes
  BY DEF Byte, StreamBytes
<1> QED BY <1>1 DEF Bytes

\* What a reply to a CONNECT says, and how long it is.
Says(reply, rep, type, length) ==
    /\ reply \in Seq(StreamBytes)
    /\ reply[2].value = rep /\ reply[4].value = type
    /\ type = 3 => reply[5].value = length /\ Len(reply) = 4 + 1 + length + 2
    /\ type # 3 => Len(reply) = 4 + AddressLength(type)

\* The reply to a CONNECT says what it is to.
LEMMA ConnectReplyIs ==
    ASSUME NEW rep \in Nat, NEW type \in Nat, NEW length \in Nat
    PROVE  Says(ConnectReply(rep, type, length), rep, type, length)
<1>1. PICK head : head = <<Byte("proxy", 5), Byte("proxy", rep), Byte("proxy", 0),
                           Byte("proxy", type)>>
  OBVIOUS
<1>2. \A value \in Nat : Byte("proxy", value) \in StreamBytes
                         /\ Byte("proxy", value).value = value
  BY DEF Byte, StreamBytes
<1>3. /\ head \in Seq(StreamBytes) /\ Len(head) = 4
      /\ head[2].value = rep /\ head[4].value = type
  BY <1>1, <1>2
<1>4. PICK tail : tail = CASE type = 1 -> Bytes("proxy", 4 + 2)
                           [] type = 4 -> Bytes("proxy", 16 + 2)
                           [] type = 3 -> <<Byte("proxy", length)>> \o Bytes("proxy", length + 2)
                           [] OTHER -> <<>>
  OBVIOUS
<1>5. /\ tail \in Seq(StreamBytes)
      /\ type = 3 => tail[1].value = length /\ Len(tail) = 1 + length + 2
      /\ type # 3 => Len(tail) = AddressLength(type)
  <2>1. CASE type = 3
    <3>1. PICK rest \in Seq(StreamBytes) : rest = Bytes("proxy", length + 2) /\ Len(rest) = length + 2
      BY BytesType
    <3>2. PICK one \in Seq(StreamBytes) : one = <<Byte("proxy", length)>> /\ Len(one) = 1
                                          /\ one[1].value = length
      <4>1. PICK byte \in StreamBytes : byte = Byte("proxy", length) /\ byte.value = length
        BY <1>2
      <4>2. <<byte>> \in Seq(StreamBytes) /\ Len(<<byte>>) = 1 /\ <<byte>>[1] = byte
        OBVIOUS
      <4> QED BY <4>1, <4>2
    <3>3. tail = one \o rest
      BY <1>4, <2>1, <3>1, <3>2
    <3>4. tail \in Seq(StreamBytes) /\ Len(tail) = 1 + (length + 2) /\ tail[1] = one[1]
      BY <3>1, <3>2, <3>3
    <3> QED BY <2>1, <3>2, <3>4
  <2>2. CASE type = 1
    <3>1. tail = Bytes("proxy", 6) /\ AddressLength(type) = 6
      BY <1>4, <2>2 DEF AddressLength
    <3> QED BY <2>2, <3>1, BytesType
  <2>3. CASE type = 4
    <3>1. tail = Bytes("proxy", 18) /\ AddressLength(type) = 18
      BY <1>4, <2>3 DEF AddressLength
    <3> QED BY <2>3, <3>1, BytesType
  <2>4. CASE type \notin {1, 3, 4}
    <3>1. tail = <<>> /\ AddressLength(type) = 0
      BY <1>4, <2>4 DEF AddressLength
    <3> QED BY <2>4, <3>1
  <2> QED BY <2>1, <2>2, <2>3, <2>4
<1>6. PICK reply : reply = head \o tail
  OBVIOUS
<1>7. /\ reply \in Seq(StreamBytes) /\ Len(reply) = 4 + Len(tail)
      /\ reply[2] = head[2] /\ reply[4] = head[4]
      /\ Len(tail) >= 1 => reply[5] = tail[1]
  <2>1. /\ head \in Seq(StreamBytes) /\ tail \in Seq(StreamBytes) /\ Len(head) = 4
        /\ reply = Whole(head, tail) /\ Len(tail) \in Nat
    BY <1>3, <1>5, <1>6 DEF Whole
  <2>2. /\ reply \in Seq(StreamBytes) /\ Len(reply) = Len(head) + Len(tail)
        /\ \A k \in 1..Len(head) : reply[k] = head[k]
        /\ \A k \in 1..Len(tail) : reply[Len(head) + k] = tail[k]
    BY <2>1, WholeFacts
  <2>3. reply[2] = head[2] /\ reply[4] = head[4]
    BY <2>1, <2>2
  <2>4. ASSUME Len(tail) >= 1 PROVE reply[5] = tail[1]
    <3>1. 1 \in 1..Len(tail) /\ Len(head) + 1 = 5
      BY <2>1, <2>4
    <3>2. reply[Len(head) + 1] = tail[1]
      BY <2>2, <3>1
    <3> QED BY <3>1, <3>2
  <2> QED BY <2>1, <2>2, <2>3, <2>4
<1>8. ConnectReply(rep, type, length) = reply
  BY <1>1, <1>4, <1>6 DEF ConnectReply
<1>9. AddressLength(type) \in Nat
  BY DEF AddressLength
<1>10. Says(reply, rep, type, length)
  BY <1>3, <1>5, <1>7, <1>9 DEF Says
<1> QED BY <1>8, <1>10


\* Only a refusal by a proxy changes what is to blame.
LEMMA BlamedGrows ==
    ConnectionInv /\ UNCHANGED <<route, step, result>> /\ refusals \subseteq refusals' => Blamed'
<1> SUFFICES ASSUME ConnectionInv, UNCHANGED <<route, step, result>>, refusals \subseteq refusals'
             PROVE  Blamed'
  OBVIOUS
<1>1. Blamed
  BY DEF ConnectionInv
<1> QED BY <1>1 DEF Blamed

\* An answer arrives when nothing else is in the socket, and becomes all there
\* is of a reply.
LEMMA ProxyAnswerStep ==
    ASSUME ConnectionInv, NEW verdict \in {0, 255}, NEW type \in {1, 3, 4, 2},
           NEW length \in ReplyLengths, ProxyAnswer(verdict, type, length)
    PROVE  ConnectionInv'
<1>1. /\ UNCHANGED <<route, hop, step, processed, data, wanted, result, requests, tunnel>>
      /\ answered < Len(requests) /\ answered' = answered + 1
  BY DEF ProxyAnswer, own_vars
<1>2. /\ TypeInv /\ Requested /\ answered \in Nat /\ Len(requests) \in Nat
      /\ length \in Nat /\ verdict \in Nat /\ type \in Nat
  BY ConnectionAssumption DEF ConnectionInv, TypeInv
<1>3. PICK kind : kind = requests[answered + 1].kind
  OBVIOUS
<1>4. PICK reply : reply = IF kind = "method"
                           THEN <<Byte("proxy", 5), Byte("proxy", verdict)>>
                           ELSE ConnectReply(verdict, type, length)
  OBVIOUS
<1>5. /\ inbox' = inbox \o reply
      /\ refusals' = refusals
            \cup (IF verdict # 0 THEN {kind} ELSE {})
            \cup (IF kind = "connect" /\ type \notin {1, 3, 4} THEN {"type"} ELSE {})
  BY <1>3, <1>4 DEF ProxyAnswer
<1>6. kind \in {"method", "connect"}
  <2>1. requests[answered + 1] \in Requests
    BY <1>1, <1>2 DEF TypeInv
  <2> QED BY <1>3, <2>1 DEF Requests
<1>7. /\ reply \in Seq(StreamBytes) /\ reply[2].value = verdict
      /\ kind = "method" => Len(reply) = 2
      /\ kind = "connect" => /\ reply[4].value = type
                             /\ type = 3 => reply[5].value = length
                                            /\ Len(reply) = 4 + 1 + length + 2
                             /\ type # 3 => Len(reply) = 4 + AddressLength(type)
  <2>1. CASE kind = "method"
    <3>1. PICK one \in StreamBytes : one = Byte("proxy", 5)
      BY ByteIs
    <3>2. PICK two \in StreamBytes : two = Byte("proxy", verdict) /\ two.value = verdict
      BY <1>2, ByteIs
    <3>3. reply = <<one, two>>
      BY <1>4, <2>1, <3>1, <3>2
    <3>4. <<one, two>> \in Seq(StreamBytes) /\ Len(<<one, two>>) = 2 /\ <<one, two>>[2] = two
      OBVIOUS
    <3> QED BY <2>1, <3>2, <3>3, <3>4
  <2>2. CASE kind = "connect"
    <3>1. reply = ConnectReply(verdict, type, length)
      BY <1>4, <2>2
    <3>2. verdict \in Nat /\ type \in Nat /\ length \in Nat
      BY <1>2
    <3>3. Says(ConnectReply(verdict, type, length), verdict, type, length)
      BY <3>2, ConnectReplyIs
    <3> QED BY <2>2, <3>1, <3>3 DEF Says
  <2> QED BY <1>6, <2>1, <2>2
<1>8. TypeInv'
  <2>1. inbox' \in Seq(StreamBytes)
    BY <1>2, <1>5, <1>7 DEF TypeInv
  <2>2. refusals' \in SUBSET {"method", "connect", "type"}
    BY <1>2, <1>5, <1>6 DEF TypeInv
  <2> QED BY <1>1, <1>2, <2>1, <2>2 DEF TypeInv
<1>9. Requested' /\ Blamed'
  BY <1>1, <1>2, <1>5, RequestedSame, BlamedGrows
<1>10. ASSUME result = "None" PROVE (Course /\ Asking /\ Socket)'
  <2>1. Course /\ Asking /\ Socket
    BY <1>10 DEF ConnectionInv
  <2>2. /\ step \in {"recv_method", "recv_reply"} /\ data = <<>> /\ inbox = <<>> /\ refusals = {}
        /\ answered' = Len(requests) /\ Len(requests) = Asked /\ hop \in 1..Proxies
        /\ Proxies \in Nat
    BY <1>1, <1>2, <2>1 DEF Course, Socket, TypeInv, Proxies
  <2>3. tunnel = 0 /\ Asked' = Asked
    <3>1. tunnel \in Nat
      BY <1>2 DEF TypeInv
    <3>2. Asked <= 2 * Proxies
      BY <1>2, <2>2 DEF Requested
    <3> QED BY <1>1, <1>2, <2>1, <2>2, <3>1, <3>2 DEF Course, Asked, Proxies
  <2>4. Course'
    BY <1>1, <1>2, <2>1, <2>2, <2>3 DEF Course, Proxies
  <2>5. Asking'
    BY <1>1, <2>1 DEF Asking, Receiving
  <2>6. Reply' = reply
    BY <1>1, <1>5, <1>7, <2>2 DEF Reply
  <2>7. /\ step = "recv_method" => kind = "method"
        /\ step = "recv_reply" => kind = "connect"
    <3>1. requests[answered + 1] = Expected[answered + 1]
      BY <1>1, <1>2 DEF Requested
    <3>2. answered + 1 = Asked
      BY <1>1, <2>2
    <3>3. ASSUME step = "recv_method" PROVE kind = "method"
      <4>1. answered + 1 = 2 * hop - 1
        BY <3>2, <3>3 DEF Asked
      <4>2. Expected[2 * hop - 1] = [hop |-> hop, kind |-> "method", address |-> "none"]
        BY <1>2, <2>2, ExpectedIs
      <4> QED BY <1>3, <3>1, <4>1, <4>2
    <3>4. ASSUME step = "recv_reply" PROVE kind = "connect"
      <4>1. answered + 1 = 2 * hop
        BY <3>2, <3>4 DEF Asked
      <4>2. Expected[2 * hop] = [hop |-> hop, kind |-> "connect", address |-> route[hop + 1]]
        BY <1>2, <2>2, ExpectedIs
      <4> QED BY <1>3, <3>1, <4>1, <4>2
    <3> QED BY <3>3, <3>4
  <2>8. (Enough(Reply) /\ ThenTunnel(Reply, Remaining(Reply)))'
    <3>1. PICK m : m = Remaining(Reply)'
      OBVIOUS
    <3>2. m = Len(reply) /\ m \in Nat
      <4>1. CASE step = "recv_method"
        BY <1>1, <1>7, <2>7, <3>1, <4>1 DEF Remaining
      <4>2. CASE step = "recv_reply"
        BY <1>1, <1>7, <2>6, <2>7, <3>1, <4>2 DEF Remaining
      <4> QED BY <2>2, <4>1, <4>2
    <3>3. Len(Reply') = m + tunnel'
      BY <1>1, <2>3, <2>6, <3>2
    <3>4. \A k \in 1..tunnel' : FALSE
      BY <1>1, <2>3
    <3>5. Enough(Reply)'
      <4>1. AddressLength(type) \in Nat
        BY DEF AddressLength
      <4>2. step' = step
        BY <1>1
      <4>3. step = "recv_method" => Len(reply) >= 2
        <5>1. kind = "method" => Len(reply) = 2
          BY <1>7
        <5> QED BY <2>7, <5>1
      <4>4. step = "recv_reply" => Len(reply) >= 4 /\ (reply[4].value = 3 => Len(reply) >= 5)
        BY <1>2, <1>7, <2>7, <4>1
      <4> QED BY <2>2, <2>6, <4>2, <4>3, <4>4 DEF Enough
    <3> QED BY <3>1, <3>3, <3>4, <3>5 DEF ThenTunnel
  <2>9. Tells(Reply)'
    <3>1. CASE step = "recv_method"
      BY <1>1, <1>5, <1>7, <2>2, <2>6, <2>7, <3>1 DEF Tells
    <3>2. CASE step = "recv_reply"
      <4>1. kind = "connect" /\ step' = "recv_reply" /\ (AddressLength(type) = 0 <=> type \notin {1, 3, 4})
        BY <1>1, <2>7, <3>2 DEF AddressLength
      <4>2. reply[2].value = verdict /\ reply[4].value = type
        BY <1>7, <4>1
      <4>3. /\ verdict # 0 => "connect" \in refusals'
            /\ AddressLength(type) = 0 => "type" \in refusals'
            /\ verdict = 0 /\ AddressLength(type) # 0 => refusals' = {}
        BY <1>5, <2>2, <4>1
      <4> QED BY <2>6, <4>1, <4>2, <4>3 DEF Tells
    <3> QED BY <2>2, <3>1, <3>2
  <2>10. Socket'
    BY <1>1, <2>2, <2>8, <2>9 DEF Socket
  <2> QED BY <2>4, <2>5, <2>10
<1> QED BY <1>1, <1>8, <1>9, <1>10 DEF ConnectionInv

\* What is left of a reply is a number of bytes.
LEMMA RemainingNat ==
    ASSUME TypeInv, NEW bytes \in Seq(StreamBytes), Enough(bytes)
    PROVE  Remaining(bytes) \in Nat
<1>1. \A k \in 1..Len(bytes) : bytes[k].value \in Nat
  <2>1. \A k \in 1..Len(bytes) : bytes[k] \in StreamBytes
    OBVIOUS
  <2> QED BY <2>1 DEF StreamBytes
<1>2. wanted \in Nat /\ Len(bytes) \in Nat
  BY DEF TypeInv
<1>3. \A v : AddressLength(v) \in Nat
  BY DEF AddressLength
<1>4. CASE step = "recv_method"
  BY <1>4 DEF Remaining
<1>5. CASE step = "recv_reply"
  <2>1. CASE bytes[4].value = 3
    <3>1. Remaining(bytes) = 4 + 1 + bytes[5].value + 2 /\ 5 \in 1..Len(bytes)
      BY <1>2, <1>5, <2>1 DEF Remaining, Enough
    <3> QED BY <1>1, <3>1
  <2>2. CASE bytes[4].value # 3
    <3>1. Remaining(bytes) = 4 + AddressLength(bytes[4].value)
      BY <1>5, <2>2 DEF Remaining
    <3> QED BY <1>3, <3>1
  <2> QED BY <2>1, <2>2
<1>6. CASE step = "recv_length"
  <2>1. Remaining(bytes) = 1 + bytes[1].value + 2 /\ 1 \in 1..Len(bytes)
    BY <1>2, <1>6 DEF Remaining, Enough
  <2> QED BY <1>1, <2>1
<1>7. CASE step \notin {"recv_method", "recv_reply", "recv_length"}
  BY <1>2, <1>7 DEF Remaining
<1> QED BY <1>4, <1>5, <1>6, <1>7

\* The peer's bytes go behind all that the proxies have sent.
LEMMA PeerSendsStep == ConnectionInv /\ PeerSends => ConnectionInv'
<1> SUFFICES ASSUME ConnectionInv, PeerSends PROVE ConnectionInv'
  OBVIOUS
<1>1. /\ UNCHANGED <<route, hop, step, processed, data, wanted, result, requests, answered,
                     refusals>>
      /\ answered = 2 * Proxies /\ tunnel' = tunnel + 1 /\ step # "connect"
      /\ inbox' = Append(inbox, Byte("tunnel", tunnel + 1))
  BY DEF PeerSends, own_vars
<1>2. TypeInv /\ Requested /\ tunnel \in Nat /\ Proxies \in Nat /\ Proxies' = Proxies
  BY <1>1 DEF ConnectionInv, TypeInv, Proxies
<1>3. PICK byte \in StreamBytes : byte = Byte("tunnel", tunnel + 1)
  <2>1. tunnel + 1 \in Nat
    BY <1>2
  <2> QED BY <2>1, ByteIs
<1>4. TypeInv'
  BY <1>1, <1>2, <1>3 DEF TypeInv
<1>5. Requested' /\ Blamed'
  BY <1>1, <1>2, RequestedSame, BlamedGrows
<1>6. ASSUME result = "None" PROVE (Course /\ Asking /\ Socket)'
  <2>1. Course /\ Asking /\ Socket
    BY <1>6 DEF ConnectionInv
  <2>2. answered = Len(requests)
    <3>1. Len(requests) \in Nat /\ Len(requests) <= 2 * Proxies /\ answered \in 0..Len(requests)
      BY <1>2 DEF Requested, TypeInv
    <3> QED BY <1>1, <1>2, <3>1
  <2>3. Course'
    BY <1>1, <1>2, <2>1 DEF Course, Asked
  <2>4. Asking'
    BY <1>1, <2>1 DEF Asking, Receiving
  <2>5. PICK old \in Seq(StreamBytes) : old = Reply
    <3>1. data \o inbox \in Seq(StreamBytes)
      BY <1>2 DEF TypeInv
    <3> QED BY <3>1 DEF Reply
  <2>6. Reply' = Append(old, byte)
    <3>1. data \in Seq(StreamBytes) /\ inbox \in Seq(StreamBytes)
      BY <1>2 DEF TypeInv
    <3>2. Append(Whole(data, inbox), byte) = Whole(data, Append(inbox, byte))
      BY <3>1, AppendWhole
    <3>3. data' = data /\ inbox' = Append(inbox, byte)
      BY <1>1, <1>3
    <3> QED BY <2>5, <3>2, <3>3 DEF Reply, Whole
  <2>7. /\ Append(old, byte) \in Seq(StreamBytes) /\ Len(Append(old, byte)) = Len(old) + 1
        /\ \A k \in 1..Len(old) : Append(old, byte)[k] = old[k]
        /\ Append(old, byte)[Len(old) + 1] = byte
    OBVIOUS
  <2>8. PICK new \in Seq(StreamBytes) :
           /\ new = Reply' /\ Len(new) = Len(old) + 1 /\ new[Len(old) + 1] = byte
           /\ \A k \in 1..Len(old) : new[k] = old[k]
    BY <2>6, <2>7
  <2>9. PICK m : m = Remaining(old)
    OBVIOUS
  <2>10. Enough(old) /\ ThenTunnel(old, m) /\ Tells(old)
    BY <2>1, <2>2, <2>5, <2>9 DEF Socket
  <2>11. Len(old) \in Nat /\ Len(old) = m + tunnel /\ m \in Nat
    <3>1. m \in Nat
      BY <1>2, <2>9, <2>10, RemainingNat
    <3>2. Len(old) \in Nat /\ Len(old) = m + tunnel
      BY <2>10 DEF ThenTunnel
    <3> QED BY <3>1, <3>2
  <2>12. Remaining(new)' = m /\ Enough(new)' /\ Tells(new)'
    <3>1. step' = step /\ wanted' = wanted /\ refusals' = refusals
      BY <1>1
    <3>2. Len(new) >= Len(old) /\ Len(old) \in Nat /\ Len(new) \in Nat
      BY <2>8, <2>11
    <3>3. \A k \in {1, 2, 4, 5} : k <= Len(old) => new[k] = old[k]
      BY <2>8, <2>11
    <3>4. Remaining(new)' = m
      BY <2>9, <2>10, <3>1, <3>2, <3>3 DEF Remaining, Enough
    <3>5. Enough(new)'
      BY <2>10, <3>1, <3>2, <3>3 DEF Enough
    <3>6. Tells(new)'
      BY <2>10, <3>1, <3>2, <3>3 DEF Tells, Enough
    <3> QED BY <3>4, <3>5, <3>6
  <2>13. ThenTunnel(new, m)'
    <3>1. Len(new) = m + tunnel'
      BY <1>1, <1>2, <2>8, <2>11
    <3>2. ASSUME NEW k \in 1..tunnel' PROVE new[m + k] = Byte("tunnel", k)
      <4>1. CASE k = tunnel + 1
        <5>1. m + k = Len(old) + 1
          BY <1>2, <2>11, <4>1
        <5> QED BY <1>3, <2>8, <4>1, <5>1
      <4>2. CASE k # tunnel + 1
        <5>1. k \in 1..tunnel
          BY <1>1, <1>2, <4>2
        <5>2. m + k \in 1..Len(old)
          BY <1>2, <2>11, <5>1
        <5>3. old[m + k] = Byte("tunnel", k)
          BY <2>10, <5>1 DEF ThenTunnel
        <5> QED BY <2>8, <5>2, <5>3
      <4> QED BY <4>1, <4>2
    <3> QED BY <3>1, <3>2 DEF ThenTunnel
  <2>14. Socket'
    BY <1>1, <2>2, <2>8, <2>12, <2>13 DEF Socket
  <2> QED BY <2>3, <2>4, <2>14
<1> QED BY <1>1, <1>4, <1>5, <1>6 DEF ConnectionInv


-----------------------------------------------------------------------------
(* Reading a reply *)

\* What a completely read part of a reply has, and what is left behind it.
LEMMA PartRead ==
    ASSUME NEW received \in Seq(StreamBytes), NEW waiting \in Seq(StreamBytes),
           NEW n \in Nat, n <= Len(waiting), NEW w \in Nat, w = Len(received) + n,
           NEW m \in Nat, m >= w, tunnel \in Nat, ThenTunnel(Whole(received, waiting), m)
    PROVE  /\ \A k \in 1..w : Received(received, waiting, n)[k] = Whole(received, waiting)[k]
           /\ Len(Left(waiting, n)) \in Nat /\ Len(Left(waiting, n)) = (m - w) + tunnel
           /\ \A k \in 1..((m - w) + tunnel) : Left(waiting, n)[k] = Whole(received, waiting)[w + k]
           /\ ThenTunnel(Left(waiting, n), m - w)
<1> DEFINE left == Left(waiting, n)
           all == Whole(received, waiting)
<1>1. /\ left \in Seq(StreamBytes) /\ Len(left) = Len(waiting) - n
      /\ Len(all) = Len(received) + Len(waiting)
      /\ \A k \in 1..(Len(received) + n) : Received(received, waiting, n)[k] = all[k]
      /\ \A k \in 1..(Len(waiting) - n) : left[k] = all[Len(received) + n + k]
  BY RecvTakes, ZenonT(40)
<1>2. Len(all) = m + tunnel /\ \A k \in 1..tunnel : all[m + k] = Byte("tunnel", k)
  BY DEF ThenTunnel
<1> HIDE DEF left, all
<1>3. Len(received) \in Nat /\ Len(waiting) \in Nat
  OBVIOUS
<1>4. Len(waiting) - n = (m - w) + tunnel
  <2>1. PICK a \in Nat : a = Len(received)
    BY <1>3
  <2>2. PICK b \in Nat : b = Len(waiting)
    BY <1>3
  <2>3. w = a + n /\ a + b = m + tunnel
    <3>1. w = Len(received) + n
      OBVIOUS
    <3> QED BY <1>1, <1>2, <2>1, <2>2, <3>1
  <2>4. b - n = (m - w) + tunnel
    BY <2>3
  <2> QED BY <2>2, <2>4
<1>5. \A k \in 1..((m - w) + tunnel) : left[k] = all[w + k]
  <2>1. w = Len(received) + n
    OBVIOUS
  <2> QED BY <1>1, <1>4, <2>1
<1>6. ASSUME NEW k \in 1..tunnel PROVE left[(m - w) + k] = Byte("tunnel", k)
  <2>1. PICK j \in 1..((m - w) + tunnel) : j = (m - w) + k /\ w + j = m + k
    <3>1. (m - w) + k \in 1..((m - w) + tunnel) /\ w + ((m - w) + k) = m + k
      OBVIOUS
    <3> QED BY <3>1
  <2> QED BY <1>2, <1>5, <2>1
<1>7. ThenTunnel(left, m - w)
  BY <1>1, <1>4, <1>6 DEF ThenTunnel
<1>8. Len(left) \in Nat
  BY <1>1, <1>3
<1> QED BY <1>1, <1>4, <1>5, <1>7, <1>8 DEF left, all

\* recv returns the last bytes of a part of a reply: a verdict is read as what
\* it is, and the next part begins with the next byte.
LEMMA CompleteStep ==
    ASSUME ConnectionInv, NEW n \in 1..(4 + 1 + 255 + 2), Recv(n), processed + n = wanted
    PROVE  ConnectionInv'
<1>1. PICK reply : reply = Received(data, inbox, n)
  OBVIOUS
<1>2. PICK left : left = Left(inbox, n)
  OBVIOUS
<1>3. PICK all : all = Whole(data, inbox)
  OBVIOUS
<1>4. /\ UNCHANGED <<route, requests, answered, tunnel, closed, refusals>>
      /\ result = "None" /\ Receiving /\ n <= Len(inbox) /\ inbox' = left
      /\ result' = ReplyFailure(reply) /\ data' = <<>> /\ processed' = 0
      /\ step' = IF result' = "None" THEN StepAfter(reply) ELSE step
      /\ wanted' = IF result' = "None" THEN WantedAfter(reply) ELSE wanted
      /\ hop' = IF step = "recv_address" /\ hop < Proxies THEN hop + 1 ELSE hop
  <2>1. processed \in Nat /\ wanted \in Nat
    BY DEF ConnectionInv, TypeInv
  <2>2. ~(processed + n < wanted)
    BY <2>1
  <2>3. UNCHANGED <<route, requests, answered, tunnel, closed, refusals>>
    BY DEF Recv
  <2>4. result = "None" /\ Receiving /\ n <= Len(inbox) /\ inbox' = left
    BY <1>2 DEF Recv, Left
  <2>5. /\ result' = ReplyFailure(reply) /\ data' = <<>> /\ processed' = 0
        /\ step' = IF result' = "None" THEN StepAfter(reply) ELSE step
        /\ wanted' = IF result' = "None" THEN WantedAfter(reply) ELSE wanted
        /\ hop' = IF step = "recv_address" /\ hop < Proxies THEN hop + 1 ELSE hop
    BY <1>1, <2>2 DEF Recv, Received
  <2> QED BY <2>3, <2>4, <2>5
<1>5. /\ TypeInv /\ Requested /\ Blamed /\ Course /\ Asking /\ Socket
      /\ data \in Seq(StreamBytes) /\ inbox \in Seq(StreamBytes) /\ n \in Nat
      /\ tunnel \in Nat /\ wanted \in Nat /\ Proxies \in Nat /\ hop \in 1..Proxies
      /\ Proxies' = Proxies /\ processed = Len(data)
  BY <1>4 DEF ConnectionInv, TypeInv, Proxies, Course, Asking, Receiving
<1>6. /\ answered = Len(requests) /\ Reply = all
      /\ Enough(all) /\ ThenTunnel(all, Remaining(all)) /\ Tells(all)
  BY <1>3, <1>4, <1>5 DEF Socket, Reply, Whole
<1>7. /\ reply \in Seq(StreamBytes) /\ left \in Seq(StreamBytes) /\ all \in Seq(StreamBytes)
  BY <1>1, <1>2, <1>3, <1>4, <1>5, RecvTakes
<1>8. PICK m \in Nat : m = Remaining(all)
  BY <1>5, <1>6, <1>7, RemainingNat
<1>9. \A k \in 1..Len(all) : all[k].value \in Nat
  <2>1. \A k \in 1..Len(all) : all[k] \in StreamBytes
    BY <1>7
  <2> QED BY <2>1 DEF StreamBytes
<1>10. \A v : AddressLength(v) \in Nat
  BY DEF AddressLength
<1>11. /\ step = "recv_method" => m = 2 /\ wanted = 2
       /\ step = "recv_reply" => wanted = 4 /\ m >= 4
       /\ step = "recv_length" => m = 1 + all[1].value + 2 /\ wanted = 1 /\ m >= 3
       /\ step = "recv_address" => m = wanted
       /\ m >= wanted
  <2>1. CASE step = "recv_method"
    BY <1>5, <1>8, <2>1 DEF Remaining, Asking
  <2>2. CASE step = "recv_reply"
    <3>1. wanted = 4
      BY <1>5, <2>2 DEF Asking
    <3>2. CASE all[4].value = 3
      <4>1. m = 4 + 1 + all[5].value + 2 /\ 5 \in 1..Len(all)
        BY <1>6, <1>7, <1>8, <2>2, <3>2 DEF Remaining, Enough
      <4>2. all[5].value \in Nat
        BY <1>9, <4>1
      <4> QED BY <2>2, <3>1, <4>1, <4>2
    <3>3. CASE all[4].value # 3
      <4>1. m = 4 + AddressLength(all[4].value) /\ AddressLength(all[4].value) \in Nat
        BY <1>8, <1>10, <2>2, <3>3 DEF Remaining
      <4> QED BY <2>2, <3>1, <4>1
    <3> QED BY <3>2, <3>3
  <2>3. CASE step = "recv_length"
    <3>1. m = 1 + all[1].value + 2 /\ 1 \in 1..Len(all) /\ wanted = 1
      BY <1>5, <1>6, <1>7, <1>8, <2>3 DEF Remaining, Enough, Asking
    <3>2. all[1].value \in Nat
      BY <1>9, <3>1
    <3> QED BY <2>3, <3>1, <3>2
  <2>4. CASE step = "recv_address"
    BY <1>5, <1>8, <2>4 DEF Remaining
  <2> QED BY <1>4, <2>1, <2>2, <2>3, <2>4 DEF Receiving
<1>12. /\ \A k \in 1..wanted : reply[k] = all[k]
       /\ Len(left) \in Nat /\ Len(left) = (m - wanted) + tunnel
       /\ \A k \in 1..((m - wanted) + tunnel) : left[k] = all[wanted + k]
       /\ ThenTunnel(left, m - wanted)
  <2>1. wanted = Len(data) + n
    BY <1>5
  <2>2. /\ \A k \in 1..wanted : Received(data, inbox, n)[k] = Whole(data, inbox)[k]
        /\ Len(Left(inbox, n)) \in Nat /\ Len(Left(inbox, n)) = (m - wanted) + tunnel
        /\ \A k \in 1..((m - wanted) + tunnel) :
              Left(inbox, n)[k] = Whole(data, inbox)[wanted + k]
        /\ ThenTunnel(Left(inbox, n), m - wanted)
    <3>1. ThenTunnel(Whole(data, inbox), m)
      BY <1>3, <1>6, <1>8
    <3>2. n <= Len(inbox) /\ m >= wanted
      BY <1>4, <1>11
    <3> QED BY <1>5, <2>1, <3>1, <3>2, PartRead
  <2> QED BY <1>1, <1>2, <1>3, <2>2
<1>13. /\ step = "recv_method" => reply[2] = all[2]
       /\ step = "recv_reply" => reply[2] = all[2] /\ reply[4] = all[4]
       /\ step = "recv_length" => reply[1] = all[1]
  BY <1>11, <1>12
<1>14. TypeInv'
  <2>1. step' \in Steps /\ hop' \in Nat \ {0}
    BY <1>4, <1>5, SMTT(30) DEF StepAfter, Steps, TypeInv
  <2>2. wanted' \in Nat
    <3>1. step = "recv_length" => reply[1].value \in Nat
      <4>1. step = "recv_length" => 1 \in 1..Len(all)
        BY <1>6, <1>7 DEF Enough
      <4> QED BY <1>9, <1>13, <4>1
    <3> QED BY <1>4, <1>5, <1>10, <3>1, SMTT(30) DEF WantedAfter
  <2>3. data' \in Seq(StreamBytes) /\ processed' \in Nat
    BY <1>4
  <2> QED BY <1>4, <1>5, <1>7, <2>1, <2>2, <2>3 DEF TypeInv
<1>15. Requested'
  BY <1>4, <1>5, RequestedSame
<1>16. CASE result' # "None"
  <2>1. step' = step /\ step \in {"recv_method", "recv_reply"}
    BY <1>4, <1>16 DEF ReplyFailure
  <2>2. CASE step = "recv_method"
    <3>1. \/ result' = "SocksAuthMethodUnsupported" /\ reply[2].value # 0
          \/ result' = "SocksUnsupportedTargetFamily" /\ route[hop + 1] = "OTHER_FAMILY"
      BY <1>4, <1>16, <2>2 DEF ReplyFailure, NextAddress
    <3>2. reply[2].value # 0 => "method" \in refusals
      BY <1>6, <1>13, <2>2 DEF Tells
    <3>3. hop + 1 \in DOMAIN route
      BY <1>5 DEF Proxies, TypeInv
    <3> QED BY <1>4, <1>14, <1>15, <1>16, <2>1, <3>1, <3>2, <3>3 DEF Blamed, ConnectionInv
  <2>3. CASE step = "recv_reply"
    <3>1. \/ result' = "SocksConnectFailed" /\ reply[2].value # 0
          \/ result' = "SocksUnsupportedTargetFamily" /\ AddressLength(reply[4].value) = 0
      BY <1>4, <1>16, <2>3 DEF ReplyFailure
    <3>2. /\ reply[2].value # 0 => "connect" \in refusals
          /\ AddressLength(reply[4].value) = 0 => "type" \in refusals
      BY <1>6, <1>13, <2>3 DEF Tells
    <3> QED BY <1>4, <1>14, <1>15, <1>16, <2>1, <3>1, <3>2 DEF Blamed, ConnectionInv
  <2> QED BY <2>1, <2>2, <2>3
<1>17. CASE result' = "None"
  <2>1. step' = StepAfter(reply) /\ wanted' = WantedAfter(reply) /\ ReplyFailure(reply) = "None"
    BY <1>4, <1>17
  <2>2. refusals = {}
    <3>1. CASE step = "recv_method"
      <4>1. reply[2].value = 0
        BY <2>1, <3>1 DEF ReplyFailure
      <4> QED BY <1>6, <1>13, <3>1, <4>1 DEF Tells
    <3>2. CASE step = "recv_reply"
      <4>1. reply[2].value = 0 /\ AddressLength(reply[4].value) # 0
        BY <2>1, <3>2 DEF ReplyFailure
      <4> QED BY <1>6, <1>13, <3>2, <4>1 DEF Tells
    <3>3. CASE step \notin {"recv_method", "recv_reply"}
      BY <1>6, <3>3 DEF Tells
    <3> QED BY <3>1, <3>2, <3>3
  <2>3. Remaining(left)' = m - wanted /\ Enough(left)' /\ Asking' /\ Course'
        /\ step' \notin {"recv_method", "recv_reply"}
    <3>1. CASE step = "recv_method"
      <4>1. step' = "send_connect" /\ wanted' = 0 /\ hop' = hop
        BY <1>4, <2>1, <3>1 DEF StepAfter, WantedAfter
      <4>2. Remaining(left)' = m - wanted
        BY <1>11, <3>1, <4>1 DEF Remaining
      <4>3. Enough(left)' /\ Asking'
        BY <1>4, <4>1 DEF Enough, Asking, Receiving
      <4>4. Course'
        BY <1>4, <1>5, <1>6, <3>1, <4>1 DEF Course, Asked
      <4> QED BY <4>1, <4>2, <4>3, <4>4
    <3>2. CASE step = "recv_reply"
      <4>1. AddressLength(reply[4].value) # 0
        BY <2>1, <3>2 DEF ReplyFailure
      <4>2. hop' = hop /\ step' \in {"recv_length", "recv_address"}
        BY <1>4, <2>1, <3>2 DEF StepAfter
      <4>3. Course'
        BY <1>4, <1>5, <1>6, <3>2, <4>2 DEF Course, Asked
      <4>4. CASE all[4].value = 3
        <5>1. step' = "recv_length" /\ wanted' = 1
          BY <1>13, <2>1, <3>2, <4>4 DEF StepAfter, WantedAfter, AddressLength
        <5>2. m = 4 + 1 + all[5].value + 2 /\ 5 \in 1..Len(all) /\ wanted = 4
          BY <1>6, <1>7, <1>8, <1>11, <3>2, <4>4 DEF Remaining, Enough
        <5>3. all[5].value \in Nat
          BY <1>9, <5>2
        <5>4. left[1] = all[5] /\ Len(left) >= 1
          <6>1. 1 \in 1..((m - wanted) + tunnel) /\ wanted + 1 = 5
            <7>1. PICK v \in Nat : v = all[5].value
              BY <5>3
            <7>2. m = 7 + v
              BY <5>2, <7>1
            <7>3. m - wanted >= 1
              BY <5>2, <7>2
            <7> QED BY <1>5, <5>2, <7>3
          <6>2. left[1] = all[wanted + 1]
            BY <1>12, <6>1
          <6> QED BY <1>5, <1>12, <6>1, <6>2
        <5>5. Remaining(left)' = m - wanted
          BY <5>1, <5>2, <5>3, <5>4 DEF Remaining
        <5>6. Enough(left)'
          BY <5>1, <5>4 DEF Enough
        <5>7. Asking'
          BY <1>4, <5>1 DEF Asking, Receiving
        <5> QED BY <4>3, <5>1, <5>5, <5>6, <5>7
      <4>5. CASE all[4].value # 3
        <5>1. step' = "recv_address" /\ wanted' = AddressLength(all[4].value) /\ wanted' > 0
          BY <1>10, <1>13, <2>1, <3>2, <4>1, <4>5 DEF StepAfter, WantedAfter
        <5>2. m = 4 + AddressLength(all[4].value) /\ wanted = 4
          BY <1>8, <1>11, <3>2, <4>5 DEF Remaining
        <5>3. Remaining(left)' = m - wanted
          BY <1>10, <5>1, <5>2 DEF Remaining
        <5>4. Enough(left)'
          BY <5>1 DEF Enough
        <5>5. Asking'
          BY <1>4, <5>1 DEF Asking, Receiving
        <5> QED BY <4>3, <5>1, <5>3, <5>4, <5>5
      <4> QED BY <4>4, <4>5
    <3>3. CASE step = "recv_length"
      <4>1. step' = "recv_address" /\ wanted' = all[1].value + 2 /\ hop' = hop
        BY <1>4, <1>13, <2>1, <3>3 DEF StepAfter, WantedAfter
      <4>2. all[1].value \in Nat /\ m = 1 + all[1].value + 2 /\ wanted = 1
        <5>1. 1 \in 1..Len(all)
          BY <1>6, <1>7, <3>3 DEF Enough
        <5> QED BY <1>9, <1>11, <3>3, <5>1
      <4>3. Remaining(left)' = m - wanted
        BY <4>1, <4>2 DEF Remaining
      <4>4. Enough(left)'
        BY <4>1 DEF Enough
      <4>5. Asking'
        BY <1>4, <4>1, <4>2 DEF Asking, Receiving
      <4>6. Course'
        BY <1>4, <1>5, <1>6, <3>3, <4>1 DEF Course, Asked
      <4> QED BY <4>1, <4>3, <4>4, <4>5, <4>6
    <3>4. CASE step = "recv_address"
      <4>1. /\ hop < Proxies => step' = "begin" /\ hop' = hop + 1
            /\ ~(hop < Proxies) => step' = "connected" /\ hop' = hop /\ hop = Proxies
        BY <1>4, <1>5, <2>1, <3>4 DEF StepAfter
      <4>2. step' \in {"begin", "connected"}
        BY <4>1
      <4>3. Remaining(left)' = m - wanted
        <5>1. Remaining(left)' = 0
          BY <4>2 DEF Remaining
        <5> QED BY <1>11, <3>4, <5>1
      <4>4. Enough(left)' /\ Asking'
        BY <1>4, <4>2 DEF Enough, Asking, Receiving
      <4>5. Asked' = Asked
        <5>1. Asked = 2 * hop
          BY <3>4 DEF Asked
        <5>2. CASE hop < Proxies
          <6>1. step' = "begin" /\ hop' = hop + 1
            BY <4>1, <5>2
          <6>2. Asked' = 2 * (hop' - 1)
            BY <6>1 DEF Asked
          <6> QED BY <1>5, <5>1, <6>1, <6>2
        <5>3. CASE ~(hop < Proxies)
          <6>1. step' = "connected" /\ hop = Proxies
            BY <4>1, <5>3
          <6>2. Asked' = 2 * Proxies'
            BY <6>1 DEF Asked
          <6> QED BY <1>5, <5>1, <6>1, <6>2
        <5> QED BY <5>2, <5>3
      <4>6. step' \notin {"connect", "connected"} => hop' <= Proxies'
        BY <1>5, <4>1
      <4>7. Course'
        BY <1>4, <1>5, <1>6, <3>4, <4>2, <4>5, <4>6 DEF Course
      <4> QED BY <4>2, <4>3, <4>4, <4>7
    <3> QED BY <1>4, <3>1, <3>2, <3>3, <3>4 DEF Receiving
  <2>4. Blamed'
    BY <1>17 DEF Blamed
  <2>5. Reply' = left
    BY <1>4, <1>7 DEF Reply
  <2>6. Tells(left)'
    BY <1>4, <2>2, <2>3 DEF Tells
  <2>7. PICK rest : rest = m - wanted
    OBVIOUS
  <2>8. Remaining(left)' = rest /\ ThenTunnel(left, rest)'
    BY <1>4, <1>12, <2>3, <2>7 DEF ThenTunnel
  <2>9. (ThenTunnel(Reply, Remaining(Reply)) /\ Enough(Reply) /\ Tells(Reply))'
    BY <2>3, <2>5, <2>6, <2>8
  <2>10. Socket'
    BY <1>4, <1>6, <2>9 DEF Socket
  <2> QED BY <1>14, <1>15, <2>3, <2>4, <2>10 DEF ConnectionInv
<1> QED BY <1>16, <1>17


\* A part of a part of a reply moves from the socket to the program.
LEMMA PartStep ==
    ASSUME ConnectionInv, NEW n \in 1..(4 + 1 + 255 + 2), Recv(n), processed + n < wanted
    PROVE  ConnectionInv'
<1>1. /\ UNCHANGED <<route, hop, step, wanted, result, requests, answered, tunnel, closed,
                     refusals>>
      /\ result = "None" /\ Receiving /\ n <= Len(inbox)
      /\ inbox' = Left(inbox, n) /\ data' = Received(data, inbox, n)
      /\ processed' = processed + n
  BY DEF Recv, Left, Received
<1>2. /\ TypeInv /\ Requested /\ Blamed /\ Course /\ Asking /\ Socket
      /\ data \in Seq(StreamBytes) /\ inbox \in Seq(StreamBytes) /\ n \in Nat
      /\ processed \in Nat /\ processed = Len(data)
  BY <1>1 DEF ConnectionInv, TypeInv, Asking
<1>3. /\ inbox' \in Seq(StreamBytes) /\ data' \in Seq(StreamBytes)
      /\ Len(data') = processed'
  BY <1>1, <1>2, RecvTakes
<1>4. Reply' = Reply
  <2>1. Whole(Received(data, inbox, n), Left(inbox, n)) = Whole(data, inbox)
    BY <1>1, <1>2, RecvKeeps
  <2> QED BY <1>1, <2>1 DEF Reply, Whole
<1>5. TypeInv'
  BY <1>1, <1>2, <1>3 DEF TypeInv
<1>6. Requested' /\ Blamed'
  BY <1>1, <1>2, RequestedSame DEF Blamed
<1>7. Course'
  BY <1>1, <1>2 DEF Course, Asked, Proxies
<1>8. Asking'
  BY <1>1, <1>2, <1>3 DEF Asking, Receiving
<1>9. Socket'
  <2>1. answered = Len(requests)
    BY <1>1, <1>2 DEF Socket
  <2>2. (Enough(Reply) /\ ThenTunnel(Reply, Remaining(Reply)) /\ Tells(Reply))'
    BY <1>1, <1>2, <1>4, <2>1 DEF Socket, Enough, ThenTunnel, Remaining, Tells
  <2> QED BY <1>1, <2>1, <2>2 DEF Socket
<1> QED BY <1>5, <1>6, <1>7, <1>8, <1>9 DEF ConnectionInv

\* Every way recv cuts the stream keeps the invariant.
LEMMA RecvStep ==
    ASSUME ConnectionInv, NEW n \in 1..(4 + 1 + 255 + 2), Recv(n) PROVE ConnectionInv'
<1>1. processed \in Nat /\ wanted \in Nat /\ processed + n <= wanted
  BY DEF ConnectionInv, TypeInv, Recv
<1>2. processed + n < wanted \/ processed + n = wanted
  BY <1>1
<1> QED BY <1>2, PartStep, CompleteStep

-----------------------------------------------------------------------------
(* The theorems *)

\* Every step keeps the invariant.
LEMMA NextConnection == ConnectionInv /\ [Next]_vars => ConnectionInv'
<1> SUFFICES ASSUME ConnectionInv, [Next]_vars PROVE ConnectionInv'
  OBVIOUS
<1>1. CASE ConnectFirst
  BY <1>1, ConnectFirstStep
<1>2. CASE Begin
  BY <1>2, BeginStep
<1>3. CASE PeerClosed \/ SendFailed \/ RecvFailed
  BY <1>3, FailureStep
<1>4. ASSUME NEW n \in 1..(4 + 1 + 255 + 2), Send(n) \/ Recv(n) PROVE ConnectionInv'
  BY <1>4, SendStep, RecvStep
<1>5. CASE Answer
  <2>1. PICK verdict \in {0, 255}, type \in {1, 3, 4, 2}, length \in ReplyLengths :
           ProxyAnswer(verdict, type, length)
    BY <1>5 DEF Answer
  <2> QED BY <2>1, ProxyAnswerStep
<1>6. CASE PeerSends
  BY <1>6, PeerSendsStep
<1>7. CASE Close \/ UNCHANGED vars
  <2>1. /\ UNCHANGED <<route, hop, step, processed, data, wanted, result, requests, answered,
                       inbox, tunnel, refusals>>
    BY <1>7 DEF Close, vars, own_vars, peer_vars
  <2>2. TypeInv' /\ Requested' /\ Blamed'
    BY <2>1, RequestedSame DEF ConnectionInv, TypeInv, Blamed
  <2>3. ASSUME result = "None" PROVE (Course /\ Asking /\ Socket)'
    <3>1. Course /\ Asking /\ Socket
      BY <2>3 DEF ConnectionInv
    <3>2. Course' /\ Asking'
      BY <2>1, <3>1, SMTT(30) DEF Course, Asked, Proxies, Asking, Receiving
    <3>3. Socket'
      BY <2>1, <3>1 DEF Socket, Reply, Enough, ThenTunnel, Remaining, Tells
    <3> QED BY <3>2, <3>3
  <2> QED BY <2>1, <2>2, <2>3 DEF ConnectionInv
<1> QED BY <1>1, <1>2, <1>3, <1>4, <1>5, <1>6, <1>7 DEF Next, Run, Progress

\* The invariant holds of every behaviour.
LEMMA AlwaysConnection == Spec => []ConnectionInv
  BY InitConnection, NextConnection, PTL DEF Spec

\* The invariant says where the peer's bytes are once connect_to has returned.
LEMMA AlignedThen == ConnectionInv => StreamAligned
<1> SUFFICES ASSUME ConnectionInv, step = "connected"
             PROVE  Len(inbox) = tunnel /\ \A i \in DOMAIN inbox : inbox[i] = Byte("tunnel", i)
  BY DEF StreamAligned
<1>1. result = "None"
  BY DEF ConnectionInv, Blamed
<1>2. /\ TypeInv /\ Asking /\ inbox \in Seq(StreamBytes) /\ tunnel \in Nat
      /\ answered = Len(requests) /\ Socket
  BY <1>1 DEF ConnectionInv, TypeInv, Course
<1>3. data = <<>> /\ Remaining(Reply) = 0
  BY <1>2 DEF Asking, Receiving, Remaining
<1>4. Reply = inbox
  BY <1>2, <1>3 DEF Reply
<1>5. ThenTunnel(inbox, 0)
  BY <1>2, <1>3, <1>4 DEF Socket
<1>6. Len(inbox) = tunnel /\ \A k \in 1..tunnel : inbox[0 + k] = Byte("tunnel", k)
  BY <1>2, <1>5 DEF ThenTunnel
<1>7. \A k \in 1..tunnel : inbox[k] = Byte("tunnel", k)
  BY <1>2, <1>6
<1> QED BY <1>2, <1>6, <1>7

\* When connect_to succeeds, every byte of every reply has been read and none
\* of the peer's, whatever the proxies are and wherever recv cut the stream
\* (StreamAligned, property of Connection.tla).
THEOREM AlwaysAligned == Spec => []StreamAligned
  BY AlwaysConnection, AlignedThen, PTL

\* The proxies are asked what Expected says, in that order (RequestsInOrder).
THEOREM AlwaysInOrder == Spec => []RequestsInOrder
<1>1. ConnectionInv => RequestsInOrder
  <2> SUFFICES ASSUME ConnectionInv PROVE RequestsInOrder
    OBVIOUS
  <2>1. /\ requests \in Seq(Requests) /\ Proxies \in Nat /\ Requested
        /\ step = "connected" => Len(requests) = 2 * Proxies
    BY SMTT(30) DEF ConnectionInv, TypeInv, Proxies, Blamed, Course, Asked
  <2>2. Len(Expected) = 2 * Proxies /\ DOMAIN Expected = 1..(2 * Proxies)
    BY <2>1 DEF Expected
  <2>3. /\ Len(requests) \in Nat /\ Len(requests) <= Len(Expected)
        /\ \A r \in 1..Len(requests) : requests[r] = Expected[r]
    BY <2>1, <2>2 DEF Requested
  <2>4. IsPrefix(requests, Expected)
    BY <2>1, <2>2, <2>3 DEF IsPrefix
  <2>5. step = "connected" => requests = Expected
    <3> SUFFICES ASSUME step = "connected" PROVE requests = Expected
      OBVIOUS
    <3>1. requests = [r \in 1..Len(requests) |-> requests[r]] /\ Len(requests) = 2 * Proxies
      BY <2>1
    <3>2. Expected = [r \in 1..(2 * Proxies) |-> Expected[r]]
      BY DEF Expected
    <3>3. PICK count : count = 2 * Proxies
      OBVIOUS
    <3>4. \A r \in 1..count : requests[r] = Expected[r]
      BY <2>3, <3>1, <3>3
    <3>5. [r \in 1..count |-> requests[r]] = [r \in 1..count |-> Expected[r]]
      BY <3>4
    <3> QED BY <3>1, <3>2, <3>3, <3>5
  <2> QED BY <2>4, <2>5 DEF RequestsInOrder
<1> QED BY <1>1, AlwaysConnection, PTL

\* connect_to succeeds only if every proxy agreed, and blames one only for a
\* refusal (VerdictHonest).
THEOREM AlwaysHonest == Spec => []VerdictHonest
<1>1. ConnectionInv => VerdictHonest
  <2> SUFFICES ASSUME ConnectionInv PROVE VerdictHonest
    OBVIOUS
  <2>1. Blamed
    BY DEF ConnectionInv
  <2>2. ASSUME step = "connected" PROVE refusals = {}
    <3>1. result = "None"
      BY <2>1, <2>2 DEF Blamed
    <3>2. answered = Len(requests) /\ Socket
      BY <2>2, <3>1 DEF ConnectionInv, Course
    <3> QED BY <2>2, <3>2 DEF Socket, Tells
  <2> QED BY <2>1, <2>2 DEF VerdictHonest, Blamed
<1> QED BY <1>1, AlwaysConnection, PTL

=============================================================================
