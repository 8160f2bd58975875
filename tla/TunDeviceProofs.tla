-------------------------- MODULE TunDeviceProofs --------------------------
(***************************************************************************)
(* Proofs about TunDevice, for every MTU and every modulus of the sequence *)
(* numbers: a call gets the answer to its own request, whatever earlier    *)
(* calls left in the netlink socket.  The socket's content is described by *)
(* what the waiting call will skip, return with and leave behind.          *)
(***************************************************************************)
EXTENDS TunDevice, SequenceTheorems, TLAPS

-----------------------------------------------------------------------------
(* The invariant *)

Messages == [type : {"ERROR", "NEWLINK"}, seq : Nat, error : BOOLEAN, bytes : Nat]
Datagrams == Seq(Messages)

TypeInv ==
    /\ stage \in {"open", "set_mtu_", "set_cidr_", "ready"}
    /\ mtu_ \in Nat
    /\ seq \in 0..(SeqModulus - 1)
    /\ call \in {"none"} \cup AllMethods
    /\ nlmsg_seq \in 0..(SeqModulus - 1)
    /\ stats \in Nat
    /\ sent \in BOOLEAN
    /\ nl \in Seq(Datagrams)
    /\ link \in [mtu : Nat, address : BOOLEAN, up : BOOLEAN, bytes : Nat]
    /\ refused \in BOOLEAN

\* The next request has another number than the latest.
Numbered == seq = (nlmsg_seq + 1) % SeqModulus

\* Where a call may be, and what it has reported when it is over.
Calls ==
    /\ call # "none" => result = "None" /\ call \in Methods(stage)
    /\ sent => call # "none" \/ result = "RecvFailed"
    /\ result = "NetlinkError" => call = "none" /\ ~sent /\ refused
    /\ call = "none" /\ result = "None" => ~sent /\ ~refused

\* A datagram the waiting call skips, and one it returns with: its first message
\* is the answer, says what the kernel did, and has counters no older than
\* those reported before.
Skipped(datagram) == \A i \in DOMAIN datagram : ~Answers(datagram[i])
Reports(message) ==
    /\ Answers(message)
    /\ message.error = refused
    /\ call = "get_stats" /\ ~refused => stats <= message.bytes /\ message.bytes <= link.bytes

\* What is left behind the answer of get_stats.
Leftover(datagram) == datagram = <<Ack(nlmsg_seq, FALSE)>>

\* The answer is datagram k.
AnswerAt(k) ==
    /\ \A i \in 1..(k - 1) : Skipped(nl[i])
    /\ nl[k] # <<>> /\ Reports(nl[k][1])
    /\ Len(nl) <= k + 1
    /\ \A i \in (k + 1)..Len(nl) : Leftover(nl[i])

\* What is in the socket between two calls, before the kernel has answered and
\* after.
Socket ==
    /\ call = "none" /\ result = "None"
         => Len(nl) <= 1 /\ \A i \in 1..Len(nl) : Leftover(nl[i])
    /\ call # "none" /\ sent
         => Len(nl) <= 1 /\ \A i \in 1..Len(nl) : Skipped(nl[i])
    /\ call # "none" /\ ~sent => \E k \in 1..Len(nl) : AnswerAt(k)

\* What create_tun_device has done so far.
Device ==
    /\ stage \in {"set_cidr_", "ready"} => mtu_ = mtu /\ link.mtu = mtu
    /\ stage = "ready" => link.address
    /\ call = "set_mtu_" /\ ~sent /\ ~refused => link.mtu = mtu
    /\ call = "set_cidr_" /\ ~sent /\ ~refused => link.address

DeviceInv == TypeInv /\ Numbered /\ Calls /\ Socket /\ Device /\ stats <= link.bytes

-----------------------------------------------------------------------------
(* Sequence numbers and answers *)

\* nl_next_seq_ never returns the number it returned before.
LEMMA NextSeq ==
    ASSUME NEW n \in 0..(SeqModulus - 1)
    PROVE  (n + 1) % SeqModulus \in 0..(SeqModulus - 1) /\ (n + 1) % SeqModulus # n
<1>1. SeqModulus \in Nat /\ SeqModulus >= 2 /\ n \in Int
  BY TunDeviceAssumption
<1>2. CASE n + 1 < SeqModulus
  <2>1. (n + 1) % SeqModulus = n + 1
    BY <1>1, <1>2
  <2> QED BY <1>1, <1>2, <2>1
<1>3. CASE n + 1 = SeqModulus
  <2>1. SeqModulus % SeqModulus = 0
    BY <1>1
  <2> QED BY <1>1, <1>3, <2>1
<1> QED BY <1>1, <1>2, <1>3

\* An answer in front is the one Recv returns with.
LEMMA FirstAnswers ==
    ASSUME NEW datagram \in Datagrams, datagram # <<>>, Answers(datagram[1])
    PROVE  LET answers == {i \in DOMAIN datagram : Answers(datagram[i])}
           IN  /\ answers # {}
               /\ datagram[CHOOSE i \in answers : \A j \in answers : i <= j] = datagram[1]
<1> DEFINE answers == {i \in DOMAIN datagram : Answers(datagram[i])}
           first == CHOOSE i \in answers : \A j \in answers : i <= j
<1>1. 1 \in answers /\ \A j \in answers : j \in Nat /\ 1 <= j
  BY DEF Datagrams
<1>2. first \in answers /\ \A j \in answers : first <= j
  <2> HIDE DEF answers
  <2> QED BY <1>1
<1>3. first = 1
  <2> HIDE DEF answers, first
  <2> QED BY <1>1, <1>2
<1> QED BY <1>1, <1>3


-----------------------------------------------------------------------------
(* Steps that do not touch the socket *)

\* The device is being opened and nothing has been asked of netlink.
LEMMA InitDevice == Init => DeviceInv
<1> SUFFICES ASSUME Init PROVE DeviceInv
  OBVIOUS
<1>1. 1 % SeqModulus = 1 /\ 0 + 1 = 1 /\ 1 \in 0..(SeqModulus - 1) /\ 0 \in 0..(SeqModulus - 1)
  BY TunDeviceAssumption
<1>2. Numbered
  BY <1>1 DEF Init, Numbered
<1>3. nl \in Seq(Datagrams) /\ link \in [mtu : Nat, address : BOOLEAN, up : BOOLEAN, bytes : Nat]
  BY DEF Init
<1>4. TypeInv
  BY <1>1, <1>3 DEF Init, TypeInv
<1>5. Calls /\ Socket /\ Device /\ stats <= link.bytes
  BY DEF Init, Calls, Socket, Device
<1> QED BY <1>2, <1>4, <1>5 DEF DeviceInv

\* The device is opened.
LEMMA CreateStep == DeviceInv /\ create_tun_device => DeviceInv'
<1> SUFFICES ASSUME DeviceInv, create_tun_device PROVE DeviceInv'
  OBVIOUS
<1>1. /\ UNCHANGED <<mtu_, seq, call, nlmsg_seq, stats, sent, nl, link, refused>>
      /\ stage = "open" /\ stage' \in {"open", "set_mtu_"} /\ result = "None"
      /\ result' # "NetlinkError"
      /\ result' \in {"None"} \cup OpenFailures
  BY DEF create_tun_device, kernel_vars, OpenFailures
<1>2. call = "none" /\ ~sent /\ ~refused
  BY <1>1 DEF DeviceInv, TypeInv, Calls, Methods
<1>3. TypeInv' /\ Numbered'
  BY <1>1 DEF DeviceInv, TypeInv, Numbered
<1>4. Calls'
  BY <1>1, <1>2 DEF Calls
<1>5. Socket' /\ Device'
  BY <1>1, <1>2 DEF DeviceInv, Socket, Device, Leftover, Ack
<1> QED BY <1>1, <1>3, <1>4, <1>5 DEF DeviceInv

\* Packets pass.
LEMMA TrafficStep == DeviceInv /\ KernelTraffic => DeviceInv'
<1> SUFFICES ASSUME DeviceInv, KernelTraffic PROVE DeviceInv'
  OBVIOUS
<1>1. /\ UNCHANGED <<stage, mtu_, seq, call, nlmsg_seq, result, stats, sent, nl, refused>>
      /\ link' = [link EXCEPT !.bytes = link.bytes + 1]
  BY DEF KernelTraffic, own_vars
<1>2. link \in [mtu : Nat, address : BOOLEAN, up : BOOLEAN, bytes : Nat] /\ stats \in Nat
  BY DEF DeviceInv, TypeInv
<1>3. /\ link' \in [mtu : Nat, address : BOOLEAN, up : BOOLEAN, bytes : Nat]
      /\ link'.mtu = link.mtu /\ link'.address = link.address /\ link'.bytes = link.bytes + 1
  BY <1>1, <1>2
<1>4. TypeInv' /\ Numbered' /\ Calls' /\ Device' /\ stats' <= link'.bytes
  BY <1>1, <1>2, <1>3 DEF DeviceInv, TypeInv, Numbered, Calls, Device
<1>5. \A d : (Leftover(d) <=> Leftover(d)') /\ (Skipped(d) <=> Skipped(d)')
  BY <1>1 DEF Leftover, Ack, Skipped, Answers
<1>6. ASSUME NEW k \in 1..Len(nl), call # "none", ~sent, AnswerAt(k) PROVE AnswerAt(k)'
  <2>1. nl[k] \in Datagrams /\ nl[k] # <<>>
    BY <1>6 DEF DeviceInv, TypeInv, AnswerAt
  <2>2. nl[k][1] \in Messages
    BY <2>1 DEF Datagrams
  <2>3. nl[k][1].bytes \in Nat /\ link.bytes \in Nat
    BY <1>2, <2>2 DEF Messages
  <2>4. Reports(nl[k][1])'
    BY <1>1, <1>2, <1>3, <1>6, <2>3 DEF AnswerAt, Reports, Answers
  <2> QED BY <1>1, <1>5, <1>6, <2>4 DEF AnswerAt
<1>7. Socket'
  BY <1>1, <1>5, <1>6 DEF DeviceInv, Socket
<1> QED BY <1>4, <1>7 DEF DeviceInv

\* recv fails, whatever is in the socket.
LEMMA RecvFailedStep == DeviceInv /\ RecvFailed => DeviceInv'
<1> SUFFICES ASSUME DeviceInv, RecvFailed PROVE DeviceInv'
  OBVIOUS
<1>1. /\ UNCHANGED <<stage, mtu_, seq, nlmsg_seq, stats, sent, nl, link, refused>>
      /\ call' = "none" /\ result' = "RecvFailed"
  BY DEF RecvFailed, kernel_vars
<1>2. TypeInv' /\ Numbered' /\ Calls' /\ Socket' /\ Device'
  BY <1>1 DEF DeviceInv, TypeInv, Numbered, Calls, Socket, Device
<1> QED BY <1>1, <1>2 DEF DeviceInv

-----------------------------------------------------------------------------
(* Requests and answers *)

\* A request: what is still in the socket does not answer it.
LEMMA SendStep ==
    ASSUME DeviceInv, NEW method \in AllMethods, nl_send_raw_(method) PROVE DeviceInv'
<1>1. /\ UNCHANGED <<stage, mtu_, stats, nl, link, refused>>
      /\ nlmsg_seq' = seq /\ seq' = (seq + 1) % SeqModulus
      /\ result = "None" /\ call = "none" /\ method \in Methods(stage) /\ method # "none"
      /\ \/ call' = method /\ sent' = TRUE /\ result' = result
         \/ result' = "SendFailed" /\ call' = call /\ sent' = sent
  BY DEF nl_send_raw_, nl_next_seq_, AllMethods
<1>2. /\ ~sent /\ ~refused /\ Len(nl) <= 1 /\ \A i \in 1..Len(nl) : Leftover(nl[i])
      /\ seq \in 0..(SeqModulus - 1) /\ nlmsg_seq \in 0..(SeqModulus - 1) /\ Numbered
  BY <1>1 DEF DeviceInv, TypeInv, Calls, Socket
<1>3. seq' \in 0..(SeqModulus - 1) /\ seq # nlmsg_seq
  BY <1>1, <1>2, NextSeq DEF Numbered
<1>4. TypeInv' /\ Numbered'
  BY <1>1, <1>2, <1>3 DEF DeviceInv, TypeInv, Numbered
<1>5. Calls' /\ Device'
  BY <1>1, <1>2 DEF DeviceInv, Calls, Device
<1>6. ASSUME NEW i \in 1..Len(nl) PROVE Skipped(nl[i])'
  <2>1. nl[i] = <<Ack(nlmsg_seq, FALSE)>>
    BY <1>2 DEF Leftover
  <2>2. Ack(nlmsg_seq, FALSE).seq # nlmsg_seq'
    BY <1>1, <1>3 DEF Ack
  <2>3. DOMAIN nl'[i] = {1} /\ nl'[i][1] = Ack(nlmsg_seq, FALSE)
    BY <1>1, <2>1
  <2> QED BY <1>1, <2>2, <2>3 DEF Skipped, Answers
<1>7. Socket'
  BY <1>1, <1>2, <1>6 DEF Socket
<1> QED BY <1>1, <1>4, <1>5, <1>7 DEF DeviceInv

\* What a request does to the interface.
LEMMA AppliedFacts ==
    ASSUME link \in [mtu : Nat, address : BOOLEAN, up : BOOLEAN, bytes : Nat], NEW method
    PROVE  /\ Applied(method) \in [mtu : Nat, address : BOOLEAN, up : BOOLEAN, bytes : Nat]
           /\ Applied(method).bytes = link.bytes
           /\ Applied(method).mtu = (IF method = "set_mtu_" THEN mtu ELSE link.mtu)
           /\ link.address => Applied(method).address
           /\ method = "set_cidr_" => Applied(method).address
  BY TunDeviceAssumption DEF Applied


\* The socket after a first datagram d1, or two, behind those there were.
LEMMA Queued ==
    ASSUME NEW s \in Seq(Datagrams), NEW d1 \in Datagrams, NEW d2 \in Datagrams
    PROVE  /\ s \o <<d1>> \in Seq(Datagrams) /\ Len(s \o <<d1>>) = Len(s) + 1
           /\ (s \o <<d1>>)[Len(s) + 1] = d1
           /\ \A i \in 1..Len(s) : (s \o <<d1>>)[i] = s[i]
           /\ s \o <<d1, d2>> \in Seq(Datagrams) /\ Len(s \o <<d1, d2>>) = Len(s) + 2
           /\ (s \o <<d1, d2>>)[Len(s) + 1] = d1 /\ (s \o <<d1, d2>>)[Len(s) + 2] = d2
           /\ \A i \in 1..Len(s) : (s \o <<d1, d2>>)[i] = s[i]
<1>1. <<d1>> \in Seq(Datagrams) /\ <<d1, d2>> \in Seq(Datagrams)
      /\ Len(<<d1>>) = 1 /\ Len(<<d1, d2>>) = 2
  OBVIOUS
<1> QED BY <1>1

\* The kernel answers.
LEMMA AnswerStep ==
    ASSUME DeviceInv, NEW error \in BOOLEAN, NEW bare \in BOOLEAN, NEW batched \in BOOLEAN,
           KernelAnswer(error, bare, batched)
    PROVE  DeviceInv'
<1>a. PICK ack : ack = Ack(nlmsg_seq, error)
  OBVIOUS
<1>c. PICK counters : counters = NewLink(nlmsg_seq, bare, IF bare THEN 0 ELSE link.bytes)
  OBVIOUS
<1>1. /\ UNCHANGED <<stage, mtu_, seq, call, nlmsg_seq, result, stats>>
      /\ sent = TRUE /\ sent' = FALSE
      /\ refused' = (error \/ (call = "get_stats" /\ bare))
      /\ link' = IF error THEN link ELSE Applied(call)
      /\ nl' = nl \o (IF call # "get_stats" \/ error THEN << <<ack>> >>
                      ELSE IF batched THEN << <<counters, ack>> >>
                      ELSE << <<counters>>, <<ack>> >>)
  BY <1>a, <1>c DEF KernelAnswer, own_vars
<1>2. /\ nl \in Seq(Datagrams) /\ nlmsg_seq \in Nat /\ stats \in Nat /\ stats <= link.bytes
      /\ link \in [mtu : Nat, address : BOOLEAN, up : BOOLEAN, bytes : Nat]
      /\ link.bytes \in Nat /\ Len(nl) \in Nat
  BY TunDeviceAssumption DEF DeviceInv, TypeInv
<1>3. /\ link' \in [mtu : Nat, address : BOOLEAN, up : BOOLEAN, bytes : Nat]
      /\ link'.bytes = link.bytes
      /\ ~error => link'.mtu = (IF call = "set_mtu_" THEN mtu ELSE link.mtu)
      /\ error => link' = link
      /\ link.address => link'.address
      /\ ~error /\ call = "set_cidr_" => link'.address
  BY <1>1, <1>2, AppliedFacts
<1>4. ack \in Messages /\ counters \in Messages
  BY <1>2, <1>a, <1>c DEF Ack, NewLink, Messages
<1>5. /\ <<ack>> \in Datagrams /\ <<counters>> \in Datagrams /\ <<counters, ack>> \in Datagrams
      /\ <<ack>>[1] = ack /\ <<counters>>[1] = counters /\ <<counters, ack>>[1] = counters
      /\ <<ack>> # <<>> /\ <<counters>> # <<>> /\ <<counters, ack>> # <<>>
  BY <1>4 DEF Datagrams
<1>6. /\ Answers(ack)' <=> (call = "get_stats" => error)
      /\ Answers(counters)' <=> call = "get_stats"
      /\ ack.error = error /\ counters.error = bare
      /\ ~bare => counters.bytes = link.bytes
  BY <1>1, <1>a, <1>c DEF Answers, Ack, NewLink
<1>7. /\ (call # "get_stats" \/ error) => Reports(ack)'
      /\ ~(call # "get_stats" \/ error) => Reports(counters)'
  BY <1>1, <1>2, <1>3, <1>6 DEF Reports
<1>8. ~error => Leftover(<<ack>>)'
  BY <1>1, <1>a DEF Leftover, Ack
<1>9. nl' \in Seq(Datagrams)
  BY <1>1, <1>2, <1>5, Queued
<1>10. TypeInv' /\ Numbered' /\ Calls' /\ stats' <= link'.bytes
  <2>1. refused' \in BOOLEAN
    BY <1>1
  <2> QED BY <1>1, <1>2, <1>3, <1>9, <2>1 DEF DeviceInv, TypeInv, Numbered, Calls
<1>11. Device'
  BY <1>1, <1>2, <1>3, TunDeviceAssumption DEF DeviceInv, Device
<1>12. ASSUME call # "none" PROVE \E k \in 1..Len(nl') : AnswerAt(k)'
  <2>0. PICK k \in Nat : k = Len(nl) + 1
    BY <1>2
  <2>1. \A i \in 1..Len(nl) : Skipped(nl[i])
    BY <1>1, <1>12 DEF DeviceInv, Socket
  <2>2. \A d : Skipped(d) <=> Skipped(d)'
    BY <1>1 DEF Skipped, Answers
  <2>3. CASE call # "get_stats" \/ error
    <3>1. nl' = nl \o << <<ack>> >>
      BY <1>1, <2>3
    <3>2. /\ Len(nl') = k /\ nl'[k] = <<ack>> /\ \A i \in 1..Len(nl) : nl'[i] = nl[i]
      BY <1>2, <1>5, <2>0, <3>1, Queued
    <3>3. k \in 1..Len(nl') /\ Len(nl') <= k + 1 /\ 1..(k - 1) = 1..Len(nl)
          /\ (k + 1)..Len(nl') = {}
      BY <1>2, <2>0, <3>2
    <3>4. \A i \in 1..(k - 1) : Skipped(nl[i])'
      <4> SUFFICES ASSUME NEW i \in 1..(k - 1) PROVE Skipped(nl[i])'
        OBVIOUS
      <4>1. nl'[i] = nl[i] /\ Skipped(nl[i])
        BY <2>1, <3>2, <3>3
      <4> QED BY <1>1, <4>1 DEF Skipped, Answers
    <3>5. nl'[k] # <<>> /\ Reports(nl[k][1])'
      <4>1. nl'[k] # <<>> /\ nl'[k][1] = ack /\ Reports(ack)'
        BY <1>5, <1>7, <2>3, <3>2
      <4> QED BY <4>1 DEF Reports, Answers
    <3>6. \A i \in (k + 1)..Len(nl') : Leftover(nl[i])'
      BY <3>3
    <3>7. AnswerAt(k)'
      BY <3>3, <3>4, <3>5, <3>6 DEF AnswerAt
    <3> QED BY <3>3, <3>7
  <2>4. CASE ~(call # "get_stats" \/ error) /\ batched
    <3>1. nl' = nl \o << <<counters, ack>> >>
      BY <1>1, <2>4
    <3>2. /\ Len(nl') = k /\ nl'[k] = <<counters, ack>> /\ \A i \in 1..Len(nl) : nl'[i] = nl[i]
      BY <1>2, <1>5, <2>0, <3>1, Queued
    <3>3. k \in 1..Len(nl') /\ Len(nl') <= k + 1 /\ 1..(k - 1) = 1..Len(nl)
          /\ (k + 1)..Len(nl') = {}
      BY <1>2, <2>0, <3>2
    <3>4. \A i \in 1..(k - 1) : Skipped(nl[i])'
      <4> SUFFICES ASSUME NEW i \in 1..(k - 1) PROVE Skipped(nl[i])'
        OBVIOUS
      <4>1. nl'[i] = nl[i] /\ Skipped(nl[i])
        BY <2>1, <3>2, <3>3
      <4> QED BY <1>1, <4>1 DEF Skipped, Answers
    <3>5. nl'[k] # <<>> /\ Reports(nl[k][1])'
      <4>1. nl'[k] # <<>> /\ nl'[k][1] = counters /\ Reports(counters)'
        BY <1>5, <1>7, <2>4, <3>2
      <4> QED BY <4>1 DEF Reports, Answers
    <3>6. \A i \in (k + 1)..Len(nl') : Leftover(nl[i])'
      BY <3>3
    <3>7. AnswerAt(k)'
      BY <3>3, <3>4, <3>5, <3>6 DEF AnswerAt
    <3> QED BY <3>3, <3>7
  <2>5. CASE ~(call # "get_stats" \/ error) /\ ~batched
    <3>1. nl' = nl \o << <<counters>>, <<ack>> >>
      BY <1>1, <2>5
    <3>2. /\ Len(nl') = k + 1 /\ nl'[k] = <<counters>> /\ nl'[k + 1] = <<ack>>
          /\ \A i \in 1..Len(nl) : nl'[i] = nl[i]
      <4>1. Len(nl) + 2 = k + 1
        BY <1>2, <2>0
      <4> QED BY <1>2, <1>5, <2>0, <3>1, <4>1, Queued
    <3>3. k \in 1..Len(nl') /\ Len(nl') <= k + 1 /\ 1..(k - 1) = 1..Len(nl)
          /\ (k + 1)..Len(nl') = {k + 1}
      BY <1>2, <2>0, <3>2
    <3>4. \A i \in 1..(k - 1) : Skipped(nl[i])'
      <4> SUFFICES ASSUME NEW i \in 1..(k - 1) PROVE Skipped(nl[i])'
        OBVIOUS
      <4>1. nl'[i] = nl[i] /\ Skipped(nl[i])
        BY <2>1, <3>2, <3>3
      <4> QED BY <1>1, <4>1 DEF Skipped, Answers
    <3>5. nl'[k] # <<>> /\ Reports(nl[k][1])'
      <4>1. nl'[k] # <<>> /\ nl'[k][1] = counters /\ Reports(counters)'
        BY <1>5, <1>7, <2>5, <3>2
      <4> QED BY <4>1 DEF Reports, Answers
    <3>6. \A i \in (k + 1)..Len(nl') : Leftover(nl[i])'
      <4>1. Leftover(<<ack>>)'
        BY <1>8, <2>5
      <4> QED BY <3>2, <3>3, <4>1 DEF Leftover
    <3>7. AnswerAt(k)'
      BY <3>3, <3>4, <3>5, <3>6 DEF AnswerAt
    <3> QED BY <3>3, <3>7
  <2> QED BY <2>3, <2>4, <2>5
<1>13. Socket'
  <2>1. call = "none" => result = "RecvFailed"
    BY <1>1 DEF DeviceInv, Calls
  <2> QED BY <1>1, <1>12, <2>1 DEF Socket
<1> QED BY <1>10, <1>11, <1>13 DEF DeviceInv

\* A call reads a datagram: it skips it, or returns with its first message.
LEMMA RecvFacts ==
    ASSUME DeviceInv, Recv
    PROVE  /\ call # "none" /\ nl # <<>> /\ nl' = Tail(nl)
           /\ UNCHANGED <<seq, nlmsg_seq, sent, link, refused>>
           /\ \/ Skipped(nl[1]) /\ UNCHANGED <<stage, mtu_, call, result, stats>>
                 /\ (~sent => \E k \in 2..Len(nl) : AnswerAt(k))
              \/ ~sent /\ AnswerAt(1) /\ Return(nl[1][1])
<1>1. /\ call # "none" /\ nl # <<>> /\ nl' = Tail(nl)
      /\ UNCHANGED <<seq, nlmsg_seq, sent, link, refused>>
  BY DEF Recv
<1>2. nl \in Seq(Datagrams) /\ Head(nl) = nl[1] /\ nl[1] \in Datagrams /\ Len(nl) \in Nat
      /\ 1 \in 1..Len(nl)
  BY <1>1 DEF DeviceInv, TypeInv
<1>3. CASE Skipped(nl[1])
  <2>1. {i \in DOMAIN nl[1] : Answers(nl[1][i])} = {}
    BY <1>3 DEF Skipped
  <2>2. UNCHANGED <<stage, mtu_, call, result, stats>>
    BY <1>2, <2>1 DEF Recv
  <2>3. ASSUME ~sent PROVE \E k \in 2..Len(nl) : AnswerAt(k)
    <3>1. PICK k \in 1..Len(nl) : AnswerAt(k)
      BY <1>1, <2>3 DEF DeviceInv, Socket
    <3>2. k # 1
      <4> SUFFICES ASSUME k = 1 PROVE FALSE
        OBVIOUS
      <4>1. nl[1] # <<>> /\ Answers(nl[1][1])
        BY <3>1 DEF AnswerAt, Reports
      <4>2. 1 \in DOMAIN nl[1]
        BY <1>2, <4>1 DEF Datagrams
      <4> QED BY <1>3, <4>1, <4>2 DEF Skipped
    <3> QED BY <1>2, <3>1, <3>2
  <2> QED BY <1>1, <1>3, <2>2, <2>3
<1>4. CASE ~Skipped(nl[1])
  <2>1. ~sent
    BY <1>1, <1>2, <1>4 DEF DeviceInv, TypeInv, Socket
  <2>2. PICK k \in 1..Len(nl) : AnswerAt(k)
    BY <1>1, <2>1 DEF DeviceInv, Socket
  <2>3. k = 1
    <3> SUFFICES ASSUME k # 1 PROVE FALSE
      OBVIOUS
    <3>1. 1 \in 1..(k - 1)
      BY <1>2
    <3> QED BY <1>4, <2>2, <3>1 DEF AnswerAt
  <2>4. AnswerAt(1) /\ nl[1] # <<>> /\ Answers(nl[1][1])
    BY <2>2, <2>3 DEF AnswerAt, Reports
  <2>5. Return(nl[1][1])
    <3>1. {i \in DOMAIN nl[1] : Answers(nl[1][i])} # {}
      BY <1>2, <2>4, FirstAnswers
    <3> QED BY <1>2, <2>4, <3>1, FirstAnswers DEF Recv
  <2> QED BY <1>1, <2>1, <2>4, <2>5
<1> QED BY <1>3, <1>4


\* The socket without its first datagram.
LEMMA TailFacts ==
    ASSUME NEW s \in Seq(Datagrams), s # <<>>
    PROVE  /\ Tail(s) \in Seq(Datagrams) /\ Len(Tail(s)) = Len(s) - 1
           /\ \A i \in 1..(Len(s) - 1) : Tail(s)[i] = s[i + 1]
  OBVIOUS

\* A skipped datagram leaves the answer where it is, one place nearer.
LEMMA SkipStep ==
    ASSUME DeviceInv, Recv, Skipped(nl[1]), UNCHANGED <<stage, mtu_, call, result, stats>>,
           ~sent => \E k \in 2..Len(nl) : AnswerAt(k)
    PROVE  DeviceInv'
<1>1. /\ UNCHANGED <<stage, mtu_, seq, call, nlmsg_seq, result, stats, sent, link, refused>>
      /\ nl' = Tail(nl) /\ nl # <<>> /\ call # "none"
  BY RecvFacts
<1>2. /\ nl \in Seq(Datagrams) /\ nl' \in Seq(Datagrams) /\ Len(nl') = Len(nl) - 1
      /\ Len(nl) \in Nat /\ \A i \in 1..(Len(nl) - 1) : nl'[i] = nl[i + 1]
  BY <1>1, TailFacts DEF DeviceInv, TypeInv
<1>3. TypeInv' /\ Numbered' /\ Calls' /\ Device' /\ stats' <= link'.bytes
  BY <1>1, <1>2 DEF DeviceInv, TypeInv, Numbered, Calls, Device
<1>4. CASE sent
  <2>1. Len(nl) <= 1
    BY <1>1, <1>4 DEF DeviceInv, Socket
  <2>2. Len(nl') <= 1 /\ 1..Len(nl') = {}
    BY <1>2, <2>1
  <2> QED BY <1>1, <1>3, <1>4, <2>2 DEF DeviceInv, Socket
<1>5. CASE ~sent
  <2>1. PICK k \in 2..Len(nl) : AnswerAt(k)
    BY <1>5
  <2>2. PICK m \in Nat : m = k - 1
    OBVIOUS
  <2>3. /\ m \in 1..Len(nl') /\ nl'[m] = nl[k]
        /\ \A i \in 1..(m - 1) : i + 1 \in 1..(k - 1) /\ nl'[i] = nl[i + 1]
        /\ \A i \in (m + 1)..Len(nl') : i + 1 \in (k + 1)..Len(nl) /\ nl'[i] = nl[i + 1]
        /\ Len(nl) <= k + 1 => Len(nl') <= m + 1
    BY <1>2, <2>2, SMTT(30)
  <2>4. \A i \in 1..(m - 1) : Skipped(nl[i])'
    <3> SUFFICES ASSUME NEW i \in 1..(m - 1) PROVE Skipped(nl[i])'
      OBVIOUS
    <3>1. nl'[i] = nl[i + 1] /\ Skipped(nl[i + 1])
      BY <2>1, <2>3 DEF AnswerAt
    <3> QED BY <1>1, <3>1 DEF Skipped, Answers
  <2>5. \A i \in (m + 1)..Len(nl') : Leftover(nl[i])'
    <3> SUFFICES ASSUME NEW i \in (m + 1)..Len(nl') PROVE Leftover(nl[i])'
      OBVIOUS
    <3>1. nl'[i] = nl[i + 1] /\ Leftover(nl[i + 1])
      BY <2>1, <2>3 DEF AnswerAt
    <3> QED BY <1>1, <3>1 DEF Leftover, Ack
  <2>6. nl'[m] # <<>> /\ Reports(nl[m][1])'
    <3>1. nl[k] # <<>> /\ Reports(nl[k][1])
      BY <2>1 DEF AnswerAt
    <3> QED BY <1>1, <2>3, <3>1 DEF Reports, Answers
  <2>7. AnswerAt(m)'
    BY <2>1, <2>3, <2>4, <2>5, <2>6 DEF AnswerAt
  <2> QED BY <1>1, <1>3, <1>5, <2>3, <2>7 DEF DeviceInv, Socket
<1> QED BY <1>4, <1>5

\* The answer ends the call, and nothing but an acknowledgement stays behind.
LEMMA ReturnStep ==
    ASSUME DeviceInv, Recv, ~sent, AnswerAt(1), Return(nl[1][1]) PROVE DeviceInv'
<1> DEFINE message == nl[1][1]
<1>1. /\ UNCHANGED <<seq, nlmsg_seq, sent, link, refused>>
      /\ nl' = Tail(nl) /\ nl # <<>> /\ call # "none"
  BY RecvFacts
<1>2. /\ nl \in Seq(Datagrams) /\ nl' \in Seq(Datagrams) /\ Len(nl') = Len(nl) - 1
      /\ Len(nl) \in Nat /\ \A i \in 1..(Len(nl) - 1) : nl'[i] = nl[i + 1]
  BY <1>1, TailFacts DEF DeviceInv, TypeInv
<1>3. message \in Messages
  <2>1. nl[1] \in Datagrams /\ nl[1] # <<>>
    BY <1>1, <1>2 DEF AnswerAt
  <2> QED BY <2>1 DEF Datagrams
<1>4. /\ message.error = refused /\ message.bytes \in Nat /\ refused \in BOOLEAN
      /\ call = "get_stats" /\ ~refused => stats <= message.bytes /\ message.bytes <= link.bytes
  BY <1>3 DEF AnswerAt, Reports, Messages, DeviceInv, TypeInv
<1> HIDE DEF message
<1>5. /\ call' = "none" /\ result' = IF refused THEN "NetlinkError" ELSE "None"
      /\ stats' = IF call = "get_stats" /\ ~refused THEN message.bytes ELSE stats
      /\ mtu_' = IF call = "set_mtu_" /\ ~refused THEN mtu ELSE mtu_
      /\ stage' = IF refused THEN stage
                  ELSE IF call = "set_mtu_" THEN "set_cidr_"
                  ELSE IF call = "set_cidr_" THEN "ready"
                  ELSE stage
  BY <1>4 DEF Return, message
<1>6. call \in Methods(stage) /\ result = "None"
  BY <1>1 DEF DeviceInv, Calls
<1>7. TypeInv' /\ Numbered'
  BY <1>1, <1>2, <1>4, <1>5, TunDeviceAssumption DEF DeviceInv, TypeInv, Numbered
<1>8. Calls'
  BY <1>1, <1>5 DEF DeviceInv, Calls
<1>9. Device'
  BY <1>1, <1>5, <1>6 DEF DeviceInv, Device, Methods
<1>10. stats' <= link'.bytes
  BY <1>1, <1>4, <1>5 DEF DeviceInv
<1>11. Socket'
  <2>1. Len(nl) <= 2 /\ \A i \in 2..Len(nl) : Leftover(nl[i])
    BY DEF AnswerAt
  <2>2. Len(nl') <= 1 /\ \A i \in 1..Len(nl') : i + 1 \in 2..Len(nl) /\ nl'[i] = nl[i + 1]
    BY <1>2, <2>1
  <2>3. ASSUME NEW i \in 1..Len(nl') PROVE Leftover(nl[i])'
    <3>1. nl'[i] = nl[i + 1] /\ Leftover(nl[i + 1])
      BY <2>1, <2>2
    <3> QED BY <1>1, <3>1 DEF Leftover, Ack
  <2> QED BY <1>5, <2>2, <2>3 DEF Socket
<1> QED BY <1>7, <1>8, <1>9, <1>10, <1>11 DEF DeviceInv

\* Every step keeps the invariant.
LEMMA NextDevice == DeviceInv /\ [Next]_vars => DeviceInv'
<1> SUFFICES ASSUME DeviceInv, [Next]_vars PROVE DeviceInv'
  OBVIOUS
<1>1. CASE Recv
  <2>1. CASE Skipped(nl[1]) /\ UNCHANGED <<stage, mtu_, call, result, stats>>
             /\ (~sent => \E k \in 2..Len(nl) : AnswerAt(k))
    BY <1>1, <2>1, SkipStep
  <2>2. CASE ~sent /\ AnswerAt(1) /\ Return(nl[1][1])
    BY <1>1, <2>2, ReturnStep
  <2> QED BY <1>1, <2>1, <2>2, RecvFacts
<1>2. CASE UNCHANGED vars
  <2>1. /\ UNCHANGED <<stage, mtu_, seq, call, nlmsg_seq, result, stats>>
        /\ UNCHANGED <<sent, nl, link, refused>>
    BY <1>2 DEF vars, own_vars, kernel_vars
  <2>2. TypeInv' /\ Numbered' /\ Calls' /\ Device' /\ stats' <= link'.bytes
    BY <2>1 DEF DeviceInv, TypeInv, Numbered, Calls, Device
  <2>3. \A k : AnswerAt(k) => AnswerAt(k)'
    BY <2>1 DEF AnswerAt, Skipped, Leftover, Reports, Answers, Ack
  <2>4. Socket'
    <3>1. call' = "none" /\ result' = "None"
            => Len(nl') <= 1 /\ \A i \in 1..Len(nl') : Leftover(nl[i])'
      BY <2>1 DEF DeviceInv, Socket, Leftover, Ack
    <3>2. call' # "none" /\ sent'
            => Len(nl') <= 1 /\ \A i \in 1..Len(nl') : Skipped(nl[i])'
      BY <2>1 DEF DeviceInv, Socket, Skipped, Answers
    <3>3. call' # "none" /\ ~sent' => \E k \in 1..Len(nl') : AnswerAt(k)'
      BY <2>1, <2>3 DEF DeviceInv, Socket
    <3> QED BY <3>1, <3>2, <3>3 DEF Socket
  <2> QED BY <2>2, <2>4 DEF DeviceInv
<1>3. CASE \E method \in AllMethods : nl_send_raw_(method)
  BY <1>3, SendStep
<1>4. CASE KernelAnswers
  BY <1>4, AnswerStep DEF KernelAnswers
<1> QED BY <1>1, <1>2, <1>3, <1>4, CreateStep, TrafficStep, RecvFailedStep DEF Next

\* The invariant holds in every behaviour.
LEMMA AlwaysDevice == Spec => []DeviceInv
  BY InitDevice, NextDevice, PTL DEF Spec

-----------------------------------------------------------------------------
(* The theorems *)

\* Whatever earlier calls of nl_send_acked_ and get_stats left in the socket, and
\* however the kernel cuts its answers into datagrams: a call succeeds only if the
\* kernel did what this call asked, and reports an error only if it refused.
THEOREM AnswersAreOurs == Spec => []AnswerIsOurs
<1>1. DeviceInv => AnswerIsOurs
  BY DEF DeviceInv, Calls, AnswerIsOurs
<1> QED BY <1>1, AlwaysDevice, PTL

\* The netlink socket never fills up: between two calls it holds at most the
\* acknowledgement get_stats did not wait for.
THEOREM SocketStaysDrained == Spec => []SocketDrained
<1>1. DeviceInv => SocketDrained
  BY DEF DeviceInv, Socket, SocketDrained
<1> QED BY <1>1, AlwaysDevice, PTL

\* A device create_tun_device returns has the MTU it reports, and an address.
THEOREM DeviceIsConfigured == Spec => []DeviceConfigured
<1>1. DeviceInv => DeviceConfigured
  BY DEF DeviceInv, Device, DeviceConfigured
<1> QED BY <1>1, AlwaysDevice, PTL

\* The counters get_stats returns never go back, also when the answer of an
\* earlier call is still in the socket.
THEOREM StatsGrow == Spec => StatsNeverGoBack
<1>1. DeviceInv /\ [Next]_vars => stats' >= stats
  <2> SUFFICES ASSUME DeviceInv, [Next]_vars PROVE stats' >= stats
    OBVIOUS
  <2>1. stats \in Nat
    BY DEF DeviceInv, TypeInv
  <2>2. CASE stats' = stats
    BY <2>1, <2>2
  <2>3. CASE ~sent /\ AnswerAt(1) /\ Return(nl[1][1]) /\ call # "none" /\ nl # <<>>
    <3>1. nl[1] \in Datagrams /\ nl[1] # <<>>
      BY <2>3 DEF DeviceInv, TypeInv, AnswerAt
    <3>2. nl[1][1] \in Messages
      BY <3>1 DEF Datagrams
    <3>3. nl[1][1].bytes \in Nat
      BY <3>2 DEF Messages
    <3> QED BY <2>1, <2>3, <3>3 DEF AnswerAt, Reports, Return
  <2>4. Recv => \/ stats' = stats
                \/ ~sent /\ AnswerAt(1) /\ Return(nl[1][1]) /\ call # "none" /\ nl # <<>>
    BY RecvFacts
  <2>5. ~Recv => stats' = stats
    BY DEF Next, create_tun_device, nl_send_raw_, RecvFailed, KernelAnswers, KernelAnswer,
           KernelTraffic, own_vars, vars
  <2> QED BY <2>2, <2>3, <2>4, <2>5
<1> QED BY <1>1, AlwaysDevice, PTL DEF Spec, StatsNeverGoBack

=============================================================================
