----------------------------- MODULE TunDevice -----------------------------
(***************************************************************************)
(* zportal::TunDevice: the TUN interface is configured, and its statistics *)
(* are read, with requests on one netlink socket.  Every request carries a *)
(* sequence number and its caller reads datagrams until one of them holds  *)
(* the answer; get_stats returns at the link message and leaves the        *)
(* acknowledgement behind it in the socket, for the next call to skip.     *)
(***************************************************************************)
EXTENDS Integers, Sequences

CONSTANTS
    mtu,            \* the MTU asked for on the command line
    SeqModulus,     \* sequence numbers are taken modulo this (2^32)
    MaxBytes,       \* bound: traffic of the interface, in its counter
    IoErrors        \* whether system calls and requests may fail

ASSUME TunDeviceAssumption ==
    /\ mtu \in Nat \ {0}
    /\ SeqModulus \in Nat /\ SeqModulus >= 2
    /\ MaxBytes \in Nat
    /\ IoErrors \in BOOLEAN

VARIABLES
    stage,          \* progress of create_tun_device: the next request, "ready" after it
    mtu_,           \* the MTU the object reports, 0 before set_mtu_
    seq,            \* static counter of nl_next_seq_
    call,           \* the method waiting for its answer, or "none"
    nlmsg_seq,      \* sequence number of its request
    result,         \* "None" until a call fails, then its error
    stats,          \* what the last get_stats returned
    \* the kernel
    sent,           \* a request waits for the kernel
    nl,             \* datagrams in the netlink socket, each a list of messages
    link,           \* the interface: [mtu, address, up, bytes]
    \* history
    refused         \* whether the kernel refused the latest request or left out the counters

own_vars == <<stage, mtu_, seq, call, nlmsg_seq, result, stats>>
kernel_vars == <<sent, nl, link, refused>>
vars == <<own_vars, kernel_vars>>

-----------------------------------------------------------------------------
(* Messages of the kernel *)

\* NLMSG_ERROR acknowledges or refuses; RTM_NEWLINK describes the interface
\* asked for, with or without (error) its counters.
Ack(number, error) == [type |-> "ERROR", seq |-> number, error |-> error, bytes |-> 0]
NewLink(number, error, bytes) ==
    [type |-> "NEWLINK", seq |-> number, error |-> error, bytes |-> bytes]

-----------------------------------------------------------------------------
(* Calls *)

\* What may be called: create_tun_device makes its requests in this order, the
\* rest of the program uses a created device.
Methods(at) ==
    CASE at = "set_mtu_" -> {"set_mtu_"}
      [] at = "set_cidr_" -> {"set_cidr_"}
      [] at = "ready" -> {"set_up", "set_down", "get_stats"}
      [] OTHER -> {}

\* Opening /dev/net/tun, naming the interface and binding the netlink socket.
OpenFailures ==
    IF IoErrors THEN {"TunOpenFailed", "TunIoctlFailed", "TunNameToIndexFailed",
                      "SocketCreateFailed", "BindFailed"} ELSE {}

create_tun_device ==
    /\ stage = "open"
    /\ result = "None"
    /\ result' \in {"None"} \cup OpenFailures
    /\ stage' = IF result' = "None" THEN "set_mtu_" ELSE "open"
    /\ UNCHANGED <<mtu_, seq, call, nlmsg_seq, stats, kernel_vars>>

nl_next_seq_ == (seq + 1) % SeqModulus

\* A method numbers its request and sends it; sendmsg may fail.
nl_send_raw_(method) ==
    /\ result = "None"
    /\ call = "none"
    /\ method \in Methods(stage)
    /\ nlmsg_seq' = seq
    /\ seq' = nl_next_seq_
    /\ \/ call' = method /\ sent' = TRUE /\ UNCHANGED result
       \/ IoErrors /\ result' = "SendFailed" /\ UNCHANGED <<call, sent>>
    /\ UNCHANGED <<stage, mtu_, stats, nl, link, refused>>

\* Mutant: the sequence number of an answer is not looked at.
AnswersAny(message) ==
    IF call = "get_stats"
    THEN message.type = "NEWLINK" \/ (message.type = "ERROR" /\ message.error)
    ELSE message.type = "ERROR"

\* Mutant: get_stats waits for a refusal only.
AnswersNoLink(message) ==
    /\ message.seq = nlmsg_seq
    /\ message.type = "ERROR"
    /\ call = "get_stats" => message.error

\* A message that ends the wait: any verdict on the request, or, in get_stats,
\* the link message or a refusal.  (RTM_NEWLINK with this sequence number is
\* about index_, so get_stats' comparison of the two never fails.)
Answers(message) ==
    /\ message.seq = nlmsg_seq
    /\ IF call = "get_stats"
       THEN message.type = "NEWLINK" \/ (message.type = "ERROR" /\ message.error)
       ELSE message.type = "ERROR"

\* Mutant: the object does not remember the MTU it set.
ReturnMtuForgotten(message) ==
    LET failed == message.error
    IN  /\ call' = "none"
        /\ result' = IF failed THEN "NetlinkError" ELSE "None"
        /\ stats' = IF call = "get_stats" /\ ~failed THEN message.bytes ELSE stats
        /\ mtu_' = mtu_
        /\ stage' = IF failed THEN stage
                    ELSE IF call = "set_mtu_" THEN "set_cidr_"
                    ELSE IF call = "set_cidr_" THEN "ready"
                    ELSE stage

\* Mutant: missing counters are reported as zeros.
ReturnZeros(message) ==
    LET failed == message.error
    IN  /\ call' = "none"
        /\ result' = IF failed THEN "NetlinkError" ELSE "None"
        /\ stats' = IF call = "get_stats" THEN message.bytes ELSE stats
        /\ mtu_' = IF call = "set_mtu_" /\ ~failed THEN mtu ELSE mtu_
        /\ stage' = IF failed THEN stage
                    ELSE IF call = "set_mtu_" THEN "set_cidr_"
                    ELSE IF call = "set_cidr_" THEN "ready"
                    ELSE stage

\* The caller of the method gets the answer.
Return(message) ==
    LET failed == message.error
    IN  /\ call' = "none"
        /\ result' = IF failed THEN "NetlinkError" ELSE "None"
        /\ stats' = IF call = "get_stats" /\ ~failed THEN message.bytes ELSE stats
        /\ mtu_' = IF call = "set_mtu_" /\ ~failed THEN mtu ELSE mtu_
        /\ stage' = IF failed THEN stage
                    ELSE IF call = "set_mtu_" THEN "set_cidr_"
                    ELSE IF call = "set_cidr_" THEN "ready"
                    ELSE stage

\* Mutant: the datagram that holds the answer stays in the socket.
RecvPeeked ==
    /\ call # "none"
    /\ nl # <<>>
    /\ LET datagram == Head(nl)
           answers == {i \in DOMAIN datagram : Answers(datagram[i])}
       IN  IF answers = {}
           THEN nl' = Tail(nl) /\ UNCHANGED <<stage, mtu_, call, result, stats>>
           ELSE UNCHANGED nl /\ Return(datagram[CHOOSE i \in answers : \A j \in answers : i <= j])
    /\ UNCHANGED <<seq, nlmsg_seq, sent, link, refused>>

\* One iteration of the loop of nl_send_acked_ or get_stats: read a datagram
\* and look through its messages; the first answer returns, and the messages
\* behind it in the datagram are dropped.
Recv ==
    /\ call # "none"
    /\ nl # <<>>
    /\ nl' = Tail(nl)
    /\ LET datagram == Head(nl)
           answers == {i \in DOMAIN datagram : Answers(datagram[i])}
       IN  IF answers = {}
           THEN UNCHANGED <<stage, mtu_, call, result, stats>>
           ELSE Return(datagram[CHOOSE i \in answers : \A j \in answers : i <= j])
    /\ UNCHANGED <<seq, nlmsg_seq, sent, link, refused>>

\* recv fails with anything but EINTR.
RecvFailed ==
    /\ IoErrors
    /\ call # "none"
    /\ call' = "none"
    /\ result' = "RecvFailed"
    /\ UNCHANGED <<stage, mtu_, seq, nlmsg_seq, stats, kernel_vars>>

-----------------------------------------------------------------------------
(* The kernel *)

\* What a request does to the interface.
Applied(method) ==
    CASE method = "set_mtu_" -> [link EXCEPT !.mtu = mtu]
      [] method = "set_cidr_" -> [link EXCEPT !.address = TRUE]
      [] method = "set_up" -> [link EXCEPT !.up = TRUE]
      [] method = "set_down" -> [link EXCEPT !.up = FALSE]
      [] OTHER -> link

\* The kernel handles the request and queues its answer: a refusal, or, for
\* get_stats, a link message (without counters if `bare') and an
\* acknowledgement, which share a datagram or not.
KernelAnswer(error, bare, batched) ==
    /\ sent
    /\ sent' = FALSE
    /\ error \/ bare => IoErrors
    /\ refused' = (error \/ (call = "get_stats" /\ bare))
    /\ link' = IF error THEN link ELSE Applied(call)
    /\ LET ack == Ack(nlmsg_seq, error)
           counters == NewLink(nlmsg_seq, bare, IF bare THEN 0 ELSE link.bytes)
       IN  nl' = nl \o (IF call # "get_stats" \/ error THEN << <<ack>> >>
                        ELSE IF batched THEN << <<counters, ack>> >>
                        ELSE << <<counters>>, <<ack>> >>)
    /\ UNCHANGED own_vars

\* Packets pass through the interface.
KernelTraffic ==
    /\ link.up
    /\ link.bytes < MaxBytes
    /\ link' = [link EXCEPT !.bytes = @ + 1]
    /\ UNCHANGED <<own_vars, sent, nl, refused>>

-----------------------------------------------------------------------------
Init ==
    /\ stage = "open"
    /\ mtu_ = 0
    /\ seq = 1
    /\ call = "none"
    /\ nlmsg_seq = 0
    /\ result = "None"
    /\ stats = 0
    /\ sent = FALSE
    /\ nl = <<>>
    /\ link = [mtu |-> 0, address |-> FALSE, up |-> FALSE, bytes |-> 0]
    /\ refused = FALSE

AllMethods == {"set_mtu_", "set_cidr_", "set_up", "set_down", "get_stats"}

KernelAnswers == \E error, bare, batched \in BOOLEAN : KernelAnswer(error, bare, batched)

Next ==
    \/ create_tun_device
    \/ \E method \in AllMethods : nl_send_raw_(method)
    \/ Recv
    \/ RecvFailed
    \/ KernelAnswers
    \/ KernelTraffic

Spec == Init /\ [][Next]_vars

\* The caller blocks in recv, which returns when there is a datagram, and the
\* kernel answers every request.
FairSpec ==
    /\ Spec
    /\ WF_vars(Recv)
    /\ WF_vars(KernelAnswers)

-----------------------------------------------------------------------------
(* Properties *)

\* A call reports what the kernel said of that very request, although answers
\* to earlier requests may still be in the socket and sequence numbers wrap:
\* it succeeds only if the kernel did what it asked, and NetlinkError means
\* that the kernel refused or sent no counters.
AnswerIsOurs ==
    (call = "none" /\ stage # "open") =>
        /\ result = "None" => ~refused /\ ~sent
        /\ result = "NetlinkError" => refused

\* Between calls at most one datagram is left in the socket, however often the
\* monitor asks for the statistics: the socket never fills up.
SocketDrained == (call = "none" /\ result = "None") => Len(nl) <= 1

\* The session sizes its buffers and checks frames by get_mtu(): once the
\* device is created it is the interface's MTU, and the address is set.
DeviceConfigured ==
    (stage = "ready") => mtu_ = link.mtu /\ mtu_ = mtu /\ link.address

\* The byte counter the monitor prints never goes back.
StatsNeverGoBack == [][stats' >= stats]_vars

\* Every call returns: the loops of nl_send_acked_ and get_stats end.
CallsReturn == (call # "none") ~> (call = "none")

=============================================================================
