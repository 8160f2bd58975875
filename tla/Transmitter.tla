---------------------------- MODULE Transmitter ----------------------------
(***************************************************************************)
(* zportal::Transmitter: packets read from the TUN device are framed and   *)
(* sent over the TCP socket.  A multishot READ fills buffers of a          *)
(* provided-buffer ring; each filled buffer becomes an entry of            *)
(* frame_queue_ and goes back to the ring once its frame has been sent.    *)
(* When the ring is empty the kernel ends the READ with ENOBUFS; the       *)
(* transmitter then cools down until half of its buffers are free again.   *)
(*                                                                         *)
(* The kernel's actions interleave freely with the handlers, which the     *)
(* session runs one completion at a time.                                  *)
(***************************************************************************)
EXTENDS IoUring, Frame

CONSTANTS
    BufferCount,    \* buffers in the transmitter's group (tx_queue_length)
    mtu,            \* MTU of the TUN device and size of a buffer
    MaxPackets,     \* bound: packets the TUN device delivers in a behaviour
    IoErrors        \* whether the kernel may fail requests and allocations

ASSUME TransmitterAssumption ==
    /\ BufferCount \in Nat \ {0}
    /\ mtu \in Nat \ {0}
    /\ MaxPackets \in Nat
    /\ IoErrors \in BOOLEAN

VARIABLES
    \* members of Transmitter
    frame_queue_,           \* filled buffers, oldest first: [bid, size]
    cooling_down_,          \* READ ended with ENOBUFS and is not armed again
    send_in_progress_,      \* a SEND was submitted, its CQE is not handled
    current_frame_state_,   \* the frame being sent, or nullopt
    \* session and kernel
    run_result,             \* "None" while Session::run loops, else its error
    br_,                    \* free buffers, as the kernel will take them
    mem,                    \* buffer id -> packet whose bytes it holds
    reading,                \* the kernel holds a READ request
    sending,                \* the kernel holds a SEND request
    cq,                     \* completion queue
    \* histories
    tun_rx,                 \* sizes of the packets the kernel read, in order
    wire                    \* bytes the kernel accepted for sending

own_vars == <<frame_queue_, cooling_down_, send_in_progress_,
              current_frame_state_>>
kernel_vars == <<br_, mem, reading, sending, cq, tun_rx, wire>>
vars == <<own_vars, run_result, kernel_vars>>

Bids == 0..(BufferCount - 1)

\* An unset std::optional<CurrentFrameState>.
nullopt ==
    [frame |-> [bid |-> NoBid, size |-> 0], header |-> FrameHeader(0, <<0, 0>>),
     bytes_sent |-> 0, segments |-> <<>>]

-----------------------------------------------------------------------------
(* kick_send_ and what it computes *)

\* What the first size bytes of a buffer hold.
Payload(bid, size) == [k \in 1..size |-> PayloadByte(mem[bid], k)]

create_frame_header_(frame) ==
    FrameHeader(frame.size, crc32c(Payload(frame.bid, frame.size)))

NewFrameState(frame) ==
    [nullopt EXCEPT !.frame = frame, !.header = create_frame_header_(frame)]

\* Mutant: a new frame is taken from the wrong end of the queue.
FrameToSendNewest(queue, state) ==
    IF state = nullopt THEN NewFrameState(queue[Len(queue)]) ELSE state

\* The frame under way, or else the oldest queued one.
FrameToSend(queue, state) == IF state = nullopt THEN NewFrameState(Head(queue)) ELSE state

\* Bytes of a frame on the wire.
Total(state) == wire_size + state.frame.size

\* The iovecs for what is left of the frame: (part, offset into it, length).
Segments(state) ==
    IF state.bytes_sent < wire_size
    THEN << [part |-> "header", from |-> state.bytes_sent,
             len |-> wire_size - state.bytes_sent],
            [part |-> "payload", from |-> 0, len |-> state.frame.size] >>
    ELSE << [part |-> "payload", from |-> state.bytes_sent - wire_size,
             len |-> state.frame.size - (state.bytes_sent - wire_size)] >>

\* Errors kick_send_ returns before it asks for an SQE.
FrameFailure(state) ==
    LET buffer == get_buffer(state.frame.bid, state.frame.size, BufferCount, mtu)
    IN  IF buffer # "None" THEN buffer
        ELSE IF state.bytes_sent >= Total(state) THEN "InvalidState"
        ELSE "None"

\* Results of kick_send_ once it has a frame to send; a new CurrentFrameState
\* reserves its segments, which may throw std::bad_alloc.
SendResults(state, next) ==
    IF FrameFailure(next) # "None" THEN {FrameFailure(next)}
    ELSE SubmitResults(IoErrors)
         \cup (IF IoErrors /\ state = nullopt THEN {"NotEnoughMemory"} ELSE {})

\* Mutant: a SEND is submitted although one is under way.
kick_send_Unguarded(queue, state, in_progress) ==
    IF queue = <<>>
    THEN /\ current_frame_state_' = state
         /\ send_in_progress_' = in_progress
         /\ run_result' = "None"
         /\ UNCHANGED sending
    ELSE /\ current_frame_state_' = LET next == FrameToSend(queue, state)
                                    IN  [next EXCEPT !.segments = Segments(next)]
         /\ send_in_progress_' = TRUE
         /\ sending' = TRUE
         /\ run_result' = "None"

\* queue, state and in_progress are frame_queue_, current_frame_state_ and
\* send_in_progress_ as the handler leaves them.
kick_send_(queue, state, in_progress) ==
    IF in_progress \/ queue = <<>>
    THEN /\ current_frame_state_' = state
         /\ send_in_progress_' = in_progress
         /\ run_result' = "None"
         /\ UNCHANGED sending
    ELSE LET next == FrameToSend(queue, state)
         IN  \E result \in SendResults(state, next) :
                /\ current_frame_state_' = IF result \in SubmitResults(TRUE)
                                           THEN [next EXCEPT !.segments = Segments(next)]
                                           ELSE state
                /\ send_in_progress_' = (result = "None")
                /\ sending' = (result = "None")
                /\ run_result' = result

-----------------------------------------------------------------------------
(* handle_read_cqe_ *)

\* Session::run takes the oldest completion; it is one of this type.
Handles(type) ==
    /\ run_result = "None"
    /\ cq # <<>>
    /\ Head(cq).type = type
    /\ cq' = Tail(cq)
    /\ UNCHANGED <<mem, tun_rx, wire>>

\* The ring ran empty: stop reading until enough frames have been sent.
ReadNoBuffers ==
    /\ Handles("READ")
    /\ OutOfBuffers(Head(cq))
    /\ cooling_down_' = TRUE
    /\ kick_send_(frame_queue_, current_frame_state_, send_in_progress_)
    /\ UNCHANGED <<frame_queue_, br_, reading>>

\* Any other error of the READ request ends the session.
ReadFailed ==
    /\ Handles("READ")
    /\ ~ok(Head(cq)) /\ ~OutOfBuffers(Head(cq))
    /\ run_result' = "TunReadFailed"
    /\ UNCHANGED <<own_vars, br_, reading, sending>>

\* Mutant: READ is armed again although the multishot request is still armed.
MustRearmAlways(cqe) == ~cooling_down_

\* A READ completion after which the request is no longer with the kernel.
MustRearm(cqe) == ~cqe.more /\ ~cooling_down_

\* A packet: queue its buffer, arm READ again if the request ended, and start
\* sending unless a SEND is under way.
ReadPacket ==
    /\ Handles("READ")
    /\ ok(Head(cq))
    /\ LET cqe == Head(cq)
           queue == Append(frame_queue_, [bid |-> cqe.bid, size |-> cqe.result])
       IN  IF cqe.bid = NoBid
           THEN /\ run_result' = "ReadCqeMissingBid"
                /\ UNCHANGED <<own_vars, reading, sending>>
           ELSE /\ frame_queue_' = queue
                /\ reading' = (reading \/ MustRearm(cqe))
                /\ kick_send_(queue, current_frame_state_, send_in_progress_)
                /\ UNCHANGED cooling_down_
    /\ UNCHANGED br_

\* arm_read fails while a packet is handled: the queued frame is not sent.
ReadRearmFailed ==
    /\ Handles("READ")
    /\ ok(Head(cq)) /\ Head(cq).bid # NoBid /\ MustRearm(Head(cq))
    /\ run_result' \in SubmitResults(IoErrors) \ {"None"}
    /\ frame_queue_' = Append(frame_queue_, [bid |-> Head(cq).bid, size |-> Head(cq).result])
    /\ UNCHANGED <<cooling_down_, send_in_progress_, current_frame_state_, br_,
                   reading, sending>>

\* std::bad_alloc while the packet is queued: its buffer goes straight back.
ReadNoMemory ==
    /\ IoErrors
    /\ Handles("READ")
    /\ ok(Head(cq)) /\ Head(cq).bid # NoBid
    /\ br_' = return_buffer(br_, Head(cq).bid)
    /\ run_result' = "NotEnoughMemory"
    /\ UNCHANGED <<own_vars, reading, sending>>

-----------------------------------------------------------------------------
(* handle_send_cqe_ *)

\* Mutant: a frame sent to its last byte counts as sent too far.
SendFailureOffByOne(cqe) ==
    IF ~ok(cqe) THEN "SendFailed"
    ELSE IF current_frame_state_.bytes_sent + cqe.result >= Total(current_frame_state_)
    THEN "InvalidState" ELSE "None"

\* Errors handle_send_cqe_ returns before it accounts for the bytes sent.
SendFailure(cqe) ==
    CASE ~ok(cqe) -> "SendFailed"
      [] cqe.result = 0 -> "SendReturnedZero"
      [] ok(cqe) /\ cqe.result > 0 /\ current_frame_state_ = nullopt -> "InvalidState"
      [] OTHER -> IF current_frame_state_.bytes_sent + cqe.result
                        > Total(current_frame_state_)
                  THEN "InvalidState" ELSE "None"

SendFailed ==
    /\ Handles("SEND")
    /\ SendFailure(Head(cq)) # "None"
    /\ send_in_progress_' = FALSE
    /\ run_result' = SendFailure(Head(cq))
    /\ UNCHANGED <<frame_queue_, cooling_down_, current_frame_state_, br_,
                   reading, sending>>

\* Mutant: the threshold of the cooldown compared the other way round.
CooledDownInverted(queue) == cooling_down_ /\ Len(queue) > BufferCount \div 2

\* Half of the buffers are free again.
CooledDown(queue) == cooling_down_ /\ Len(queue) <= BufferCount \div 2

\* Mutant: the buffer of a sent frame is not returned.
AfterSendLeaks(sent) ==
    LET state == [current_frame_state_ EXCEPT !.bytes_sent = @ + sent]
    IN  IF state.bytes_sent = Total(state)
        THEN [state |-> nullopt, queue |-> Tail(frame_queue_), br |-> br_]
        ELSE [state |-> state, queue |-> frame_queue_, br |-> br_]

\* Mutant: a partial send overwrites bytes_sent instead of adding to it.
AfterSendOverwrites(sent) ==
    LET state == [current_frame_state_ EXCEPT !.bytes_sent = sent]
    IN  IF state.bytes_sent = Total(state)
        THEN [state |-> nullopt, queue |-> Tail(frame_queue_),
              br |-> return_buffer(br_, state.frame.bid)]
        ELSE [state |-> state, queue |-> frame_queue_, br |-> br_]

\* The members after `sent' more bytes of the current frame are on the wire:
\* a frame sent completely leaves the queue and gives its buffer back.
AfterSend(sent) ==
    LET state == [current_frame_state_ EXCEPT !.bytes_sent = @ + sent]
    IN  IF state.bytes_sent = Total(state)
        THEN [state |-> nullopt, queue |-> Tail(frame_queue_),
              br |-> return_buffer(br_, state.frame.bid)]
        ELSE [state |-> state, queue |-> frame_queue_, br |-> br_]

\* Mutant: handle_send_cqe_ does not go on sending.
SendDoneNoKick ==
    /\ Handles("SEND")
    /\ SendFailure(Head(cq)) = "None"
    /\ LET after == AfterSend(Head(cq).result)
       IN  /\ frame_queue_' = after.queue
           /\ br_' = after.br
           /\ reading' = (reading \/ CooledDown(after.queue))
           /\ cooling_down_' = (cooling_down_ /\ ~CooledDown(after.queue))
           /\ current_frame_state_' = after.state
    /\ send_in_progress_' = FALSE
    /\ UNCHANGED <<run_result, sending>>

\* Mutant: the cooldown ends but READ is not armed.
SendDoneNoRearm ==
    /\ Handles("SEND")
    /\ SendFailure(Head(cq)) = "None"
    /\ LET after == AfterSend(Head(cq).result)
       IN  /\ frame_queue_' = after.queue
           /\ br_' = after.br
           /\ cooling_down_' = (cooling_down_ /\ ~CooledDown(after.queue))
           /\ kick_send_(after.queue, after.state, FALSE)
    /\ UNCHANGED reading

\* A SEND completed, perhaps for a part of the frame: account for it, arm READ
\* again once cooled down, and send the rest or the next frame.
SendDone ==
    /\ Handles("SEND")
    /\ SendFailure(Head(cq)) = "None"
    /\ LET after == AfterSend(Head(cq).result)
       IN  /\ frame_queue_' = after.queue
           /\ br_' = after.br
           /\ reading' = (reading \/ CooledDown(after.queue))
           /\ cooling_down_' = (cooling_down_ /\ ~CooledDown(after.queue))
           /\ kick_send_(after.queue, after.state, FALSE)

\* arm_read fails at the end of a cooldown.
SendRearmFailed ==
    /\ Handles("SEND")
    /\ SendFailure(Head(cq)) = "None"
    /\ LET after == AfterSend(Head(cq).result)
       IN  /\ CooledDown(after.queue)
           /\ frame_queue_' = after.queue
           /\ br_' = after.br
           /\ current_frame_state_' = after.state
    /\ send_in_progress_' = FALSE
    /\ run_result' \in SubmitResults(IoErrors) \ {"None"}
    /\ UNCHANGED <<cooling_down_, reading, sending>>

-----------------------------------------------------------------------------
(* The kernel: the TUN device's packets and the TCP socket *)

KernelStep == run_result = "None" /\ UNCHANGED <<own_vars, run_result>>

\* A packet arrives and fills the next free buffer.  A multishot request
\* stays armed (more) unless the kernel ends it early (a full completion
\* queue); a one-shot request, where multishot READ is not supported, ends.
KernelRead(size, more) ==
    /\ KernelStep
    /\ reading
    /\ br_ # <<>>
    /\ Len(tun_rx) < MaxPackets
    /\ tun_rx' = Append(tun_rx, size)
    /\ mem' = [mem EXCEPT ![Head(br_)] = Len(tun_rx) + 1]
    /\ br_' = Tail(br_)
    /\ reading' = more
    /\ cq' = Append(cq, Cqe("READ", size, Head(br_), more))
    /\ UNCHANGED <<sending, wire>>

\* The READ request ends because there is no buffer to fill.
KernelReadNoBuffers ==
    /\ KernelStep
    /\ reading
    /\ br_ = <<>>
    /\ reading' = FALSE
    /\ cq' = Append(cq, Cqe("READ", -ENOBUFS, NoBid, FALSE))
    /\ UNCHANGED <<br_, mem, sending, tun_rx, wire>>

\* The READ request fails (the TUN device was removed, for example).
KernelReadError ==
    /\ KernelStep
    /\ IoErrors
    /\ reading
    /\ reading' = FALSE
    /\ cq' = Append(cq, Cqe("READ", -EIO, NoBid, FALSE))
    /\ UNCHANGED <<br_, mem, sending, tun_rx, wire>>

SegmentBytes(state, segment) ==
    [k \in 1..segment.len |->
        IF segment.part = "header"
        THEN HeaderByte(state.header, segment.from + k)
        ELSE PayloadByte(mem[state.frame.bid], segment.from + k)]

\* The bytes the iovecs of the SEND request point to, at this moment.
Iov(state) ==
    IF Len(state.segments) = 1
    THEN SegmentBytes(state, state.segments[1])
    ELSE SegmentBytes(state, state.segments[1]) \o SegmentBytes(state, state.segments[2])

\* sendmsg accepts the first n bytes; n may be less than what was asked for.
KernelSend(n) ==
    /\ KernelStep
    /\ sending
    /\ n <= Len(Iov(current_frame_state_))
    /\ wire' = wire \o SubSeq(Iov(current_frame_state_), 1, n)
    /\ sending' = FALSE
    /\ cq' = Append(cq, Cqe("SEND", n, NoBid, FALSE))
    /\ UNCHANGED <<br_, mem, reading, tun_rx>>

\* The SEND request fails (the peer reset the connection, for example).
KernelSendError ==
    /\ KernelStep
    /\ IoErrors
    /\ sending
    /\ sending' = FALSE
    /\ cq' = Append(cq, Cqe("SEND", -EIO, NoBid, FALSE))
    /\ UNCHANGED <<br_, mem, reading, tun_rx, wire>>

-----------------------------------------------------------------------------
\* create_transmitter: a buffer group full of free buffers and empty members.
Created ==
    /\ frame_queue_ = <<>>
    /\ cooling_down_ = FALSE
    /\ send_in_progress_ = FALSE
    /\ current_frame_state_ = nullopt
    /\ run_result = "None"
    /\ br_ = create_buffer_group(BufferCount)
    /\ mem = [bid \in Bids |-> 0]
    /\ sending = FALSE
    /\ cq = <<>>
    /\ tun_rx = <<>>
    /\ wire = <<>>

\* The state Session::run reaches with its first arm_read.
Init == Created /\ reading = TRUE

Handle ==
    \/ ReadNoBuffers \/ ReadFailed \/ ReadPacket \/ ReadRearmFailed \/ ReadNoMemory
    \/ SendFailed \/ SendDone \/ SendRearmFailed

Kernel ==
    \/ \E size \in 1..mtu, more \in BOOLEAN : KernelRead(size, more)
    \/ KernelReadNoBuffers
    \/ KernelReadError
    \/ \E n \in 1..(wire_size + mtu) : KernelSend(n)
    \/ KernelSendError

Next == Handle \/ Kernel

Spec == Init /\ [][Next]_vars

\* The session loop handles what is in the completion queue, and the socket
\* goes on accepting bytes.  Nothing is assumed about packets arriving.
Sends == (\E n \in 1..(wire_size + mtu) : KernelSend(n)) \/ KernelSendError
Fairness == WF_vars(Handle) /\ WF_vars(Sends)

FairSpec == Spec /\ Fairness

-----------------------------------------------------------------------------
(* Properties *)

Frames == [bid : Bids, size : 1..mtu]

Segment == [part : {"header", "payload"}, from : Nat, len : Nat]

FrameStates ==
    [frame : Frames,
     header : [magic : {TRUE}, size : 1..mtu, crc : Nat \X Nat],
     bytes_sent : Nat,
     segments : [1..1 -> Segment] \cup [1..2 -> Segment]]

\* The completions the kernel posts for the transmitter's requests.
ReadCqes == [type : {"READ"}, result : 1..mtu, bid : Bids, more : BOOLEAN]
ReadErrorCqes ==
    [type : {"READ"}, result : {-ENOBUFS, -EIO}, bid : {NoBid}, more : {FALSE}]
SendDoneCqes ==
    [type : {"SEND"}, result : {-EIO} \cup 1..(wire_size + mtu), bid : {NoBid}, more : {FALSE}]

Results ==
    {"None", "TunReadFailed", "ReadCqeMissingBid", "NotEnoughMemory", "SendFailed",
     "SendReturnedZero", "InvalidState", "InvalidBid", "InvalidSize",
     "NotEnoughSqe", "RingSubmitFailed"}

\* Every variable has its type: queued and current frames name a buffer of the
\* group and fit in it, and a completion is one of those the handlers expect
\* (WireInOrder says what wire holds).
TypeOK ==
    /\ frame_queue_ \in Seq(Frames)
    /\ cooling_down_ \in BOOLEAN
    /\ send_in_progress_ \in BOOLEAN
    /\ current_frame_state_ \in FrameStates \cup {nullopt}
    /\ run_result \in Results
    /\ br_ \in Seq(Bids)
    /\ mem \in [Bids -> Nat]
    /\ reading \in BOOLEAN
    /\ sending \in BOOLEAN
    /\ cq \in Seq(ReadCqes \cup ReadErrorCqes \cup SendDoneCqes)
    /\ tun_rx \in Seq(1..mtu)

\* The session is still running.
Running == run_result = "None"

\* Positions of the completion queue that hold a filled buffer.
Filled == {i \in DOMAIN cq : cq[i].type = "READ" /\ ok(cq[i])}

\* Every buffer is in exactly one of three places: free in the ring, filled in
\* a completion not handled yet, or queued in frame_queue_.  A buffer in none
\* is leaked by return_buffer's callers; one in two is returned too early.
BufferOwnership ==
    Running =>
    /\ \A bid \in Bids : \/ \E i \in DOMAIN br_ : br_[i] = bid
                         \/ \E i \in Filled : cq[i].bid = bid
                         \/ \E i \in DOMAIN frame_queue_ : frame_queue_[i].bid = bid
    /\ \A i, j \in DOMAIN br_ : br_[i] = br_[j] => i = j
    /\ \A i, j \in Filled : cq[i].bid = cq[j].bid => i = j
    /\ \A i, j \in DOMAIN frame_queue_ :
          frame_queue_[i].bid = frame_queue_[j].bid => i = j
    /\ \A i \in DOMAIN br_, j \in Filled : br_[i] # cq[j].bid
    /\ \A i \in DOMAIN br_, j \in DOMAIN frame_queue_ : br_[i] # frame_queue_[j].bid
    /\ \A i \in Filled, j \in DOMAIN frame_queue_ : cq[i].bid # frame_queue_[j].bid

\* READ completions after which the kernel holds no READ request.
ReadEnds == {i \in DOMAIN cq : cq[i].type = "READ" /\ ~cq[i].more}

\* There is one READ request and it is never lost or doubled: the kernel holds
\* it, or one completion that ends it waits to be handled, or the transmitter
\* cools down, and no two of these at once.
ReadArmedOnce ==
    Running =>
    /\ reading \/ ReadEnds # {} \/ cooling_down_
    /\ ~(reading /\ ReadEnds # {})
    /\ ~(cooling_down_ /\ (reading \/ ReadEnds # {}))
    /\ \A i, j \in ReadEnds : i = j

\* Positions of the SEND completion.
SendCqes == {i \in DOMAIN cq : cq[i].type = "SEND"}

\* send_in_progress_ says exactly whether a SEND is with the kernel or its
\* completion is not handled yet, and there is never a second one.
SendSerialized ==
    Running =>
    /\ send_in_progress_ = (sending \/ SendCqes # {})
    /\ ~(sending /\ SendCqes # {})
    /\ \A i, j \in SendCqes : i = j

\* The frame being sent is the oldest queued one: handle_send_cqe_ pops the
\* frame whose buffer it returns.
CurrentIsOldest ==
    current_frame_state_ # nullopt =>
        frame_queue_ # <<>> /\ Head(frame_queue_) = current_frame_state_.frame

\* A queued frame is always being sent: kick_send_ runs at the end of every
\* handler that could have left one behind.
NoIdleQueue == Running => (frame_queue_ # <<>> => send_in_progress_)

\* The cooldown can end: it ends only in handle_send_cqe_, so while it lasts a
\* SEND must be under way, even though buffers may have come back between the
\* kernel's ENOBUFS and its handling.
CoolDownDrains == Running => (cooling_down_ => send_in_progress_)

\* What is on the wire is, byte for byte, the frames of the packets read from
\* the TUN device, in order, up to some point: partial sends resume at the
\* right byte, no frame is skipped, repeated or reordered, and no buffer is
\* refilled by the kernel before its last byte was sent.
WireInOrder == IsStreamPrefix(wire, tun_rx)

\* The errors kick_send_ and handle_send_cqe_ keep for broken invariants never
\* end the session.
NoInternalError ==
    run_result \notin {"InvalidState", "InvalidBid", "InvalidSize",
                      "ReadCqeMissingBid", "SendReturnedZero"}

\* Every packet read from the TUN device is sent to its last byte, unless the
\* session ends first.
EveryPacketSent ==
    \A p \in 1..MaxPackets :
        (Len(tun_rx) >= p) ~>
            \/ ~Running
            \/ /\ Len(tun_rx) >= p
               /\ Len(wire) >= Len(FrameStream(SubSeq(tun_rx, 1, p)))

\* Sending goes on: every packet is sent, and a cooldown ends with READ armed
\* again, or the session does.
SendingGoesOn ==
    /\ EveryPacketSent
    /\ cooling_down_ ~> (reading \/ ~Running)

=============================================================================
