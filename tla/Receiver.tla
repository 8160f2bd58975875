------------------------------ MODULE Receiver ------------------------------
(***************************************************************************)
(* zportal::Receiver: the TCP stream is cut into frames and their payloads *)
(* are written to the TUN device.  A multishot RECV fills buffers of a     *)
(* provided-buffer ring with chunks of the stream, cut anywhere.  The      *)
(* parser copies header bytes out of a buffer, but payload bytes stay in   *)
(* it: a frame is a list of segments of buffers, and a buffer goes back to *)
(* the ring when no frame refers to it any more (buffer_refcounts_).       *)
(*                                                                         *)
(* A handler with a loop (kick_parse_ for a RECV, the release loop for a   *)
(* WRITE) is one action per iteration; cqe_ is the completion it handles.  *)
(* The kernel's actions interleave with the iterations, as in the code.    *)
(***************************************************************************)
EXTENDS IoUring, Frame

CONSTANTS
    BufferCount,    \* buffers in the receiver's group (rx_queue_length)
    buffer_size,    \* bytes of a buffer (rx_buffer_size)
    mtu,            \* MTU of the TUN device
    IOV_MAX,        \* segments a vectored write accepts
    Wires,          \* bound: the byte streams a peer may send
    IoErrors        \* whether the kernel may fail requests and allocations

ASSUME ReceiverAssumption ==
    /\ BufferCount \in Nat \ {0}
    /\ buffer_size \in Nat \ {0}
    /\ mtu \in Nat \ {0}
    /\ IOV_MAX \in Nat \ {0}
    /\ Wires \subseteq Seq(Bytes)
    /\ IoErrors \in BOOLEAN

VARIABLES
    \* members of Receiver
    cooling_down_,          \* RECV ended with ENOBUFS and is not armed again
    used_buffers_,          \* buffers the receiver holds
    input_buffer_queue_,    \* received chunks not parsed yet: [bid, size, offset]
    buffer_refcounts_,      \* bid -> segments of frames that lie in the buffer
    state_,                 \* "PARSING_HEADER" or "PARSING_PAYLOAD"
    header_,                \* the wire_size bytes of the current header
    header_progress_,       \* how many of them have been received
    frame_,                 \* the frame being parsed: [bid, segments]
    payload_progress_,      \* how many of its payload bytes have been received
    output_frame_queue_,    \* complete frames, oldest first
    write_in_progress_,     \* a WRITE was submitted, its CQE is not handled
    \* the handler under way
    cqe_,                   \* its completion, or idle
    released,               \* iterations done of handle_write_cqe_'s loop
    \* session and kernel
    run_result,             \* "None" while Session::run loops, else its error
    br_,                    \* free buffers, as the kernel will take them
    mem,                    \* bid -> the bytes the buffer holds, the last chunk first
    recving,                \* the kernel holds a RECV request
    writing,                \* the kernel holds a WRITE request
    cq,                     \* completion queue
    wire,                   \* the bytes the peer has sent
    pos,                    \* how many of them the kernel has delivered
    \* history
    tun_tx                  \* packets written to the TUN device

parser_vars == <<state_, header_, header_progress_, frame_, payload_progress_>>
own_vars == <<cooling_down_, used_buffers_, input_buffer_queue_,
              buffer_refcounts_, parser_vars, output_frame_queue_,
              write_in_progress_>>
handler_vars == <<cqe_, released>>
kernel_vars == <<br_, mem, recving, writing, cq, wire, pos, tun_tx>>
vars == <<own_vars, handler_vars, run_result, kernel_vars>>

Bids == 0..(BufferCount - 1)

\* cqe_ while Session::run waits for the next completion.
idle == Cqe("NONE", 0, NoBid, FALSE)

EmptyFrame == [bid |-> <<>>, segments |-> <<>>]

-----------------------------------------------------------------------------
(* kick_write_ *)

\* Mutant: a WRITE is submitted although one is under way.
kick_write_Unguarded(queue, in_progress) ==
    /\ cqe_' = idle
    /\ write_in_progress_' = (queue # <<>>)
    /\ writing' = (queue # <<>>)
    /\ run_result' = "None"

\* queue and in_progress are output_frame_queue_ and write_in_progress_ as the
\* handler leaves them; the handler is done afterwards.
kick_write_(queue, in_progress) ==
    /\ cqe_' = idle
    /\ IF in_progress \/ queue = <<>>
       THEN /\ write_in_progress_' = in_progress
            /\ run_result' = "None"
            /\ UNCHANGED writing
       ELSE \E result \in SubmitResults(IoErrors) :
            /\ write_in_progress_' = (result = "None")
            /\ writing' = (result = "None")
            /\ run_result' = result

-----------------------------------------------------------------------------
(* handle_recv_cqe_ and kick_parse_ *)

\* Session::run takes the oldest completion; it is one of this type.
Handles(type) ==
    /\ run_result = "None"
    /\ cqe_ = idle
    /\ cq # <<>>
    /\ Head(cq).type = type
    /\ cq' = Tail(cq)
    /\ UNCHANGED <<mem, wire, pos, tun_tx>>

\* The ring ran empty: stop receiving until enough buffers came back.
RecvNoBuffers ==
    /\ Handles("RECV")
    /\ OutOfBuffers(Head(cq))
    /\ cooling_down_' = TRUE
    /\ kick_write_(output_frame_queue_, write_in_progress_)
    /\ UNCHANGED <<used_buffers_, input_buffer_queue_, buffer_refcounts_,
                   parser_vars, output_frame_queue_, released, br_, recving>>

\* Any other error of the RECV request, or the end of the stream, ends the
\* session; so does std::bad_alloc when the chunk is queued.
RecvFailures(cqe) ==
    CASE ~ok(cqe) -> IF OutOfBuffers(cqe) THEN {} ELSE {"RecvFailed"}
      [] cqe.result = 0 -> {"PeerClosed"}
      [] ok(cqe) /\ cqe.result # 0 /\ cqe.bid = NoBid -> {"RecvCqeMissingBid"}
      [] OTHER -> IF IoErrors THEN {"NotEnoughMemory"} ELSE {}

RecvFailed ==
    /\ Handles("RECV")
    /\ run_result' \in RecvFailures(Head(cq))
    /\ used_buffers_' = used_buffers_ + (IF ok(Head(cq)) THEN 1 ELSE 0)
    /\ UNCHANGED <<cooling_down_, input_buffer_queue_, buffer_refcounts_,
                   parser_vars, output_frame_queue_, write_in_progress_,
                   handler_vars, br_, recving, writing>>

\* A chunk of the stream: queue it and enter kick_parse_.
RecvChunk ==
    /\ Handles("RECV")
    /\ ok(Head(cq)) /\ Head(cq).result # 0 /\ Head(cq).bid # NoBid
    /\ cqe_' = Head(cq)
    /\ used_buffers_' = used_buffers_ + 1
    /\ input_buffer_queue_' =
          Append(input_buffer_queue_,
                 [bid |-> Head(cq).bid, size |-> Head(cq).result, offset |-> 0])
    /\ UNCHANGED <<cooling_down_, buffer_refcounts_, parser_vars,
                   output_frame_queue_, write_in_progress_, released,
                   run_result, br_, recving, writing>>

\* kick_parse_'s loop is at the top of an iteration, in this state.
Parses(state) ==
    /\ run_result = "None"
    /\ cqe_.type = "RECV"
    /\ input_buffer_queue_ # <<>>
    /\ state_ = state
    /\ UNCHANGED <<cooling_down_, write_in_progress_, handler_vars, mem, recving,
                   writing, cq, wire, pos, tun_tx>>

\* How much of the current chunk an iteration consumes, when it needs `wanted'.
Take(input, wanted) ==
    IF input.size - input.offset < wanted THEN input.size - input.offset ELSE wanted

\* Errors an iteration returns before it consumes anything; `progress' of
\* `wanted' bytes of the header or the payload are there already.
InputFailure(input, progress, wanted) ==
    IF input.offset >= input.size \/ progress >= wanted THEN "InvalidState"
    ELSE get_buffer(input.bid, input.size, BufferCount, buffer_size)

\* The chunk is consumed completely.
Exhausted(input) == input.offset = input.size

\* The end of an iteration: `take' bytes of the chunk are consumed, and a chunk
\* consumed completely leaves the queue.  If no segment lies in its buffer the
\* buffer goes back at once.
Consume(take, refcounts, result) ==
    LET input == [Head(input_buffer_queue_) EXCEPT !.offset = @ + take]
        exhausted == result = "None" /\ Exhausted(input)
        unused == exhausted /\ refcounts[input.bid] = 0
    IN  /\ run_result' = result
        /\ buffer_refcounts_' = refcounts
        /\ input_buffer_queue_' = IF exhausted THEN Tail(input_buffer_queue_)
                                  ELSE <<input>> \o Tail(input_buffer_queue_)
        /\ br_' = IF unused THEN return_buffer(br_, input.bid) ELSE br_
        /\ used_buffers_' = used_buffers_ - (IF unused THEN 1 ELSE 0)

\* Header bytes `from' + 1, ... replaced by bytes of the chunk (memcpy).
CopyHeader(input, take) ==
    [k \in 1..wire_size |->
        IF k > header_progress_ /\ k <= header_progress_ + take
        THEN mem[input.bid][input.offset + (k - header_progress_)]
        ELSE header_[k]]

\* Mutant: a packet as long as the MTU is refused.
HeaderFailureStrict(header) ==
    IF ~is_magic_valid(header) THEN "InvalidMagic"
    ELSE IF get_size(header) = 0 \/ get_size(header) >= mtu THEN "InvalidSize"
    ELSE "None"

\* The checks on a complete header.
HeaderFailure(header) ==
    IF ~is_magic_valid(header) THEN "InvalidMagic"
    ELSE IF get_size(header) = 0 \/ get_size(header) > mtu THEN "InvalidSize"
    ELSE "None"

\* Mutant: header_progress_ is not reset after a complete header.
HeaderProgressKept(take) == header_progress_ + take

\* header_progress_ after `take' more bytes; a complete header starts anew.
HeaderProgress(take) ==
    IF header_progress_ + take = wire_size THEN 0 ELSE header_progress_ + take

ParseHeader ==
    /\ Parses("PARSING_HEADER")
    /\ LET input == Head(input_buffer_queue_)
           take == Take(input, wire_size - header_progress_)
           header == CopyHeader(input, take)
           complete == header_progress_ + take = wire_size
           failure == InputFailure(input, header_progress_, wire_size)
           result == IF complete THEN HeaderFailure(header) ELSE "None"
       IN  IF failure # "None"
           THEN run_result' = failure /\ UNCHANGED <<own_vars, br_>>
           ELSE /\ header_' = header
                /\ header_progress_' = HeaderProgress(take)
                /\ state_' = IF complete /\ result = "None"
                             THEN "PARSING_PAYLOAD" ELSE "PARSING_HEADER"
                /\ Consume(take, buffer_refcounts_, result)
    /\ UNCHANGED <<frame_, payload_progress_, output_frame_queue_>>

\* The bytes a segment points to, at this moment, and those of several.
SegmentBytes(segment) == SubSeq(mem[segment.base], segment.from + 1, segment.from + segment.len)
Iov(segments) == FlattenSeq([i \in DOMAIN segments |-> SegmentBytes(segments[i])])

\* frame_ with one more segment.
AddSegment(input, take) ==
    [bid |-> Append(frame_.bid, input.bid),
     segments |-> Append(frame_.segments,
                         [base |-> input.bid, from |-> input.offset, len |-> take])]

\* Mutant: a buffer counts as referred to once, however often it is.
ReferencedOnce(bid) == [buffer_refcounts_ EXCEPT ![bid] = 1]

\* buffer_refcounts_ with one more reference to a buffer.
Referenced(bid) == [buffer_refcounts_ EXCEPT ![bid] = @ + 1]

\* The check on a complete payload.
PayloadFailure(frame) ==
    IF get_crc(header_) # crc32c(Iov(frame.segments)) THEN "FrameCrcMismatch" ELSE "None"

ParsePayload ==
    /\ Parses("PARSING_PAYLOAD")
    /\ LET input == Head(input_buffer_queue_)
           wanted == get_size(header_) - payload_progress_
           take == Take(input, wanted)
           frame == AddSegment(input, take)
           refcounts == Referenced(input.bid)
           complete == take = wanted
           failure == InputFailure(input, payload_progress_, get_size(header_))
           result == IF complete THEN PayloadFailure(frame) ELSE "None"
       IN  IF failure # "None"
           THEN run_result' = failure /\ UNCHANGED <<own_vars, br_>>
           ELSE /\ Consume(take, refcounts, result)
                /\ IF complete /\ result = "None"
                   THEN /\ output_frame_queue_' = Append(output_frame_queue_, frame)
                        /\ frame_' = EmptyFrame
                        /\ payload_progress_' = 0
                        /\ state_' = "PARSING_HEADER"
                   ELSE /\ frame_' = frame
                        /\ payload_progress_' = IF complete THEN 0 ELSE payload_progress_ + take
                        /\ UNCHANGED <<output_frame_queue_, state_>>
    /\ UNCHANGED <<header_, header_progress_>>

\* std::bad_alloc while a segment or a frame is stored.  run() returns, so what
\* had been stored by then is never looked at again.
ParseNoMemory ==
    /\ IoErrors
    /\ Parses("PARSING_PAYLOAD")
    /\ run_result' = "NotEnoughMemory"
    /\ buffer_refcounts_' = Referenced(Head(input_buffer_queue_).bid)
    /\ UNCHANGED <<used_buffers_, input_buffer_queue_, parser_vars,
                   output_frame_queue_, br_>>

\* kick_parse_ has returned.
Parsed ==
    /\ run_result = "None"
    /\ cqe_.type = "RECV"
    /\ input_buffer_queue_ = <<>>
    /\ UNCHANGED <<cooling_down_, used_buffers_, input_buffer_queue_,
                   buffer_refcounts_, parser_vars, output_frame_queue_, released,
                   br_, mem, cq, wire, pos, tun_tx>>

\* Mutant: RECV is armed again although the multishot request is still armed.
MustRearmAlways(cqe) == ~cooling_down_

MustRearm(cqe) == ~cqe.more /\ ~cooling_down_

\* The rest of handle_recv_cqe_: arm RECV again if the request ended, and
\* start writing unless a WRITE is under way.
RecvDone ==
    /\ Parsed
    /\ recving' = (recving \/ MustRearm(cqe_))
    /\ kick_write_(output_frame_queue_, write_in_progress_)

RecvRearmFailed ==
    /\ Parsed
    /\ MustRearm(cqe_)
    /\ run_result' \in SubmitResults(IoErrors) \ {"None"}
    /\ UNCHANGED <<write_in_progress_, cqe_, recving, writing>>

-----------------------------------------------------------------------------
(* handle_write_cqe_ *)

\* Mutant: only the first segment of a frame is counted.
FrameSizeFirst(frame) == frame.segments[1].len

FrameSize(frame) == Len(Iov(frame.segments))

\* Errors handle_write_cqe_ returns before it releases any buffer.
WriteFailure(cqe) ==
    IF output_frame_queue_ = <<>> THEN "WriteUnknownFrame"
    ELSE IF ~ok(cqe) THEN "TunWriteFailed"
    ELSE IF cqe.result # FrameSize(Head(output_frame_queue_)) THEN "TunPartialWrite"
    ELSE "None"

\* A WRITE completed: check it and enter the release loop.
WriteCompleted ==
    /\ Handles("WRITE")
    /\ write_in_progress_' = FALSE
    /\ run_result' = WriteFailure(Head(cq))
    /\ cqe_' = IF WriteFailure(Head(cq)) = "None" THEN Head(cq) ELSE idle
    /\ released' = 0
    /\ UNCHANGED <<cooling_down_, used_buffers_, input_buffer_queue_,
                   buffer_refcounts_, parser_vars, output_frame_queue_, br_,
                   recving, writing>>

Releases ==
    /\ run_result = "None"
    /\ cqe_.type = "WRITE"
    /\ UNCHANGED <<input_buffer_queue_, parser_vars, mem, cq, wire, pos, tun_tx>>

\* Mutant: a buffer is returned while one frame still refers to it.
LastReferenceEarly(refcounts, bid) == refcounts[bid] <= 1

\* No frame refers to the buffer any more.
LastReference(refcounts, bid) == refcounts[bid] <= 0

\* One iteration: the frame no longer refers to one of its buffers, which goes
\* back to the ring if no other frame does.
ReleaseBuffer ==
    /\ Releases
    /\ released < Len(Head(output_frame_queue_).bid)
    /\ LET bid == Head(output_frame_queue_).bid[released + 1]
           refcounts == [buffer_refcounts_ EXCEPT ![bid] = @ - 1]
           unused == LastReference(refcounts, bid)
       IN  /\ buffer_refcounts_' = refcounts
           /\ br_' = IF unused THEN return_buffer(br_, bid) ELSE br_
           /\ used_buffers_' = used_buffers_ - (IF unused THEN 1 ELSE 0)
    /\ released' = released + 1
    /\ UNCHANGED <<cooling_down_, output_frame_queue_, write_in_progress_, cqe_,
                   run_result, recving, writing>>

\* Fewer than half of the buffers are held.
CooledDown == cooling_down_ /\ used_buffers_ < BufferCount \div 2

Released ==
    /\ Releases
    /\ released = Len(Head(output_frame_queue_).bid)
    /\ released' = 0
    /\ output_frame_queue_' = Tail(output_frame_queue_)
    /\ UNCHANGED <<used_buffers_, buffer_refcounts_, br_>>

\* Mutant: handle_write_cqe_ does not go on writing.
WriteDoneNoKick ==
    /\ Released
    /\ recving' = (recving \/ CooledDown)
    /\ cooling_down_' = (cooling_down_ /\ ~CooledDown)
    /\ cqe_' = idle
    /\ UNCHANGED <<write_in_progress_, run_result, writing>>

\* Mutant: the cooldown ends but RECV is not armed.
WriteDoneNoRearm ==
    /\ Released
    /\ cooling_down_' = (cooling_down_ /\ ~CooledDown)
    /\ kick_write_(Tail(output_frame_queue_), FALSE)
    /\ UNCHANGED recving

\* The rest of handle_write_cqe_: drop the frame, arm RECV again once cooled
\* down, and write the next frame.
WriteDone ==
    /\ Released
    /\ recving' = (recving \/ CooledDown)
    /\ cooling_down_' = (cooling_down_ /\ ~CooledDown)
    /\ kick_write_(Tail(output_frame_queue_), FALSE)

WriteRearmFailed ==
    /\ Released
    /\ CooledDown
    /\ run_result' \in SubmitResults(IoErrors) \ {"None"}
    /\ UNCHANGED <<cooling_down_, write_in_progress_, cqe_, recving, writing>>

-----------------------------------------------------------------------------
(* The kernel: the TCP socket and the TUN device *)

KernelStep ==
    /\ run_result = "None"
    /\ UNCHANGED <<own_vars, handler_vars, run_result, wire>>

\* A chunk of n bytes fills the next free buffer.  A multishot request stays
\* armed (more) unless the kernel ends it early; a one-shot request ends.
KernelRecv(n, more) ==
    /\ KernelStep
    /\ recving
    /\ br_ # <<>>
    /\ pos + n <= Len(wire)
    /\ pos' = pos + n
    /\ mem' = [mem EXCEPT ![Head(br_)] = SubSeq(wire, pos + 1, pos + n)
                                            \o SubSeq(@, n + 1, Len(@))]
    /\ br_' = Tail(br_)
    /\ recving' = more
    /\ cq' = Append(cq, Cqe("RECV", n, Head(br_), more))
    /\ UNCHANGED <<writing, tun_tx>>

\* The RECV request ends with an error or with the end of the stream.
EndRecv(result) ==
    /\ KernelStep
    /\ recving
    /\ recving' = FALSE
    /\ cq' = Append(cq, Cqe("RECV", result, NoBid, FALSE))
    /\ UNCHANGED <<br_, mem, writing, pos, tun_tx>>

KernelRecvNoBuffers == br_ = <<>> /\ EndRecv(-ENOBUFS)
KernelRecvError == IoErrors /\ EndRecv(-EIO)
KernelPeerClosed == IoErrors /\ pos = Len(wire) /\ EndRecv(0)

\* The TUN device takes a packet whole, or refuses it.
KernelWrite ==
    /\ KernelStep
    /\ writing
    /\ writing' = FALSE
    /\ LET segments == Head(output_frame_queue_).segments
       IN  IF Len(segments) <= IOV_MAX
           THEN /\ tun_tx' = Append(tun_tx, Iov(segments))
                /\ cq' = Append(cq, Cqe("WRITE", Len(Iov(segments)), NoBid, FALSE))
           ELSE /\ tun_tx' = tun_tx
                /\ cq' = Append(cq, Cqe("WRITE", -EINVAL, NoBid, FALSE))
    /\ UNCHANGED <<br_, mem, recving, pos>>

KernelWriteError ==
    /\ KernelStep
    /\ IoErrors
    /\ writing
    /\ writing' = FALSE
    /\ cq' = Append(cq, Cqe("WRITE", -EIO, NoBid, FALSE))
    /\ UNCHANGED <<br_, mem, recving, pos, tun_tx>>

-----------------------------------------------------------------------------
\* create_receiver: a buffer group full of free buffers and empty members.
Created ==
    /\ cooling_down_ = FALSE
    /\ used_buffers_ = 0
    /\ input_buffer_queue_ = <<>>
    /\ buffer_refcounts_ = [bid \in Bids |-> 0]
    /\ state_ = "PARSING_HEADER"
    /\ header_ = HeaderBytes(FrameHeader(0, <<0, 0>>))
    /\ header_progress_ = 0
    /\ frame_ = EmptyFrame
    /\ payload_progress_ = 0
    /\ output_frame_queue_ = <<>>
    /\ write_in_progress_ = FALSE
    /\ cqe_ = idle
    /\ released = 0
    /\ run_result = "None"
    /\ br_ = create_buffer_group(BufferCount)
    /\ mem = [bid \in Bids |-> <<>>]
    /\ writing = FALSE
    /\ cq = <<>>
    /\ pos = 0
    /\ tun_tx = <<>>

\* The state Session::run reaches with its first arm_recv.
Init == Created /\ recving = TRUE /\ wire \in Wires

Handle ==
    \/ RecvNoBuffers \/ RecvFailed \/ RecvChunk
    \/ ParseHeader \/ ParsePayload \/ ParseNoMemory
    \/ RecvDone \/ RecvRearmFailed
    \/ WriteCompleted \/ ReleaseBuffer \/ WriteDone \/ WriteRearmFailed

Kernel ==
    \/ \E n \in 1..buffer_size, more \in BOOLEAN : KernelRecv(n, more)
    \/ KernelRecvNoBuffers
    \/ KernelRecvError
    \/ KernelPeerClosed
    \/ KernelWrite
    \/ KernelWriteError

Next == Handle \/ Kernel

Spec == Init /\ [][Next]_vars

\* The session loop handles what is in the completion queue, the TUN device
\* takes packets and the network delivers what the peer sent.
Recvs == \E n \in 1..buffer_size, more \in BOOLEAN : KernelRecv(n, more)
Writes == KernelWrite \/ KernelWriteError
Fairness == WF_vars(Handle) /\ WF_vars(Recvs) /\ WF_vars(Writes)

FairSpec == Spec /\ Fairness

-----------------------------------------------------------------------------
(* Properties *)

Segments == [base : Bids, from : 0..buffer_size, len : 1..buffer_size]
FrameType == [bid : Seq(Bids), segments : Seq(Segments)]

\* What Session::run may return on behalf of the receiver; "None" while it loops.
Results == {"None", "PeerClosed", "RecvFailed", "RecvCqeMissingBid", "NotEnoughMemory",
            "InvalidState", "InvalidBid", "InvalidMagic", "InvalidSize",
            "FrameCrcMismatch", "WriteUnknownFrame", "TunWriteFailed",
            "TunPartialWrite", "NotEnoughSqe", "RingSubmitFailed"}

\* Every variable has its type; progress counters stay within the header, the
\* MTU and the buffer they index.
TypeOK ==
    /\ cooling_down_ \in BOOLEAN
    /\ used_buffers_ \in 0..(BufferCount + 1)
    /\ input_buffer_queue_ \in Seq([bid : Bids, size : 1..buffer_size,
                                    offset : 0..buffer_size])
    /\ buffer_refcounts_ \in [Bids -> 0..buffer_size]
    /\ state_ \in {"PARSING_HEADER", "PARSING_PAYLOAD"}
    /\ DOMAIN header_ = 1..wire_size
    /\ header_progress_ \in 0..(wire_size - 1)
    /\ frame_ \in FrameType
    /\ payload_progress_ \in 0..(mtu - 1)
    /\ output_frame_queue_ \in Seq(FrameType)
    /\ write_in_progress_ \in BOOLEAN
    /\ cqe_.type \in {"NONE", "RECV", "WRITE"}
    /\ released \in Nat
    /\ run_result \in Results
    /\ br_ \in Seq(Bids)
    /\ DOMAIN mem = Bids
    /\ recving \in BOOLEAN
    /\ writing \in BOOLEAN
    /\ cq \in Seq([type : {"RECV", "WRITE"}, result : Int,
                   bid : Bids \cup {NoBid}, more : BOOLEAN])
    /\ pos \in 0..Len(wire)

Running == run_result = "None"

\* The buffers of queued and half-parsed frames, one entry per reference; the
\* oldest frame has lost those its WRITE handler released already.
References ==
    LET bids == [i \in DOMAIN output_frame_queue_ |->
                    IF i = 1 THEN SubSeq(output_frame_queue_[1].bid, released + 1,
                                         Len(output_frame_queue_[1].bid))
                    ELSE output_frame_queue_[i].bid]
    IN  frame_.bid \o FlattenSeq(bids)

\* buffer_refcounts_ counts exactly the references frames have to a buffer:
\* none is missed when a buffer straddles frames and none is dropped twice, so
\* handle_write_cqe_'s assert(buffer_refcounts_[bid] == 0) holds.
RefcountExact ==
    Running =>
        \A bid \in Bids :
            buffer_refcounts_[bid]
                = Cardinality({i \in DOMAIN References : References[i] = bid})

\* Buffers the receiver holds, free ones, and filled ones it has not seen yet.
Held == {bid \in Bids : buffer_refcounts_[bid] > 0}
            \cup {input_buffer_queue_[i].bid : i \in DOMAIN input_buffer_queue_}
Free == {br_[i] : i \in DOMAIN br_}
Filled == {i \in DOMAIN cq : cq[i].type = "RECV" /\ cq[i].bid # NoBid}

\* Every buffer is free in the ring, filled in one completion not handled yet,
\* or held, and in only one of these; used_buffers_, which decides when the
\* cooldown ends, counts the held ones.
BufferOwnership ==
    Running =>
    /\ Held \cup Free \cup {cq[i].bid : i \in Filled} = Bids
    /\ Cardinality(Held) + Len(br_) + Cardinality(Filled) = BufferCount
    /\ used_buffers_ = Cardinality(Held)

\* RECV completions after which the kernel holds no RECV request.
RecvEnds == {i \in DOMAIN cq : cq[i].type = "RECV" /\ ~cq[i].more}

\* There is one RECV request and it is never lost or doubled: the kernel holds
\* it, or one completion that ends it waits to be handled or is being handled,
\* or the receiver cools down, and no two of these at once.
RecvArmedOnce ==
    Running =>
        Cardinality(RecvEnds)
          + Cardinality({x \in {"recving"} : recving})
          + Cardinality({x \in {"handling"} : cqe_.type = "RECV" /\ ~cqe_.more})
          + Cardinality({x \in {"cooling"} : cooling_down_}) = 1

\* write_in_progress_ says exactly whether a WRITE is with the kernel or its
\* completion is not handled yet; a frame is never left waiting without one.
WriteSerialized ==
    Running =>
    /\ write_in_progress_ = (writing \/ \E i \in DOMAIN cq : cq[i].type = "WRITE")
    /\ writing => \A i \in DOMAIN cq : cq[i].type # "WRITE"
    /\ (cqe_ = idle /\ output_frame_queue_ # <<>>) => write_in_progress_

\* The packets written to the TUN device are those of the stream, whole, once
\* and in order, whatever the chunks it arrives in; nothing after a frame that
\* must be rejected is written, and no buffer is refilled before the frames in
\* it have been written.
WrittenInOrder == IsPrefix(tun_tx, Decode(wire, mtu).packets)

\* A protocol error ends the session only if the stream really contains that
\* error in the first frame that is not valid, and the errors kept for broken
\* invariants never do.
NoSpuriousError ==
    /\ run_result \in {"InvalidMagic", "InvalidSize", "FrameCrcMismatch"}
         => run_result = Decode(wire, mtu).error
    /\ run_result \notin {"InvalidState", "InvalidBid", "RecvCqeMissingBid",
                         "WriteUnknownFrame", "TunPartialWrite"}

\* Every complete frame that must not be rejected is written, unless the
\* session ends first.
EveryFrameWritten ==
    <>(~Running \/ tun_tx = Decode(wire, mtu).packets)

\* "Reads/receives are armed again once enough queued buffers have been
\* returned" (README, Backpressure).
ReceiveArmedAgain ==
    (cooling_down_ /\ used_buffers_ < BufferCount \div 2) ~> (recving \/ ~Running)

=============================================================================
