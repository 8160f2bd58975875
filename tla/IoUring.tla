------------------------------ MODULE IoUring ------------------------------
(***************************************************************************)
(* The part of io_uring that zportal::IoUring, zportal::BufferGroup and    *)
(* zportal::Cqe put in front of the kernel, as state-free operators.  The  *)
(* submission queue needs no state: every operation the program prepares   *)
(* is submitted before the next one is prepared, so the modules keep only  *)
(* the requests the kernel holds, the provided-buffer ring (a FIFO of      *)
(* buffer ids, br_) and the completion queue (a FIFO of CQEs, cq).         *)
(***************************************************************************)
EXTENDS Integers, Sequences

\* Linux errno values a CQE carries, negated, in its result.
EIO == 5
EINVAL == 22
ETIME == 62
ENOBUFS == 105

\* Cqe::bid() is std::nullopt when IORING_CQE_F_BUFFER is not set.
NoBid == -1

\* A completion as the Cqe class exposes it: the operation type the program
\* stored in user_data, the result, the buffer id and IORING_CQE_F_MORE.
Cqe(type, result, bid, more) ==
    [type |-> type, result |-> result, bid |-> bid, more |-> more]

ok(cqe) == cqe.result >= 0

error(cqe) == IF ok(cqe) THEN 0 ELSE -cqe.result

\* What both handlers test before they start a cooldown.
OutOfBuffers(cqe) == error(cqe) = ENOBUFS /\ ~cqe.more

\* create_buffer_group hands every buffer to the kernel, in bid order.
create_buffer_group(buffer_count) == [i \in 1..buffer_count |-> i - 1]

\* BufferGroup::return_buffer adds one buffer at the tail of the ring; the
\* kernel takes the head.
return_buffer(br, bid) == Append(br, bid)

\* The error of BufferGroup::get_buffer(bid, size), "None" if it returns a span.
get_buffer(bid, size, buffer_count, buffer_size) ==
    IF bid >= buffer_count THEN "InvalidBid"
    ELSE IF size > buffer_size THEN "InvalidSize"
    ELSE "None"

\* What get_sqe() followed by submit() may return; `faulty' says whether the
\* kernel may refuse.
SubmitResults(faulty) ==
    IF faulty THEN {"None", "NotEnoughSqe", "RingSubmitFailed"} ELSE {"None"}

=============================================================================
