------------------------------ MODULE Session ------------------------------
(***************************************************************************)
(* zportal::Session: one process, one completion queue, the transmitter    *)
(* and the receiver of one side of a tunnel and the monitor's TIMEOUT.     *)
(* run() arms the requests one after the other and then handles one        *)
(* completion at a time, dispatched by operation type; any error of any    *)
(* part ends the session.                                                  *)
(***************************************************************************)
EXTENDS IoUring

CONSTANTS
    tx_queue_length, rx_queue_length, rx_buffer_size,  \* as in create_session
    wire_size, mtu, IOV_MAX, MaxPackets, Wires, IoErrors,
    monitor_mode,   \* Config::monitor_mode
    TimeoutMultishot, \* the kernel headers of the build define
                      \* IORING_TIMEOUT_MULTISHOT
    MaxTicks        \* bound: TIMEOUT completions in a behaviour

VARIABLES
    phase,          \* the next statement of run(), "loop" once it loops
    run_result,     \* "None" until run() returns, then its error
    cq,             \* completion queue of the ring
    timing,         \* the kernel holds the monitor's TIMEOUT
    ticks,          \* TIMEOUT completions so far
    \* the transmitter
    tx_frame_queue, tx_cooling_down, tx_send_in_progress, tx_current_frame,
    tx_br, tx_mem, reading, sending, tun_rx, wire_out,
    \* the receiver
    rx_cooling_down, rx_used_buffers, rx_input_queue, rx_refcounts, rx_state,
    rx_header, rx_header_progress, rx_frame, rx_payload_progress,
    rx_output_queue, rx_write_in_progress, rx_cqe, rx_released,
    rx_br, rx_mem, recving, writing, wire_in, pos, tun_tx

own_vars == <<phase, timing, ticks>>
tx_vars == <<tx_frame_queue, tx_cooling_down, tx_send_in_progress,
             tx_current_frame, tx_br, tx_mem, reading, sending, tun_rx, wire_out>>
rx_vars == <<rx_cooling_down, rx_used_buffers, rx_input_queue, rx_refcounts,
             rx_state, rx_header, rx_header_progress, rx_frame,
             rx_payload_progress, rx_output_queue, rx_write_in_progress, rx_cqe,
             rx_released, rx_br, rx_mem, recving, writing, wire_in, pos, tun_tx>>
vars == <<own_vars, run_result, cq, tx_vars, rx_vars>>

transmitter_ == INSTANCE Transmitter WITH
        BufferCount <- tx_queue_length,
        frame_queue_ <- tx_frame_queue, cooling_down_ <- tx_cooling_down,
        send_in_progress_ <- tx_send_in_progress,
        current_frame_state_ <- tx_current_frame, br_ <- tx_br, mem <- tx_mem,
        wire <- wire_out

receiver_ == INSTANCE Receiver WITH
        BufferCount <- rx_queue_length, buffer_size <- rx_buffer_size,
        cooling_down_ <- rx_cooling_down, used_buffers_ <- rx_used_buffers,
        input_buffer_queue_ <- rx_input_queue, buffer_refcounts_ <- rx_refcounts,
        state_ <- rx_state, header_ <- rx_header,
        header_progress_ <- rx_header_progress, frame_ <- rx_frame,
        payload_progress_ <- rx_payload_progress,
        output_frame_queue_ <- rx_output_queue,
        write_in_progress_ <- rx_write_in_progress, cqe_ <- rx_cqe,
        released <- rx_released, br_ <- rx_br, mem <- rx_mem, wire <- wire_in

ASSUME SessionAssumption ==
    /\ {tx_queue_length, rx_queue_length, rx_buffer_size, wire_size, mtu, IOV_MAX}
          \subseteq Nat \ {0}
    /\ {monitor_mode, TimeoutMultishot, IoErrors} \subseteq BOOLEAN
    /\ {MaxPackets, MaxTicks} \subseteq Nat
    /\ Wires \subseteq Seq(receiver_!Bytes)

-----------------------------------------------------------------------------
\* create_session.
Init ==
    /\ phase = "arm_recv"
    /\ timing = FALSE
    /\ ticks = 0
    /\ transmitter_!Created /\ reading = FALSE
    /\ receiver_!Created /\ recving = FALSE /\ wire_in \in Wires

\* One statement of run() before its loop: arm a request or print the
\* statistics once; the first failure returns.
Start(at, results, next) ==
    /\ run_result = "None"
    /\ phase = at
    /\ \E result \in results :
          /\ run_result' = result
          /\ phase' = IF result = "None" THEN next ELSE at
    /\ UNCHANGED <<cq, ticks>>

\* What Monitor::print may return: get_stats asks netlink.
PrintResults == IF IoErrors THEN {"None", "NetlinkError"} ELSE {"None"}

ArmRecv ==
    /\ Start("arm_recv", SubmitResults(IoErrors), "arm_read")
    /\ recving' = (run_result' = "None")
    /\ UNCHANGED <<timing, tx_vars, rx_cooling_down, rx_used_buffers,
                   rx_input_queue, rx_refcounts, rx_state, rx_header,
                   rx_header_progress, rx_frame, rx_payload_progress,
                   rx_output_queue, rx_write_in_progress, rx_cqe, rx_released,
                   rx_br, rx_mem, writing, wire_in, pos, tun_tx>>

ArmRead ==
    /\ Start("arm_read", SubmitResults(IoErrors), "print")
    /\ reading' = (run_result' = "None")
    /\ UNCHANGED <<timing, rx_vars, tx_frame_queue, tx_cooling_down,
                   tx_send_in_progress, tx_current_frame, tx_br, tx_mem, sending,
                   tun_rx, wire_out>>

FirstPrint ==
    /\ Start("print", PrintResults, IF monitor_mode THEN "arm_timeout" ELSE "loop")
    /\ UNCHANGED <<timing, tx_vars, rx_vars>>

ArmTimeout ==
    /\ Start("arm_timeout", SubmitResults(IoErrors), "loop")
    /\ timing' = (run_result' = "None")
    /\ UNCHANGED <<tx_vars, rx_vars>>

-----------------------------------------------------------------------------
\* The loop takes a completion when the handler of the one before is done.
Waiting == phase = "loop" /\ rx_cqe = receiver_!idle

\* io_uring_wait_cqe fails, with EINTR for example.
WaitFailed ==
    /\ IoErrors
    /\ Waiting
    /\ run_result = "None"
    /\ run_result' = "RingWaitFailed"
    /\ UNCHANGED <<own_vars, cq, tx_vars, rx_vars>>

\* READ and SEND completions go to the transmitter, RECV and WRITE completions
\* to the receiver: each handler's guard is its part of the dispatch.
Transmit == Waiting /\ transmitter_!Handle /\ UNCHANGED <<own_vars, rx_vars>>
Receive == phase = "loop" /\ receiver_!Handle /\ UNCHANGED <<own_vars, tx_vars>>

\* Mutant: nobody arms a TIMEOUT that ended.
RearmsNever(type) == FALSE

\* Monitor::handle_cqe arms the next TIMEOUT unless it is multishot: then it
\* relies on the kernel to keep the request.
Rearms(type) == type = "TIMEOUT" /\ monitor_mode /\ ~TimeoutMultishot

TickResults(type) ==
    CASE type = "NONE" -> {"None"}
      [] type = "TIMEOUT" /\ monitor_mode ->
            PrintResults \cup (IF Rearms(type) THEN SubmitResults(IoErrors) ELSE {})
      [] OTHER -> {"InvalidEnumValue"}

\* The rest of the dispatch.  Without monitor_mode, or for any other type, the
\* loop ends with InvalidEnumValue.
Dispatched == {"READ", "SEND", "RECV", "WRITE"}
Tick ==
    /\ Waiting
    /\ run_result = "None"
    /\ cq # <<>>
    /\ Head(cq).type \notin Dispatched
    /\ cq' = Tail(cq)
    /\ run_result' \in TickResults(Head(cq).type)
    /\ timing' = (timing \/ (Rearms(Head(cq).type) /\ run_result' = "None"))
    /\ UNCHANGED <<phase, ticks, tx_vars, rx_vars>>

\* The kernel works on the requests it holds, also while run() starts.
KernelTransmit == transmitter_!Kernel /\ UNCHANGED <<own_vars, rx_vars>>
KernelReceive == receiver_!Kernel /\ UNCHANGED <<own_vars, tx_vars>>

\* The timer fires; a full completion queue ends a multishot request.
KernelTick(more) ==
    /\ run_result = "None"
    /\ timing
    /\ ticks < MaxTicks
    /\ ticks' = ticks + 1
    /\ timing' = more
    /\ cq' = Append(cq, Cqe("TIMEOUT", -ETIME, NoBid, more))
    /\ UNCHANGED <<phase, run_result, tx_vars, rx_vars>>

Run ==
    \/ ArmRecv \/ ArmRead \/ FirstPrint \/ ArmTimeout
    \/ WaitFailed \/ Transmit \/ Receive \/ Tick

Next ==
    \/ Run
    \/ KernelTransmit \/ KernelReceive
    \/ \E more \in BOOLEAN : (more => TimeoutMultishot) /\ KernelTick(more)

Spec == Init /\ [][Next]_vars

\* The process is scheduled, the socket accepts and delivers bytes, and the
\* TUN device takes packets.
FairSpec ==
    /\ Spec
    /\ WF_vars(Run)
    /\ WF_vars(transmitter_!Sends /\ UNCHANGED <<own_vars, rx_vars>>)
    /\ WF_vars(receiver_!Recvs /\ UNCHANGED <<own_vars, tx_vars>>)
    /\ WF_vars(receiver_!Writes /\ UNCHANGED <<own_vars, tx_vars>>)

-----------------------------------------------------------------------------
(* Properties *)

\* With both directions and the monitor in one completion queue, no buffer of
\* either group is leaked or returned twice, and each direction's request is
\* with the kernel at most once, from the first statement of run() on; and
\* completions of the other direction between an ENOBUFS and those before it do
\* not keep the transmitter's cooldown from ending.
OwnershipShared ==
    /\ transmitter_!BufferOwnership
    /\ receiver_!BufferOwnership
    /\ transmitter_!SendSerialized
    /\ receiver_!WriteSerialized
    /\ transmitter_!CoolDownDrains
    /\ phase \in {"print", "arm_timeout", "loop"} => transmitter_!ReadArmedOnce
    /\ phase # "arm_recv" => receiver_!RecvArmedOnce

\* Traffic in one direction does not starve the other: all packets read are
\* sent and all frames received are written, unless the session ends.
BothDirectionsProgress ==
    /\ transmitter_!EveryPacketSent
    /\ receiver_!EveryFrameWritten

\* Where TIMEOUT is not multishot, the loop of a session that goes on always
\* has exactly one TIMEOUT under way or waiting to be handled: the statistics
\* neither stop nor come twice.
MonitorArmedOnce ==
    phase = "loop" /\ run_result = "None" /\ monitor_mode /\ ~TimeoutMultishot =>
        timing = (\A i \in DOMAIN cq : cq[i].type # "TIMEOUT")

=============================================================================
