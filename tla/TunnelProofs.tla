---------------------------- MODULE TunnelProofs ----------------------------
(***************************************************************************)
(* Proofs about Tunnel, for two programs with their own buffers and MTUs:  *)
(* only a packet too large for the receiving side is ever rejected, and    *)
(* the tunnel takes the steps of a channel of packets.  Each side keeps    *)
(* the invariant proved about it alone; what the other side does is a      *)
(* stutter of it, except that the stream grows at the receiver.            *)
(***************************************************************************)
EXTENDS Tunnel, TLAPS

\* Each side with the definitions and the facts of its proofs.
TxP == INSTANCE TransmitterProofs WITH
        BufferCount <- tx_buffer_count, mtu <- tx_mtu,
        frame_queue_ <- tx_frame_queue, cooling_down_ <- tx_cooling_down,
        send_in_progress_ <- tx_send_in_progress,
        current_frame_state_ <- tx_current_frame, run_result <- tx_run_result,
        br_ <- tx_br, mem <- tx_mem, cq <- tx_cq

RxP == INSTANCE ReceiverProofs WITH
        BufferCount <- rx_buffer_count, buffer_size <- rx_buffer_size,
        mtu <- rx_mtu, Wires <- {<<>>},
        cooling_down_ <- rx_cooling_down, used_buffers_ <- rx_used_buffers,
        input_buffer_queue_ <- rx_input_queue, buffer_refcounts_ <- rx_refcounts,
        state_ <- rx_state, header_ <- rx_header,
        header_progress_ <- rx_header_progress, frame_ <- rx_frame,
        payload_progress_ <- rx_payload_progress,
        output_frame_queue_ <- rx_output_queue,
        write_in_progress_ <- rx_write_in_progress, cqe_ <- rx_cqe,
        released <- rx_released, run_result <- rx_run_result, br_ <- rx_br,
        mem <- rx_mem, cq <- rx_cq

\* Both instances of the transmitter start in the same states,
LEMMA TxInitSame == Tx!Init <=> TxP!Init
  BY DEF Tx!Init, TxP!Init, Tx!Created, TxP!Created, Tx!nullopt, TxP!nullopt, Tx!Bids, TxP!Bids,
         Tx!create_buffer_group, TxP!create_buffer_group, Tx!NoBid, TxP!NoBid,
         Tx!FrameHeader, TxP!FrameHeader

\* and take the same steps.
LEMMA TxNextSame == Tx!Next <=> TxP!Next
<1>1. Tx!ReadNoBuffers <=> TxP!ReadNoBuffers
  BY DEF
     Tx!ReadNoBuffers, TxP!ReadNoBuffers, Tx!Handles, TxP!Handles, Tx!own_vars,
     TxP!own_vars, Tx!NoBid, TxP!NoBid, Tx!ok, TxP!ok, Tx!error, TxP!error,
     Tx!OutOfBuffers, TxP!OutOfBuffers, Tx!ENOBUFS, TxP!ENOBUFS, Tx!kick_send_,
     TxP!kick_send_, Tx!SendResults, TxP!SendResults, Tx!FrameFailure, TxP!FrameFailure,
     Tx!get_buffer, TxP!get_buffer, Tx!FrameToSend, TxP!FrameToSend, Tx!NewFrameState,
     TxP!NewFrameState, Tx!create_frame_header_, TxP!create_frame_header_, Tx!Payload,
     TxP!Payload, Tx!nullopt, TxP!nullopt, Tx!Segments, TxP!Segments, Tx!Total,
     TxP!Total, Tx!SubmitResults, TxP!SubmitResults, Tx!FrameHeader, TxP!FrameHeader,
     Tx!PayloadByte, TxP!PayloadByte, Tx!HeaderByte, TxP!HeaderByte, Tx!crc32c,
     TxP!crc32c
<1>2. Tx!ReadFailed <=> TxP!ReadFailed
  BY SMTT(30) DEF
     Tx!ReadFailed, TxP!ReadFailed, Tx!Handles, TxP!Handles, Tx!own_vars, TxP!own_vars,
     Tx!NoBid, TxP!NoBid, Tx!ok, TxP!ok, Tx!error, TxP!error, Tx!OutOfBuffers,
     TxP!OutOfBuffers, Tx!ENOBUFS, TxP!ENOBUFS
<1>3. Tx!ReadPacket <=> TxP!ReadPacket
  BY DEF
     Tx!ReadPacket, TxP!ReadPacket, Tx!Handles, TxP!Handles, Tx!own_vars, TxP!own_vars,
     Tx!NoBid, TxP!NoBid, Tx!ok, TxP!ok, Tx!error, TxP!error, Tx!OutOfBuffers,
     TxP!OutOfBuffers, Tx!ENOBUFS, TxP!ENOBUFS, Tx!kick_send_, TxP!kick_send_,
     Tx!SendResults, TxP!SendResults, Tx!FrameFailure, TxP!FrameFailure, Tx!get_buffer,
     TxP!get_buffer, Tx!FrameToSend, TxP!FrameToSend, Tx!NewFrameState,
     TxP!NewFrameState, Tx!create_frame_header_, TxP!create_frame_header_, Tx!Payload,
     TxP!Payload, Tx!nullopt, TxP!nullopt, Tx!Segments, TxP!Segments, Tx!Total,
     TxP!Total, Tx!SubmitResults, TxP!SubmitResults, Tx!FrameHeader, TxP!FrameHeader,
     Tx!PayloadByte, TxP!PayloadByte, Tx!HeaderByte, TxP!HeaderByte, Tx!crc32c,
     TxP!crc32c, Tx!MustRearm, TxP!MustRearm
<1>4. Tx!ReadRearmFailed <=> TxP!ReadRearmFailed
  BY DEF
     Tx!ReadRearmFailed, TxP!ReadRearmFailed, Tx!Handles, TxP!Handles, Tx!own_vars,
     TxP!own_vars, Tx!NoBid, TxP!NoBid, Tx!ok, TxP!ok, Tx!error, TxP!error,
     Tx!OutOfBuffers, TxP!OutOfBuffers, Tx!ENOBUFS, TxP!ENOBUFS, Tx!MustRearm,
     TxP!MustRearm, Tx!SubmitResults, TxP!SubmitResults
<1>5. Tx!ReadNoMemory <=> TxP!ReadNoMemory
  BY DEF
     Tx!ReadNoMemory, TxP!ReadNoMemory, Tx!Handles, TxP!Handles, Tx!own_vars,
     TxP!own_vars, Tx!NoBid, TxP!NoBid, Tx!ok, TxP!ok, Tx!error, TxP!error,
     Tx!OutOfBuffers, TxP!OutOfBuffers, Tx!ENOBUFS, TxP!ENOBUFS, Tx!return_buffer,
     TxP!return_buffer
<1>6. Tx!SendFailed <=> TxP!SendFailed
  BY SMTT(90) DEF
     Tx!SendFailed, TxP!SendFailed, Tx!Handles, TxP!Handles, Tx!own_vars, TxP!own_vars,
     Tx!NoBid, TxP!NoBid, Tx!ok, TxP!ok, Tx!error, TxP!error, Tx!OutOfBuffers,
     TxP!OutOfBuffers, Tx!ENOBUFS, TxP!ENOBUFS, Tx!SendFailure, TxP!SendFailure,
     Tx!Total, TxP!Total, Tx!nullopt, TxP!nullopt, Tx!FrameHeader, TxP!FrameHeader
<1>7. Tx!SendDone <=> TxP!SendDone
  BY DEF
     Tx!SendDone, TxP!SendDone, Tx!Handles, TxP!Handles, Tx!own_vars, TxP!own_vars,
     Tx!NoBid, TxP!NoBid, Tx!ok, TxP!ok, Tx!error, TxP!error, Tx!OutOfBuffers,
     TxP!OutOfBuffers, Tx!ENOBUFS, TxP!ENOBUFS, Tx!SendFailure, TxP!SendFailure,
     Tx!CooledDown, TxP!CooledDown, Tx!AfterSend, TxP!AfterSend, Tx!Total, TxP!Total,
     Tx!nullopt, TxP!nullopt, Tx!FrameHeader, TxP!FrameHeader, Tx!return_buffer,
     TxP!return_buffer, Tx!SubmitResults, TxP!SubmitResults, Tx!kick_send_,
     TxP!kick_send_, Tx!SendResults, TxP!SendResults, Tx!FrameFailure, TxP!FrameFailure,
     Tx!get_buffer, TxP!get_buffer, Tx!FrameToSend, TxP!FrameToSend, Tx!NewFrameState,
     TxP!NewFrameState, Tx!create_frame_header_, TxP!create_frame_header_, Tx!Payload,
     TxP!Payload, Tx!Segments, TxP!Segments, Tx!PayloadByte, TxP!PayloadByte,
     Tx!HeaderByte, TxP!HeaderByte, Tx!crc32c, TxP!crc32c
<1>8. Tx!SendRearmFailed <=> TxP!SendRearmFailed
  BY DEF
     Tx!SendRearmFailed, TxP!SendRearmFailed, Tx!Handles, TxP!Handles, Tx!own_vars,
     TxP!own_vars, Tx!NoBid, TxP!NoBid, Tx!ok, TxP!ok, Tx!error, TxP!error,
     Tx!OutOfBuffers, TxP!OutOfBuffers, Tx!ENOBUFS, TxP!ENOBUFS, Tx!SendFailure,
     TxP!SendFailure, Tx!CooledDown, TxP!CooledDown, Tx!AfterSend, TxP!AfterSend,
     Tx!Total, TxP!Total, Tx!nullopt, TxP!nullopt, Tx!FrameHeader, TxP!FrameHeader,
     Tx!return_buffer, TxP!return_buffer, Tx!SubmitResults, TxP!SubmitResults
<1>9. Tx!Kernel <=> TxP!Kernel
  BY DEF
     Tx!Kernel, TxP!Kernel, Tx!KernelStep, TxP!KernelStep, Tx!own_vars, TxP!own_vars,
     Tx!KernelRead, TxP!KernelRead, Tx!KernelReadNoBuffers, TxP!KernelReadNoBuffers,
     Tx!KernelReadError, TxP!KernelReadError, Tx!SegmentBytes, TxP!SegmentBytes, Tx!Iov,
     TxP!Iov, Tx!KernelSend, TxP!KernelSend, Tx!KernelSendError, TxP!KernelSendError,
     Tx!NoBid, TxP!NoBid, Tx!Cqe, TxP!Cqe, Tx!EIO, TxP!EIO, Tx!ENOBUFS, TxP!ENOBUFS,
     Tx!PayloadByte, TxP!PayloadByte, Tx!HeaderByte, TxP!HeaderByte, Tx!crc32c,
     TxP!crc32c
<1> QED BY <1>1, <1>2, <1>3, <1>4, <1>5, <1>6, <1>7, <1>8, <1>9
        DEF Tx!Next, TxP!Next, Tx!Handle, TxP!Handle

\* Both instances of the receiver start in the same states,
LEMMA RxInitSame == Rx!Init <=> RxP!Init
  BY DEF
         Rx!Init, RxP!Init, Rx!Created, RxP!Created, Rx!Bids, RxP!Bids, Rx!idle, RxP!idle,
         Rx!Cqe, RxP!Cqe, Rx!NoBid, RxP!NoBid, Rx!EmptyFrame, RxP!EmptyFrame,
         Rx!create_buffer_group, RxP!create_buffer_group, Rx!HeaderBytes, RxP!HeaderBytes,
         Rx!HeaderByte, RxP!HeaderByte, Rx!FrameHeader, RxP!FrameHeader

\* and take the same steps.
LEMMA RxNextSame == Rx!Next <=> RxP!Next
<1>1. Rx!RecvNoBuffers <=> RxP!RecvNoBuffers
  BY DEF
     Rx!RecvNoBuffers, RxP!RecvNoBuffers, Rx!own_vars, RxP!own_vars,
     Rx!handler_vars, RxP!handler_vars, Rx!parser_vars, RxP!parser_vars,
     Rx!Handles, RxP!Handles, Rx!Cqe, RxP!Cqe, Rx!NoBid, RxP!NoBid, Rx!idle, RxP!idle,
     Rx!ok, RxP!ok, Rx!kick_write_, RxP!kick_write_, Rx!SubmitResults, RxP!SubmitResults,
     Rx!OutOfBuffers, RxP!OutOfBuffers, Rx!error, RxP!error, Rx!ENOBUFS, RxP!ENOBUFS
<1>2. Rx!RecvFailed <=> RxP!RecvFailed
  BY DEF
     Rx!RecvFailed, RxP!RecvFailed, Rx!own_vars, RxP!own_vars,
     Rx!handler_vars, RxP!handler_vars, Rx!parser_vars, RxP!parser_vars,
     Rx!Handles, RxP!Handles, Rx!Cqe, RxP!Cqe, Rx!NoBid, RxP!NoBid, Rx!idle, RxP!idle,
     Rx!ok, RxP!ok, Rx!RecvFailures, RxP!RecvFailures, Rx!OutOfBuffers, RxP!OutOfBuffers,
     Rx!error, RxP!error, Rx!ENOBUFS, RxP!ENOBUFS
<1>3. Rx!RecvChunk <=> RxP!RecvChunk
  BY DEF
     Rx!RecvChunk, RxP!RecvChunk, Rx!own_vars, RxP!own_vars,
     Rx!handler_vars, RxP!handler_vars, Rx!parser_vars, RxP!parser_vars,
     Rx!Handles, RxP!Handles, Rx!Cqe, RxP!Cqe, Rx!NoBid, RxP!NoBid, Rx!idle, RxP!idle,
     Rx!ok, RxP!ok
<1>4. Rx!ParseHeader <=> RxP!ParseHeader
  BY DEF
     Rx!ParseHeader, RxP!ParseHeader, Rx!own_vars, RxP!own_vars,
     Rx!handler_vars, RxP!handler_vars, Rx!parser_vars, RxP!parser_vars,
     Rx!Parses, RxP!Parses, Rx!Take, RxP!Take, Rx!InputFailure, RxP!InputFailure,
     Rx!get_buffer, RxP!get_buffer, Rx!Exhausted, RxP!Exhausted, Rx!Consume, RxP!Consume,
     Rx!return_buffer, RxP!return_buffer, Rx!CopyHeader, RxP!CopyHeader,
     Rx!HeaderFailure, RxP!HeaderFailure, Rx!HeaderProgress, RxP!HeaderProgress,
     Rx!is_magic_valid, RxP!is_magic_valid, Rx!get_size, RxP!get_size,
     Rx!get_u32_, RxP!get_u32_, Rx!FieldAt, RxP!FieldAt
<1>5. Rx!ParsePayload <=> RxP!ParsePayload
  <2>1. ASSUME NEW frame PROVE Rx!PayloadFailure(frame) = RxP!PayloadFailure(frame)
    BY DEF
       Rx!PayloadFailure, RxP!PayloadFailure, Rx!Iov, RxP!Iov,
       Rx!SegmentBytes, RxP!SegmentBytes, Rx!FlattenSeq, RxP!FlattenSeq,
       Rx!get_crc, RxP!get_crc, Rx!get_u32_, RxP!get_u32_, Rx!FieldAt, RxP!FieldAt,
       Rx!crc32c, RxP!crc32c, Rx!PayloadByte, RxP!PayloadByte
  <2>2. Rx!get_size(rx_header) = RxP!get_size(rx_header)
    BY DEF Rx!get_size, RxP!get_size, Rx!get_u32_, RxP!get_u32_, Rx!FieldAt, RxP!FieldAt
  <2> QED BY <2>1, <2>2 DEF
       Rx!ParsePayload, RxP!ParsePayload, Rx!own_vars, RxP!own_vars,
       Rx!handler_vars, RxP!handler_vars, Rx!parser_vars, RxP!parser_vars,
       Rx!Parses, RxP!Parses, Rx!Take, RxP!Take, Rx!InputFailure, RxP!InputFailure,
       Rx!get_buffer, RxP!get_buffer, Rx!Exhausted, RxP!Exhausted, Rx!Consume, RxP!Consume,
       Rx!return_buffer, RxP!return_buffer, Rx!AddSegment, RxP!AddSegment,
       Rx!Referenced, RxP!Referenced, Rx!EmptyFrame, RxP!EmptyFrame
<1>6. Rx!ParseNoMemory <=> RxP!ParseNoMemory
  BY DEF
     Rx!ParseNoMemory, RxP!ParseNoMemory, Rx!own_vars, RxP!own_vars,
     Rx!handler_vars, RxP!handler_vars, Rx!parser_vars, RxP!parser_vars,
     Rx!Parses, RxP!Parses, Rx!Referenced, RxP!Referenced
<1>7. Rx!RecvDone <=> RxP!RecvDone
  BY DEF
     Rx!RecvDone, RxP!RecvDone, Rx!own_vars, RxP!own_vars,
     Rx!handler_vars, RxP!handler_vars, Rx!parser_vars, RxP!parser_vars,
     Rx!Parsed, RxP!Parsed, Rx!MustRearm, RxP!MustRearm, Rx!kick_write_, RxP!kick_write_,
     Rx!SubmitResults, RxP!SubmitResults, Rx!idle, RxP!idle, Rx!Cqe, RxP!Cqe,
     Rx!NoBid, RxP!NoBid
<1>8. Rx!RecvRearmFailed <=> RxP!RecvRearmFailed
  BY DEF
     Rx!RecvRearmFailed, RxP!RecvRearmFailed, Rx!own_vars, RxP!own_vars,
     Rx!handler_vars, RxP!handler_vars, Rx!parser_vars, RxP!parser_vars,
     Rx!Parsed, RxP!Parsed, Rx!MustRearm, RxP!MustRearm,
     Rx!SubmitResults, RxP!SubmitResults
<1>9. Rx!WriteCompleted <=> RxP!WriteCompleted
  BY DEF
     Rx!WriteCompleted, RxP!WriteCompleted, Rx!own_vars, RxP!own_vars,
     Rx!handler_vars, RxP!handler_vars, Rx!parser_vars, RxP!parser_vars,
     Rx!Handles, RxP!Handles, Rx!Cqe, RxP!Cqe, Rx!NoBid, RxP!NoBid, Rx!idle, RxP!idle,
     Rx!ok, RxP!ok, Rx!Iov, RxP!Iov, Rx!SegmentBytes, RxP!SegmentBytes,
     Rx!FlattenSeq, RxP!FlattenSeq, Rx!WriteFailure, RxP!WriteFailure,
     Rx!FrameSize, RxP!FrameSize
<1>10. Rx!ReleaseBuffer <=> RxP!ReleaseBuffer
  BY DEF
     Rx!ReleaseBuffer, RxP!ReleaseBuffer, Rx!own_vars, RxP!own_vars,
     Rx!handler_vars, RxP!handler_vars, Rx!parser_vars, RxP!parser_vars,
     Rx!Releases, RxP!Releases, Rx!LastReference, RxP!LastReference,
     Rx!return_buffer, RxP!return_buffer
<1>11. Rx!WriteDone <=> RxP!WriteDone
  BY DEF
     Rx!WriteDone, RxP!WriteDone, Rx!own_vars, RxP!own_vars,
     Rx!handler_vars, RxP!handler_vars, Rx!parser_vars, RxP!parser_vars,
     Rx!Released, RxP!Released, Rx!Releases, RxP!Releases, Rx!CooledDown, RxP!CooledDown,
     Rx!kick_write_, RxP!kick_write_, Rx!SubmitResults, RxP!SubmitResults,
     Rx!idle, RxP!idle, Rx!Cqe, RxP!Cqe, Rx!NoBid, RxP!NoBid
<1>12. Rx!WriteRearmFailed <=> RxP!WriteRearmFailed
  BY DEF
     Rx!WriteRearmFailed, RxP!WriteRearmFailed, Rx!own_vars, RxP!own_vars,
     Rx!handler_vars, RxP!handler_vars, Rx!parser_vars, RxP!parser_vars,
     Rx!Released, RxP!Released, Rx!Releases, RxP!Releases, Rx!CooledDown, RxP!CooledDown,
     Rx!SubmitResults, RxP!SubmitResults
<1>13. Rx!Kernel <=> RxP!Kernel
  BY DEF
     Rx!Kernel, RxP!Kernel, Rx!own_vars, RxP!own_vars, Rx!handler_vars, RxP!handler_vars,
     Rx!parser_vars, RxP!parser_vars, Rx!KernelStep, RxP!KernelStep,
     Rx!KernelRecv, RxP!KernelRecv, Rx!EndRecv, RxP!EndRecv,
     Rx!KernelRecvNoBuffers, RxP!KernelRecvNoBuffers,
     Rx!KernelRecvError, RxP!KernelRecvError, Rx!KernelPeerClosed, RxP!KernelPeerClosed,
     Rx!KernelWrite, RxP!KernelWrite, Rx!KernelWriteError, RxP!KernelWriteError,
     Rx!Cqe, RxP!Cqe, Rx!NoBid, RxP!NoBid, Rx!EIO, RxP!EIO, Rx!EINVAL, RxP!EINVAL,
     Rx!ENOBUFS, RxP!ENOBUFS, Rx!Iov, RxP!Iov, Rx!SegmentBytes, RxP!SegmentBytes,
     Rx!FlattenSeq, RxP!FlattenSeq
<1> QED BY <1>1, <1>2, <1>3, <1>4, <1>5, <1>6, <1>7, <1>8, <1>9, <1>10, <1>11, <1>12, <1>13
        DEF Rx!Next, RxP!Next, Rx!Handle, RxP!Handle


\* The tunnel's constants meet the receiver's assumptions,
LEMMA RxAssumptions == RxP!WireSizeAssumption /\ RxP!ReceiverAssumption
<1>1. <<>> \in Seq(RxP!Bytes)
  OBVIOUS
<1> QED BY <1>1, TunnelAssumption DEF RxP!WireSizeAssumption, RxP!ReceiverAssumption

\* and the transmitter's.
LEMMA TxAssumptions == TxP!WireSizeAssumption /\ TxP!TransmitterAssumption
  BY TunnelAssumption DEF TxP!WireSizeAssumption, TxP!TransmitterAssumption


-----------------------------------------------------------------------------
(* One frame format on both sides *)

\* The sender's stream of frames is the receiver's.
LEMMA FrameStreamSame ==
    ASSUME NEW sizes PROVE TxP!FrameStream(sizes) = RxP!FrameStream(sizes)
<1>1. ASSUME NEW p, NEW size PROVE TxP!FrameBytes(p, size) = RxP!FrameBytes(p, size)
  BY DEF TxP!FrameBytes, RxP!FrameBytes, TxP!HeaderBytes, RxP!HeaderBytes,
         TxP!HeaderByte, RxP!HeaderByte, TxP!FrameHeader, RxP!FrameHeader,
         TxP!crc32c, RxP!crc32c, TxP!PayloadByte, RxP!PayloadByte
<1>2. ASSUME NEW seqs PROVE TxP!FlattenSeq(seqs) = RxP!FlattenSeq(seqs)
  BY DEF TxP!FlattenSeq, RxP!FlattenSeq
<1> QED BY <1>1, <1>2 DEF TxP!FrameStream, RxP!FrameStream

\* Both sides send and receive the same kind of bytes and of packets.
LEMMA BytesSame ==
    TxP!Bytes = RxP!Bytes /\ TxP!PacketSizes = RxP!PacketSizes
  BY DEF TxP!Bytes, RxP!Bytes, TxP!PacketSizes, RxP!PacketSizes

-----------------------------------------------------------------------------
(* The invariant *)

\* Each side's own invariant; the receiver's follows the stream while it runs.
TxInv == TxP!WireSteps /\ TxP!WireInv
RxInv == RxP!OwnInv /\ (RxP!Running => RxP!Following)

\* What left the tunnel is what entered it first, whole.
Delivered ==
    /\ Len(tun_tx) <= Len(tun_rx)
    /\ \A i \in 1..Len(tun_tx) : /\ tun_tx[i] = RxP!PacketBytes(i, tun_rx[i])
                                 /\ tun_rx[i] <= rx_mtu

\* The only protocol error is a packet too large for the receiver.
Rejected ==
    /\ rx_run_result \notin {"InvalidMagic", "FrameCrcMismatch"}
    /\ rx_run_result = "InvalidSize" => \E p \in 1..Len(tun_rx) : tun_rx[p] > rx_mtu

TunnelInv == TxInv /\ RxInv /\ Delivered /\ Rejected

\* The types of what the sides share.
LEMMA Shared ==
    TxInv /\ RxP!OwnInv
      => /\ wire \in Seq(RxP!Bytes) /\ tun_rx \in Seq(1..tx_mtu)
         /\ tun_rx \in Seq(RxP!PacketSizes) /\ tun_tx \in Seq(Seq(RxP!Bytes))
<1> SUFFICES ASSUME TxInv, RxP!OwnInv
             PROVE  /\ wire \in Seq(RxP!Bytes) /\ tun_rx \in Seq(1..tx_mtu)
                    /\ tun_rx \in Seq(RxP!PacketSizes) /\ tun_tx \in Seq(Seq(RxP!Bytes))
  OBVIOUS
<1>1. wire \in Seq(RxP!Bytes) /\ tun_tx \in Seq(Seq(RxP!Bytes))
  BY DEF RxP!OwnInv, RxP!RefsInv, RxP!ShapeInv, RxP!Types
<1>2. tun_rx \in Seq(1..tx_mtu)
  BY DEF TxInv, TxP!WireSteps, TxP!TypeInv, TxP!TypeOK
<1>3. Seq(1..tx_mtu) \subseteq Seq(TxP!PacketSizes)
  BY TxP!SizesType, TxAssumptions
<1> QED BY <1>1, <1>2, <1>3, BytesSame

\* What the wire means to the receiver, in terms of the packets that entered.
LEMMA WireMeans ==
    TxInv /\ RxP!OwnInv => RxP!Means(RxP!Decode(wire, rx_mtu), 0, tun_rx)
<1> SUFFICES ASSUME TxInv, RxP!OwnInv
             PROVE  RxP!Means(RxP!Decode(wire, rx_mtu), 0, tun_rx)
  OBVIOUS
<1>1. wire \in Seq(RxP!Bytes) /\ tun_rx \in Seq(RxP!PacketSizes)
  BY Shared
<1>2. TxP!FrameStream(tun_rx) \in Seq(TxP!Bytes)
  <2>1. tun_rx \in Seq(TxP!PacketSizes) /\ 1 \in TxP!PacketSizes
    BY <1>1, BytesSame DEF TxP!PacketSizes
  <2> QED BY <2>1, TxP!StreamAppend, TxAssumptions
<1>3. TxP!IsPrefix(wire, TxP!FrameStream(tun_rx))
  BY DEF TxInv, TxP!WireInv, TxP!WireInOrder, TxP!IsStreamPrefix
<1>4. wire \in Seq(TxP!Bytes)
  BY <1>1, BytesSame
<1>5. TxP!Extends(wire, TxP!FrameStream(tun_rx))
  BY <1>2, <1>3, <1>4, TxP!PrefixExtends, TxAssumptions
<1>6. RxP!Extends(wire, RxP!FrameStream(tun_rx))
  BY <1>5, FrameStreamSame DEF TxP!Extends, RxP!Extends
<1> QED BY <1>1, <1>6, RxP!StreamDecoded, RxAssumptions


-----------------------------------------------------------------------------
(* Its steps *)

\* A step of the tunnel is a step of the sender, or leaves it alone.
LEMMA TxSide == [Next]_vars => [TxP!Next]_(TxP!vars)
<1> SUFFICES ASSUME [Next]_vars PROVE TxP!Next \/ UNCHANGED TxP!vars
  OBVIOUS
<1>1. CASE TxStep
  BY <1>1, TxNextSame DEF TxStep
<1>2. CASE RxStep
  <2>1. RxP!Next
    BY <1>2, RxNextSame DEF RxStep
  <2>2. wire' = wire
    BY <2>1, RxP!WireSame, RxAssumptions
  <2> QED BY <1>2, <2>2 DEF RxStep, tx_vars, TxP!vars, TxP!own_vars, TxP!kernel_vars
<1>3. CASE UNCHANGED vars
  BY <1>3 DEF vars, tx_vars, TxP!vars, TxP!own_vars, TxP!kernel_vars
<1> QED BY <1>1, <1>2, <1>3 DEF Next

\* To the receiver it is a step of its own, or the stream grows.
LEMMA RxSide ==
    TxInv /\ RxP!OwnInv /\ [Next]_vars
      => \/ RxP!Grows
         \/ [RxP!Next]_(RxP!vars) /\ wire' = wire /\ UNCHANGED tx_vars
<1> SUFFICES ASSUME TxInv, RxP!OwnInv, [Next]_vars
             PROVE  \/ RxP!Grows
                    \/ (RxP!Next \/ UNCHANGED RxP!vars) /\ wire' = wire /\ UNCHANGED tx_vars
  OBVIOUS
<1>1. CASE TxStep
  <2>1. wire \in Seq(TxP!Bytes)
    BY Shared, BytesSame
  <2>2. [TxP!Next]_(TxP!vars)
    BY TxSide
  <2>3. wire' \in Seq(TxP!Bytes) /\ TxP!Extends(wire, wire')
    BY <2>1, <2>2, TxP!WireGrows, TxAssumptions DEF TxInv
  <2>4. wire' \in Seq(RxP!Bytes) /\ RxP!Extends(wire, wire')
    BY <2>3, BytesSame DEF TxP!Extends, RxP!Extends
  <2> QED BY <1>1, <2>4 DEF TxStep, rx_vars, RxP!Grows, RxP!own_vars, RxP!parser_vars,
                            RxP!handler_vars
<1>2. CASE RxStep
  <2>1. RxP!Next
    BY <1>2, RxNextSame DEF RxStep
  <2>2. wire' = wire
    BY <2>1, RxP!WireSame, RxAssumptions
  <2> QED BY <1>2, <2>1, <2>2 DEF RxStep, tx_vars
<1>3. CASE UNCHANGED vars
  BY <1>3 DEF vars, tx_vars, rx_vars, RxP!vars, RxP!own_vars, RxP!parser_vars,
              RxP!handler_vars, RxP!kernel_vars
<1> QED BY <1>1, <1>2, <1>3 DEF Next

\* The sender keeps its invariant.
LEMMA NextTxInv == TxInv /\ [Next]_vars => TxInv'
<1> SUFFICES ASSUME TxInv, [Next]_vars PROVE TxInv'
  OBVIOUS
<1>1. [TxP!Next]_(TxP!vars)
  BY TxSide
<1>2. TxP!TypeInv /\ TxP!SendInv /\ TxP!BufferOwnership /\ TxP!ProgressInv
  BY DEF TxInv, TxP!WireSteps
<1>3. TxP!TypeInv'
  BY <1>1, <1>2, TxP!NextTypeInv, TxAssumptions
<1>4. TxP!SendInv'
  BY <1>1, <1>2, TxP!NextSendInv, TxAssumptions
<1>5. TxP!BufferOwnership'
  BY <1>1, <1>2, TxP!NextOwnership, TxAssumptions
<1>6. TxP!ProgressInv'
  BY <1>1, <1>2, TxP!NextProgress, TxAssumptions
<1>7. TxP!WireSteps'
  BY <1>3, <1>4, <1>5, <1>6 DEF TxP!WireSteps
<1>8. TxP!WireInv'
  BY <1>1, <1>7, TxP!NextWireInv, TxAssumptions DEF TxInv
<1> QED BY <1>7, <1>8 DEF TxInv

\* The receiver keeps its own, whichever side takes the step.
LEMMA NextRxInv == TxInv /\ RxInv /\ [Next]_vars => RxInv'
<1> SUFFICES ASSUME TxInv, RxInv, [Next]_vars PROVE RxInv'
  OBVIOUS
<1>1. RxP!OwnInv /\ (RxP!Running => RxP!Following)
  BY DEF RxInv
<1>2. CASE RxP!Grows
  <2>1. RxP!OwnInv'
    BY <1>1, <1>2, RxP!GrowsOwned, RxAssumptions
  <2>2. RxP!Running' = RxP!Running
    BY <1>2 DEF RxP!Grows, RxP!Running
  <2>3. RxP!Running => RxP!Following'
    BY <1>1, <1>2, RxP!GrowsFollows, RxAssumptions
  <2> QED BY <2>1, <2>2, <2>3 DEF RxInv
<1>3. CASE [RxP!Next]_(RxP!vars)
  <2>1. RxP!ShapeInv /\ (RxP!Running => RxP!RefsExact)
    BY <1>1 DEF RxP!OwnInv, RxP!RefsInv
  <2>2. RxP!ShapeInv'
    BY <1>3, <2>1, RxP!NextShapeInv, RxAssumptions
  <2>3. RxP!Running' => RxP!RefsExact'
    BY <1>3, <2>1, RxP!NextRefsExact, RxAssumptions
  <2>4. RxP!Running' => RxP!Owning'
    BY <1>1, <1>3, RxP!NextOwning, RxAssumptions
  <2>5. RxP!Running' => RxP!Following'
    BY <1>1, <1>3, RxP!NextFollowing, RxAssumptions
  <2> QED BY <2>2, <2>3, <2>4, <2>5 DEF RxInv, RxP!OwnInv, RxP!RefsInv
<1> QED BY <1>1, <1>2, <1>3, RxSide


\* What entered stays.
LEMMA EnteredStays ==
    TxInv /\ [Next]_vars
      => Len(tun_rx) <= Len(tun_rx') /\ \A i \in 1..Len(tun_rx) : tun_rx'[i] = tun_rx[i]
<1> SUFFICES ASSUME TxInv, [Next]_vars
             PROVE  /\ Len(tun_rx) <= Len(tun_rx')
                    /\ \A i \in 1..Len(tun_rx) : tun_rx'[i] = tun_rx[i]
  OBVIOUS
<1>1. tun_rx' = tun_rx \/ TxP!Accepts
  BY TxSide, TxP!PacketsEnter, TxAssumptions
<1>2. tun_rx \in Seq(1..tx_mtu)
  BY DEF TxInv, TxP!WireSteps, TxP!TypeInv, TxP!TypeOK
<1>3. CASE tun_rx' = tun_rx
  BY <1>2, <1>3
<1>4. CASE TxP!Accepts
  <2>1. PICK size \in 1..tx_mtu : tun_rx' = Append(tun_rx, size)
    BY <1>4 DEF TxP!Accepts
  <2> QED BY <1>2, <2>1
<1> QED BY <1>1, <1>3, <1>4

\* What leaves is what entered.
LEMMA NextDelivered ==
    TunnelInv /\ [Next]_vars /\ TxInv' /\ RxInv' => Delivered'
<1> SUFFICES ASSUME TunnelInv, [Next]_vars, TxInv', RxInv' PROVE Delivered'
  OBVIOUS
<1>1. TxInv /\ RxInv /\ RxP!OwnInv /\ RxP!OwnInv' /\ Delivered
  BY DEF TunnelInv, RxInv
<1>2. /\ Len(tun_rx) <= Len(tun_rx') /\ \A i \in 1..Len(tun_rx) : tun_rx'[i] = tun_rx[i]
      /\ Len(tun_rx) \in Nat /\ Len(tun_rx') \in Nat /\ Len(tun_tx) \in Nat
  <2>1. tun_rx \in Seq(1..tx_mtu) /\ tun_tx \in Seq(Seq(RxP!Bytes))
    BY <1>1, Shared
  <2>2. (tun_rx \in Seq(1..tx_mtu))'
    BY <1>1, Shared, PTL
  <2> QED BY <1>1, <2>1, <2>2, EnteredStays
<1>3. CASE tun_tx' = tun_tx
  <2>1. Len(tun_tx) <= Len(tun_rx) /\ \A i \in 1..Len(tun_tx) : i \in 1..Len(tun_rx)
    BY <1>1, <1>2 DEF Delivered
  <2>2. \A i \in 1..Len(tun_tx) : tun_rx'[i] = tun_rx[i]
    BY <1>2, <2>1
  <2>3. Len(tun_tx) <= Len(tun_rx')
    BY <1>2, <2>1
  <2> QED BY <1>1, <1>3, <2>2, <2>3 DEF Delivered, RxP!PacketBytes, RxP!PayloadByte
<1>4. CASE tun_tx' # tun_tx
  <2>1. [RxP!Next]_(RxP!vars)
    BY <1>1, <1>4, RxSide DEF RxP!Grows
  <2>2. RxP!Running'
    BY <1>4, <2>1, RxP!PacketsLeave, RxAssumptions DEF RxP!Delivers, RxP!Running
  <2>3. RxP!Written'
    BY <2>2 DEF RxInv, RxP!Following, RxP!Output
  <2>4. RxP!Means(RxP!Decode(wire, rx_mtu), 0, tun_rx)'
    BY <1>1, WireMeans, PTL
  <2> DEFINE here == RxP!Decode(wire', rx_mtu)
             n == Len(tun_tx')
  <2>5. /\ n <= Len(here.packets) /\ \A i \in 1..n : tun_tx'[i] = here.packets[i]
    BY <2>3, ZenonT(40) DEF RxP!Written, RxP!Packets, RxP!Decode, RxP!Decoded
  <2>6. /\ here.packets \in Seq(Seq(RxP!Bytes))
        /\ 0 + Len(here.packets) <= Len(tun_rx')
        /\ \A i \in 1..Len(here.packets) :
              /\ here.packets[i] = RxP!PacketBytes(0 + i, tun_rx'[0 + i])
              /\ tun_rx'[0 + i] <= rx_mtu
    BY <2>4 DEF RxP!Means, RxP!Decode, RxP!Decoded
  <2>7. n \in Nat
    <3>1. (tun_tx \in Seq(Seq(RxP!Bytes)))'
      BY <1>1, Shared, PTL
    <3> QED BY <3>1
  <2> HIDE DEF here, n
  <2>8. Len(here.packets) \in Nat /\ n <= Len(tun_rx')
    BY <1>2, <2>5, <2>6, <2>7
  <2>9. ASSUME NEW i \in 1..n
        PROVE  tun_tx'[i] = RxP!PacketBytes(i, tun_rx'[i]) /\ tun_rx'[i] <= rx_mtu
    <3>1. i \in 1..Len(here.packets) /\ 0 + i = i
      BY <2>5, <2>7, <2>8
    <3> QED BY <2>5, <2>6, <3>1
  <2> QED BY <2>8, <2>9 DEF Delivered, n, RxP!PacketBytes, RxP!PayloadByte
<1> QED BY <1>3, <1>4

\* A packet too large is the only reason to reject.
LEMMA NextRejected ==
    TunnelInv /\ [Next]_vars /\ TxInv' /\ RxInv' => Rejected'
<1> SUFFICES ASSUME TunnelInv, [Next]_vars, TxInv', RxInv' PROVE Rejected'
  OBVIOUS
<1>1. TxInv /\ RxInv /\ RxP!OwnInv /\ RxP!OwnInv' /\ Rejected
  BY DEF TunnelInv, RxInv
<1>2. CASE rx_run_result' = rx_run_result
  <2>1. /\ Len(tun_rx) <= Len(tun_rx') /\ \A i \in 1..Len(tun_rx) : tun_rx'[i] = tun_rx[i]
        /\ Len(tun_rx) \in Nat /\ Len(tun_rx') \in Nat
    <3>1. tun_rx \in Seq(1..tx_mtu)
      BY <1>1, Shared
    <3>2. (tun_rx \in Seq(1..tx_mtu))'
      BY <1>1, Shared, PTL
    <3> QED BY <1>1, <3>1, <3>2, EnteredStays
  <2>2. rx_run_result = "InvalidSize" => \E p \in 1..Len(tun_rx') : tun_rx'[p] > rx_mtu
    <3> SUFFICES ASSUME rx_run_result = "InvalidSize"
                 PROVE  \E p \in 1..Len(tun_rx') : tun_rx'[p] > rx_mtu
      OBVIOUS
    <3>1. PICK p \in 1..Len(tun_rx) : tun_rx[p] > rx_mtu
      BY <1>1 DEF Rejected
    <3>2. p \in 1..Len(tun_rx') /\ tun_rx'[p] > rx_mtu
      BY <2>1, <3>1
    <3> QED BY <3>2
  <2> QED BY <1>1, <1>2, <2>2 DEF Rejected
<1>3. CASE rx_run_result' # rx_run_result
  <2>1. [RxP!Next]_(RxP!vars)
    BY <1>1, <1>3, RxSide DEF RxP!Grows
  <2>2. RxP!Running
    BY <1>3, <2>1, RxP!EndedRests, RxAssumptions DEF RxP!vars
  <2>3. RxP!NoSpuriousError
    BY <2>2 DEF RxP!NoSpuriousError, RxP!Running
  <2>4. RxP!NoSpuriousError'
    BY <1>1, <2>1, <2>3, RxP!NextNoSpuriousError, RxAssumptions DEF RxInv
  <2>5. RxP!Means(RxP!Decode(wire, rx_mtu), 0, tun_rx)'
    BY <1>1, WireMeans, PTL
  <2> DEFINE here == RxP!Decode(wire', rx_mtu)
  <2>6. rx_run_result' \in {"InvalidMagic", "InvalidSize", "FrameCrcMismatch"}
          => rx_run_result' = here.error
    BY <2>4, SMTT(90) DEF RxP!NoSpuriousError, RxP!Decode, RxP!Decoded
  <2>7. /\ here.error \in {"None", "InvalidSize"}
        /\ here.error = "InvalidSize" => \E p \in 1..Len(tun_rx') : tun_rx'[p] > rx_mtu
    BY <2>5 DEF RxP!Means, RxP!Decode, RxP!Decoded
  <2> HIDE DEF here
  <2> QED BY <2>6, <2>7 DEF Rejected
<1> QED BY <1>2, <1>3

\* Nothing has been sent yet.
LEMMA InitTunnel == Init => TunnelInv
<1> SUFFICES ASSUME Init PROVE TunnelInv
  OBVIOUS
<1>1. TxP!Init /\ RxP!Init
  BY TxInitSame, RxInitSame DEF Init
<1>2. TxInv
  BY <1>1, TxP!InitTypeInv, TxP!InitRequests, TxP!InitOwnership, TxP!InitProgress,
     TxP!InitWire, TxAssumptions DEF TxInv, TxP!WireSteps
<1>3. RxInv
  BY <1>1, RxP!InitShapeInv, RxP!InitRefsExact, RxP!InitOwning, RxP!InitFollowing,
     RxAssumptions DEF RxInv, RxP!OwnInv, RxP!RefsInv
<1>4. tun_tx = <<>> /\ tun_rx = <<>> /\ rx_run_result = "None"
  BY <1>1 DEF TxP!Init, TxP!Created, RxP!Init, RxP!Created
<1> QED BY <1>2, <1>3, <1>4 DEF TunnelInv, Delivered, Rejected

\* The invariant of the tunnel holds in every behaviour.
LEMMA AlwaysTunnelInv == Spec => []TunnelInv
<1>1. TunnelInv /\ [Next]_vars => TunnelInv'
  <2>1. TunnelInv /\ [Next]_vars => TxInv' /\ RxInv'
    BY NextTxInv, NextRxInv DEF TunnelInv
  <2> QED BY <2>1, NextDelivered, NextRejected DEF TunnelInv
<1> QED BY <1>1, InitTunnel, PTL DEF Spec


-----------------------------------------------------------------------------
(* The theorems *)

\* For every MTU, buffer count and buffer size on both sides: the receiver raises
\* a protocol error only if the sender has read a packet larger than the
\* receiver's MTU, and writes nothing of a packet that large.
THEOREM OnlyLargeRejected == Spec => []OnlyLargePacketsRejected
<1>1. TunnelInv => OnlyLargePacketsRejected
  <2> SUFFICES ASSUME TunnelInv PROVE OnlyLargePacketsRejected
    OBVIOUS
  <2>1. tun_rx \in Seq(1..tx_mtu) /\ tun_tx \in Seq(Seq(RxP!Bytes))
    BY Shared DEF TunnelInv, RxInv
  <2>2. DOMAIN tun_rx = 1..Len(tun_rx) /\ DOMAIN tun_tx = 1..Len(tun_tx)
        /\ Len(tun_rx) \in Nat /\ Len(tun_tx) \in Nat
    BY <2>1
  <2>3. ASSUME NEW p \in 1..Len(tun_tx) PROVE Len(tun_tx[p]) <= rx_mtu
    <3>1. /\ tun_tx[p] = [k \in 1..tun_rx[p] |-> RxP!PayloadByte(p, k)]
          /\ tun_rx[p] <= rx_mtu /\ p \in 1..Len(tun_rx)
      BY <2>2 DEF TunnelInv, Delivered, RxP!PacketBytes
    <3>2. tun_rx[p] \in Nat
      <4>1. p \in 1..Len(tun_rx)
        BY <3>1
      <4>2. \A q \in 1..Len(tun_rx) : tun_rx[q] \in 1..tx_mtu
        <5>1. \A S : tun_rx \in Seq(S) => \A q \in 1..Len(tun_rx) : tun_rx[q] \in S
          OBVIOUS
        <5>2. tun_rx \in Seq(1..tx_mtu)
          BY <2>1
        <5> QED BY <5>1, <5>2
      <4>3. tun_rx[p] \in 1..tx_mtu
        BY <4>1, <4>2
      <4> QED BY <4>3, TunnelAssumption
    <3>3. tun_tx[p] \in Seq(RxP!Bytes)
      BY <2>1
    <3>4. Len(tun_tx[p]) = tun_rx[p]
      BY <3>1, <3>2, <3>3
    <3> QED BY <3>1, <3>4
  <2> QED BY <2>2, <2>3 DEF TunnelInv, Rejected, OnlyLargePacketsRejected
<1> QED BY <1>1, AlwaysTunnelInv, PTL

\* The packets that entered, as a sequence.
LEMMA SentFacts ==
    TxInv => /\ Sent \in Seq(Seq(RxP!Bytes)) /\ Len(Sent) = Len(tun_rx)
             /\ \A p \in 1..Len(tun_rx) : Sent[p] = RxP!PacketBytes(p, tun_rx[p])
<1> SUFFICES ASSUME TxInv
             PROVE  /\ Sent \in Seq(Seq(RxP!Bytes)) /\ Len(Sent) = Len(tun_rx)
                    /\ \A p \in 1..Len(tun_rx) : Sent[p] = RxP!PacketBytes(p, tun_rx[p])
  OBVIOUS
<1>1. tun_rx \in Seq(1..tx_mtu)
  BY DEF TxInv, TxP!WireSteps, TxP!TypeInv, TxP!TypeOK
<1>2. Sent = [p \in 1..Len(tun_rx) |-> RxP!PacketBytes(p, tun_rx[p])]
  BY <1>1 DEF Sent, RxP!PacketBytes, RxP!PayloadByte, Tx!PayloadByte
<1>3. ASSUME NEW p \in 1..Len(tun_rx) PROVE RxP!PacketBytes(p, tun_rx[p]) \in Seq(RxP!Bytes)
  <2> DEFINE size == tun_rx[p]
  <2>1. size \in Nat /\ p \in Nat
    BY <1>1, TunnelAssumption
  <2> HIDE DEF size
  <2>2. RxP!PacketBytes(p, size) \in [1..size -> RxP!Bytes]
    BY <2>1 DEF RxP!PacketBytes, RxP!PayloadByte, RxP!Bytes
  <2>3. RxP!PacketBytes(p, size) \in Seq(RxP!Bytes)
    BY <2>1, <2>2, RxP!FunctionIsSeq, RxAssumptions
  <2> QED BY <2>3 DEF size
<1>4. Sent \in [1..Len(tun_rx) -> Seq(RxP!Bytes)] /\ Len(tun_rx) \in Nat
  BY <1>1, <1>2, <1>3
<1>5. Sent \in Seq(Seq(RxP!Bytes)) /\ Len(Sent) = Len(tun_rx)
  BY <1>4, RxP!FunctionIsSeq, RxAssumptions
<1> QED BY <1>2, <1>5

\* A packet that enters is accepted by the channel.
LEMMA AcceptStep ==
    TxInv /\ TxInv' /\ TxP!Accepts /\ tun_tx' = tun_tx /\ rx_run_result' = rx_run_result
      => Channel!Accept
<1> SUFFICES ASSUME TxInv, TxInv', TxP!Accepts, tun_tx' = tun_tx,
                    rx_run_result' = rx_run_result
             PROVE  Channel!Accept
  OBVIOUS
<1>1. /\ Sent \in Seq(Seq(RxP!Bytes)) /\ Len(Sent) = Len(tun_rx)
      /\ \A p \in 1..Len(tun_rx) : Sent[p] = RxP!PacketBytes(p, tun_rx[p])
  BY SentFacts
<1>2. (/\ Sent \in Seq(Seq(RxP!Bytes)) /\ Len(Sent) = Len(tun_rx)
       /\ \A p \in 1..Len(tun_rx) : Sent[p] = RxP!PacketBytes(p, tun_rx[p]))'
  BY SentFacts, PTL
<1>3. PICK size \in 1..tx_mtu : tun_rx' = Append(tun_rx, size)
  BY DEF TxP!Accepts
<1>4. /\ Len(tun_rx) \in Nat /\ Len(tun_rx) < MaxPackets /\ tx_run_result' = tx_run_result
      /\ tun_rx \in Seq(1..tx_mtu)
  BY DEF TxP!Accepts, TxInv, TxP!WireSteps, TxP!TypeInv, TxP!TypeOK
<1>5. /\ Len(tun_rx') = Len(tun_rx) + 1
      /\ \A p \in 1..Len(tun_rx) : tun_rx'[p] = tun_rx[p] /\ p \in 1..Len(tun_rx')
  BY <1>3, <1>4
<1> DEFINE s == Sent
           t == Sent'
           n == Len(tun_rx)
<1>6. /\ s \in Seq(Seq(RxP!Bytes)) /\ t \in Seq(Seq(RxP!Bytes)) /\ n \in Nat
      /\ Len(s) = n /\ Len(t) = n + 1
  BY <1>1, <1>2, <1>4, <1>5
<1>7. \A p \in 1..n : s[p] = t[p]
  <2> SUFFICES ASSUME NEW p \in 1..n PROVE s[p] = t[p]
    OBVIOUS
  <2>1. s[p] = RxP!PacketBytes(p, tun_rx[p])
    BY <1>1
  <2>2. t[p] = RxP!PacketBytes(p, tun_rx'[p])
    BY <1>2, <1>5 DEF RxP!PacketBytes, RxP!PayloadByte
  <2> QED BY <1>5, <2>1, <2>2
<1> HIDE DEF s, t, n
<1>8. s = SubSeq(t, 1, Len(s))
  <2>1. /\ SubSeq(t, 1, n) \in Seq(Seq(RxP!Bytes)) /\ Len(SubSeq(t, 1, n)) = n
        /\ \A p \in 1..n : SubSeq(t, 1, n)[p] = t[p]
    BY <1>6, RxP!PrefixFacts, RxAssumptions
  <2>2. s = [p \in 1..n |-> s[p]]
    BY <1>6
  <2>3. SubSeq(t, 1, n) = [p \in 1..n |-> SubSeq(t, 1, n)[p]]
    BY <2>1
  <2> QED BY <1>6, <1>7, <2>1, <2>2, <2>3
<1>9. Len(s) < MaxPackets /\ Len(t) = Len(s) + 1
  BY <1>4, <1>6 DEF n
<1> QED BY <1>4, <1>8, <1>9 DEF s, t, Channel!Accept

\* A packet that leaves is the next one the channel delivers.
LEMMA DeliverStep ==
    TunnelInv /\ TunnelInv' /\ RxP!Delivers /\ UNCHANGED tx_vars => Channel!Deliver
<1> SUFFICES ASSUME TunnelInv, TunnelInv', RxP!Delivers, UNCHANGED tx_vars
             PROVE  Channel!Deliver
  OBVIOUS
<1>1. /\ Sent \in Seq(Seq(RxP!Bytes)) /\ Len(Sent) = Len(tun_rx)
      /\ \A p \in 1..Len(tun_rx) : Sent[p] = RxP!PacketBytes(p, tun_rx[p])
  BY SentFacts DEF TunnelInv
<1>2. tun_tx \in Seq(Seq(RxP!Bytes)) /\ tun_rx \in Seq(1..tx_mtu)
  BY Shared DEF TunnelInv, RxInv
<1>3. PICK packet : tun_tx' = Append(tun_tx, packet)
  BY DEF RxP!Delivers
<1>4. tun_rx' = tun_rx /\ tx_run_result' = tx_run_result /\ rx_run_result' = rx_run_result
  BY DEF tx_vars, RxP!Delivers
<1> DEFINE n == Len(tun_tx)
<1>5. /\ Len(tun_tx') = n + 1 /\ tun_tx'[n + 1] = packet /\ n \in Nat
      /\ Len(tun_rx) \in Nat
  BY <1>2, <1>3
<1>6. /\ Len(tun_tx') <= Len(tun_rx')
      /\ \A i \in 1..Len(tun_tx') : tun_tx'[i] = RxP!PacketBytes(i, tun_rx'[i])
  BY DEF TunnelInv, Delivered, RxP!PacketBytes, RxP!PayloadByte
<1> HIDE DEF n
<1>7. n < Len(tun_rx) /\ n + 1 \in 1..Len(tun_tx') /\ n + 1 \in 1..Len(tun_rx)
  BY <1>4, <1>5, <1>6
<1>8. packet = Sent[n + 1]
  BY <1>1, <1>4, <1>5, <1>6, <1>7
<1>9. Sent' = Sent
  BY <1>4 DEF Sent, Tx!PayloadByte
<1> QED BY <1>1, <1>3, <1>4, <1>7, <1>8, <1>9 DEF n, Channel!Deliver

\* A session that has ended does not break the channel a second time.
LEMMA BrokenStays ==
    [Next]_vars
      => /\ tx_run_result # "None" => tx_run_result' # "None"
         /\ rx_run_result # "None" => rx_run_result' # "None"
<1> SUFFICES ASSUME [Next]_vars
             PROVE  /\ tx_run_result # "None" => tx_run_result' # "None"
                    /\ rx_run_result # "None" => rx_run_result' # "None"
  OBVIOUS
<1>1. tx_run_result # "None" => tx_run_result' # "None"
  BY TxSide, TxP!EndedStays, TxAssumptions
<1>2. CASE rx_run_result' = rx_run_result
  BY <1>1, <1>2
<1>3. CASE rx_run_result' # rx_run_result
  <2>1. RxP!Next
    BY <1>3, RxNextSame DEF Next, TxStep, RxStep, vars, rx_vars
  <2>2. RxP!Running
    BY <1>3, <2>1, RxP!EndedRests, RxAssumptions DEF RxP!vars
  <2> QED BY <1>1, <2>2 DEF RxP!Running
<1> QED BY <1>2, <1>3

\* A step in which no packet enters or leaves is at most a break.
LEMMA BreakStep ==
    [Next]_vars /\ tun_rx' = tun_rx /\ tun_tx' = tun_tx
      => Channel!Break \/ UNCHANGED Channel!vars
<1> SUFFICES ASSUME [Next]_vars, tun_rx' = tun_rx, tun_tx' = tun_tx
             PROVE  Channel!Break \/ UNCHANGED Channel!vars
  OBVIOUS
<1>1. Sent' = Sent
  BY DEF Sent, Tx!PayloadByte
<1>2. CASE tx_run_result' # "None" \/ rx_run_result' # "None"
  BY <1>1, <1>2 DEF Channel!Break
<1>3. CASE ~(tx_run_result' # "None" \/ rx_run_result' # "None")
  BY <1>1, <1>3, BrokenStays DEF Channel!vars
<1> QED BY <1>2, <1>3

\* For every MTU, buffer count and buffer size on both sides, and whether or not
\* the kernel fails requests: a tunnel is a channel of packets.  What the receiver
\* writes to its TUN device is what the sender read from its own, whole, once
\* and in order.
THEOREM TunnelIsChannel == Spec => Channel!Init /\ [][Channel!Next]_(Channel!vars)
<1>1. Init => Channel!Init
  <2> SUFFICES ASSUME Init PROVE Channel!Init
    OBVIOUS
  <2>1. TxP!Init /\ RxP!Init
    BY TxInitSame, RxInitSame DEF Init
  <2>2. /\ tun_tx = <<>> /\ tun_rx = <<>>
        /\ rx_run_result = "None" /\ tx_run_result = "None"
    BY <2>1 DEF TxP!Init, TxP!Created, RxP!Init, RxP!Created
  <2>3. Sent = <<>>
    BY <2>2 DEF Sent
  <2> QED BY <2>2, <2>3 DEF Channel!Init
<1>2. TunnelInv /\ TunnelInv' /\ [Next]_vars => [Channel!Next]_(Channel!vars)
  <2> SUFFICES ASSUME TunnelInv, TunnelInv', [Next]_vars
               PROVE  Channel!Next \/ UNCHANGED Channel!vars
    OBVIOUS
  <2>1. TxInv /\ TxInv' /\ RxP!OwnInv
    BY DEF TunnelInv, RxInv
  <2>2. CASE RxP!Grows
    <3>1. tun_tx' = tun_tx /\ rx_run_result' = rx_run_result
      BY <2>2 DEF RxP!Grows
    <3>2. tun_rx' = tun_rx \/ TxP!Accepts
      BY TxSide, TxP!PacketsEnter, TxAssumptions
    <3>3. CASE tun_rx' = tun_rx
      BY <3>1, <3>3, BreakStep DEF Channel!Next
    <3>4. CASE TxP!Accepts
      BY <2>1, <3>1, <3>4, AcceptStep DEF Channel!Next
    <3> QED BY <3>2, <3>3, <3>4
  <2>3. CASE [RxP!Next]_(RxP!vars) /\ UNCHANGED tx_vars
    <3>1. tun_tx' = tun_tx \/ RxP!Delivers
      BY <2>3, RxP!PacketsLeave, RxAssumptions
    <3>2. CASE tun_tx' = tun_tx
      BY <2>3, <3>2, BreakStep DEF Channel!Next, tx_vars
    <3>3. CASE RxP!Delivers
      BY <2>3, <3>3, DeliverStep DEF Channel!Next
    <3> QED BY <3>1, <3>2, <3>3
  <2> QED BY <2>1, <2>2, <2>3, RxSide
<1> QED BY <1>1, <1>2, AlwaysTunnelInv, PTL DEF Spec

=============================================================================
