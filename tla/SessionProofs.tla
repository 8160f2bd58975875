--------------------------- MODULE SessionProofs ---------------------------
(***************************************************************************)
(* Proofs about Session: with both directions and the monitor in one       *)
(* completion queue, each half behaves as it does alone.  Its completions, *)
(* chosen from the queue in their order, are the queue its own proofs are  *)
(* about, and what the others post and take does not change them.  So the  *)
(* buffers keep one owner, no request is lost or doubled, a cooldown never *)
(* gets stuck, and the TIMEOUT is armed once.                              *)
(***************************************************************************)
EXTENDS Session, TLAPS

Lists == INSTANCE StreamLemmas

\* The completions of each part of the session.
TxQueue == Lists!Chosen(cq, {"READ", "SEND"})
RxQueue == Lists!Chosen(cq, {"RECV", "WRITE"})
MonitorQueue == Lists!Chosen(cq, {"TIMEOUT"})

\* run() arms the first requests itself; each half starts with its own armed.
RxRecving == IF phase = "arm_recv" THEN TRUE ELSE recving
TxReading == IF phase \in {"arm_recv", "arm_read"} THEN TRUE ELSE reading

\* Each half with the definitions and the facts of its proofs.
TxP == INSTANCE TransmitterProofs WITH
        BufferCount <- tx_queue_length,
        frame_queue_ <- tx_frame_queue, cooling_down_ <- tx_cooling_down,
        send_in_progress_ <- tx_send_in_progress,
        current_frame_state_ <- tx_current_frame, br_ <- tx_br, mem <- tx_mem,
        wire <- wire_out, cq <- TxQueue, reading <- TxReading

RxP == INSTANCE ReceiverProofs WITH
        BufferCount <- rx_queue_length, buffer_size <- rx_buffer_size,
        cooling_down_ <- rx_cooling_down, used_buffers_ <- rx_used_buffers,
        input_buffer_queue_ <- rx_input_queue, buffer_refcounts_ <- rx_refcounts,
        state_ <- rx_state, header_ <- rx_header,
        header_progress_ <- rx_header_progress, frame_ <- rx_frame,
        payload_progress_ <- rx_payload_progress,
        output_frame_queue_ <- rx_output_queue,
        write_in_progress_ <- rx_write_in_progress, cqe_ <- rx_cqe,
        released <- rx_released, br_ <- rx_br, mem <- rx_mem, wire <- wire_in,
        cq <- RxQueue, recving <- RxRecving

\* The session's constants meet the assumptions of both halves.
LEMMA Assumptions ==
    /\ TxP!WireSizeAssumption /\ TxP!TransmitterAssumption
    /\ RxP!WireSizeAssumption /\ RxP!ReceiverAssumption
    /\ Lists!WireSizeAssumption
<1>1. RxP!Bytes = receiver_!Bytes
  BY DEF RxP!Bytes, receiver_!Bytes
<1> QED BY <1>1, SessionAssumption
        DEF TxP!WireSizeAssumption, TxP!TransmitterAssumption, RxP!WireSizeAssumption,
            RxP!ReceiverAssumption, Lists!WireSizeAssumption

-----------------------------------------------------------------------------
(* One step of the queue, seen by its parts *)

\* The queue is a sequence of something.
Queued == \E S : cq \in Seq(S)

\* The oldest completion, of one of these types, is taken off the queue.
Taken(types) == cq # <<>> /\ Head(cq).type \in types /\ cq' = Tail(cq)

\* A completion of one of these types is added to the queue.
Posted(types) == \E cqe : cqe.type \in types /\ cq' = Append(cq, cqe)

\* The part taken from loses its oldest completion,
LEMMA TakenOwn ==
    ASSUME NEW types, Queued, Taken(types)
    PROVE  /\ Lists!Chosen(cq, types) # <<>>
           /\ Head(Lists!Chosen(cq, types)) = Head(cq)
           /\ Lists!Chosen(cq', types) = Tail(Lists!Chosen(cq, types))
           /\ Queued'
<1>1. PICK S : cq \in Seq(S)
  BY DEF Queued
<1>2. Tail(cq) \in Seq(S)
  BY <1>1 DEF Taken
<1> QED BY <1>1, <1>2, Lists!ChosenTail, Assumptions DEF Taken, Queued

\* and the others keep theirs.
LEMMA TakenOther ==
    ASSUME NEW types, NEW others, Queued, Taken(others), types \cap others = {}
    PROVE  Lists!Chosen(cq', types) = Lists!Chosen(cq, types)
<1>1. PICK S : cq \in Seq(S)
  BY DEF Queued
<1>2. Head(cq).type \notin types
  BY DEF Taken
<1> QED BY <1>1, <1>2, Lists!ChosenTail, Assumptions DEF Taken

\* The part posted to gets the new completion,
LEMMA PostedOwn ==
    ASSUME NEW types, NEW cqe, Queued, cqe.type \in types, cq' = Append(cq, cqe)
    PROVE  Lists!Chosen(cq', types) = Append(Lists!Chosen(cq, types), cqe) /\ Queued'
<1>1. PICK S : cq \in Seq(S)
  BY DEF Queued
<1>2. cq \in Seq(S \cup {cqe}) /\ cqe \in S \cup {cqe}
  BY <1>1
<1>3. cq' \in Seq(S \cup {cqe})
  BY <1>2
<1> QED BY <1>2, <1>3, Lists!ChosenAppend, Assumptions DEF Queued

\* and the others keep theirs.
LEMMA PostedOther ==
    ASSUME NEW types, NEW others, Queued, Posted(others), types \cap others = {}
    PROVE  Lists!Chosen(cq', types) = Lists!Chosen(cq, types) /\ Queued'
<1>1. PICK S : cq \in Seq(S)
  BY DEF Queued
<1>2. PICK cqe : cqe.type \in others /\ cq' = Append(cq, cqe)
  BY DEF Posted
<1>3. cq \in Seq(S \cup {cqe}) /\ cqe \in S \cup {cqe} /\ cqe.type \notin types
  BY <1>1, <1>2
<1>4. cq' \in Seq(S \cup {cqe})
  BY <1>2, <1>3
<1> QED BY <1>2, <1>3, <1>4, Lists!ChosenAppend, Assumptions DEF Queued

-----------------------------------------------------------------------------
(* The transmitter's steps *)

TxTypes == {"READ", "SEND"}
RxTypes == {"RECV", "WRITE"}

\* Once the requests are armed, they are what the halves start with.
LEMMA ArmedInLoop ==
    ASSUME phase = "loop", UNCHANGED own_vars
    PROVE  /\ TxReading = reading /\ TxReading' = reading'
           /\ RxRecving = recving /\ RxRecving' = recving'
  BY DEF TxReading, RxRecving, own_vars

\* What its handlers do to the queue of the ring,
LEMMA TxHandlersTake == transmitter_!Handle => Taken(TxTypes)
  BY DEF Taken, TxTypes, transmitter_!Handle, transmitter_!Handles,
         transmitter_!ReadNoBuffers, transmitter_!ReadFailed, transmitter_!ReadPacket,
         transmitter_!ReadRearmFailed, transmitter_!ReadNoMemory,
         transmitter_!SendFailed, transmitter_!SendDone, transmitter_!SendRearmFailed

\* they do to the transmitter's part of it.
LEMMA TxTaken ==
    ASSUME Queued, NEW type \in TxTypes, transmitter_!Handles(type)
    PROVE  TxP!Handles(type) /\ Head(TxQueue) = Head(cq)
<1>1. Taken(TxTypes)
  BY DEF Taken, TxTypes, transmitter_!Handles
<1>2. TxQueue # <<>> /\ Head(TxQueue) = Head(cq) /\ TxQueue' = Tail(TxQueue)
  BY <1>1, TakenOwn DEF TxTypes, TxQueue
<1> QED BY <1>2 DEF transmitter_!Handles, TxP!Handles

\* So they are the handlers of the transmitter alone.
LEMMA TxHandlers ==
    ASSUME Queued, phase = "loop", UNCHANGED own_vars, transmitter_!Handle
    PROVE  TxP!Handle
<1>a. TxReading = reading /\ TxReading' = reading'
  BY ArmedInLoop
<1>b. "READ" \in TxTypes /\ "SEND" \in TxTypes
  BY SMTT(30) DEF TxTypes
<1>k. ASSUME NEW queue, NEW state, NEW in_progress,
             transmitter_!kick_send_(queue, state, in_progress)
      PROVE  TxP!kick_send_(queue, state, in_progress)
  BY <1>k DEF
     transmitter_!kick_send_, TxP!kick_send_, transmitter_!SendResults, TxP!SendResults,
     transmitter_!FrameFailure, TxP!FrameFailure, transmitter_!FrameToSend, TxP!FrameToSend,
     transmitter_!NewFrameState, TxP!NewFrameState,
     transmitter_!create_frame_header_, TxP!create_frame_header_,
     transmitter_!Payload, TxP!Payload, transmitter_!nullopt, TxP!nullopt,
     transmitter_!Segments, TxP!Segments, transmitter_!Total, TxP!Total,
     transmitter_!get_buffer, TxP!get_buffer, transmitter_!SubmitResults, TxP!SubmitResults,
     transmitter_!NoBid, TxP!NoBid, transmitter_!FrameHeader, TxP!FrameHeader,
     transmitter_!PayloadByte, TxP!PayloadByte, transmitter_!crc32c, TxP!crc32c
<1>o. ASSUME NEW cqe
      PROVE  /\ transmitter_!ok(cqe) = TxP!ok(cqe)
             /\ transmitter_!OutOfBuffers(cqe) = TxP!OutOfBuffers(cqe)
             /\ transmitter_!SendFailure(cqe) = TxP!SendFailure(cqe)
  BY DEF transmitter_!ok, TxP!ok, transmitter_!OutOfBuffers, TxP!OutOfBuffers,
         transmitter_!error, TxP!error, transmitter_!ENOBUFS, TxP!ENOBUFS,
         transmitter_!SendFailure, TxP!SendFailure, transmitter_!Total, TxP!Total,
         transmitter_!nullopt, TxP!nullopt, transmitter_!NoBid, TxP!NoBid,
         transmitter_!FrameHeader, TxP!FrameHeader
<1>s. ASSUME NEW sent
      PROVE  transmitter_!AfterSend(sent) = TxP!AfterSend(sent)
  BY DEF transmitter_!AfterSend, TxP!AfterSend, transmitter_!Total, TxP!Total,
         transmitter_!nullopt, TxP!nullopt, transmitter_!NoBid, TxP!NoBid,
         transmitter_!FrameHeader, TxP!FrameHeader,
         transmitter_!return_buffer, TxP!return_buffer
<1>1. CASE transmitter_!ReadNoBuffers
  <2>1. TxP!Handles("READ") /\ Head(TxQueue) = Head(cq)
    BY <1>1, <1>b, TxTaken DEF transmitter_!ReadNoBuffers
  <2>2. TxP!ReadNoBuffers
    BY <1>1, <1>a, <1>k, <1>o, <2>1 DEF transmitter_!ReadNoBuffers, TxP!ReadNoBuffers
  <2> QED BY <2>2 DEF TxP!Handle
<1>2. CASE transmitter_!ReadFailed
  <2>1. TxP!Handles("READ") /\ Head(TxQueue) = Head(cq)
    BY <1>2, <1>b, TxTaken DEF transmitter_!ReadFailed
  <2>2. TxP!ReadFailed
    BY <1>2, <1>a, <1>o, <2>1
       DEF transmitter_!ReadFailed, TxP!ReadFailed, transmitter_!own_vars, TxP!own_vars
  <2> QED BY <2>2 DEF TxP!Handle
<1>3. CASE transmitter_!ReadPacket
  <2>1. TxP!Handles("READ") /\ Head(TxQueue) = Head(cq)
    BY <1>3, <1>b, TxTaken DEF transmitter_!ReadPacket
  <2>2. TxP!ReadPacket
    BY <1>3, <1>a, <1>k, <1>o, <2>1
       DEF transmitter_!ReadPacket, TxP!ReadPacket, transmitter_!own_vars, TxP!own_vars,
           transmitter_!MustRearm, TxP!MustRearm, transmitter_!NoBid, TxP!NoBid
  <2> QED BY <2>2 DEF TxP!Handle
<1>4. CASE transmitter_!ReadRearmFailed
  <2>1. TxP!Handles("READ") /\ Head(TxQueue) = Head(cq)
    BY <1>4, <1>b, TxTaken DEF transmitter_!ReadRearmFailed
  <2>2. TxP!ReadRearmFailed
    BY <1>4, <1>a, <1>o, <2>1
       DEF transmitter_!ReadRearmFailed, TxP!ReadRearmFailed, transmitter_!MustRearm,
           TxP!MustRearm, transmitter_!NoBid, TxP!NoBid,
           transmitter_!SubmitResults, TxP!SubmitResults
  <2> QED BY <2>2 DEF TxP!Handle
<1>5. CASE transmitter_!ReadNoMemory
  <2>1. TxP!Handles("READ") /\ Head(TxQueue) = Head(cq)
    BY <1>5, <1>b, TxTaken DEF transmitter_!ReadNoMemory
  <2>2. TxP!ReadNoMemory
    BY <1>5, <1>a, <1>o, <2>1
       DEF transmitter_!ReadNoMemory, TxP!ReadNoMemory, transmitter_!own_vars, TxP!own_vars,
           transmitter_!NoBid, TxP!NoBid, transmitter_!return_buffer, TxP!return_buffer
  <2> QED BY <2>2 DEF TxP!Handle
<1>6. CASE transmitter_!SendFailed
  <2>1. TxP!Handles("SEND") /\ Head(TxQueue) = Head(cq)
    BY <1>6, <1>b, TxTaken DEF transmitter_!SendFailed
  <2>2. TxP!SendFailed
    BY <1>6, <1>a, <1>o, <2>1 DEF transmitter_!SendFailed, TxP!SendFailed
  <2> QED BY <2>2 DEF TxP!Handle
<1>7. CASE transmitter_!SendDone
  <2>1. TxP!Handles("SEND") /\ Head(TxQueue) = Head(cq)
    BY <1>7, <1>b, TxTaken DEF transmitter_!SendDone
  <2>2. TxP!SendDone
    BY <1>7, <1>a, <1>k, <1>o, <1>s, <2>1
       DEF transmitter_!SendDone, TxP!SendDone, transmitter_!CooledDown, TxP!CooledDown
  <2> QED BY <2>2 DEF TxP!Handle
<1>8. CASE transmitter_!SendRearmFailed
  <2>1. TxP!Handles("SEND") /\ Head(TxQueue) = Head(cq)
    BY <1>8, <1>b, TxTaken DEF transmitter_!SendRearmFailed
  <2>2. TxP!SendRearmFailed
    BY <1>8, <1>a, <1>o, <1>s, <2>1
       DEF transmitter_!SendRearmFailed, TxP!SendRearmFailed, transmitter_!CooledDown,
           TxP!CooledDown, transmitter_!SubmitResults, TxP!SubmitResults
  <2> QED BY <2>2 DEF TxP!Handle
<1> QED BY <1>1, <1>2, <1>3, <1>4, <1>5, <1>6, <1>7, <1>8 DEF transmitter_!Handle

\* The kernel posts completions of the transmitter's types for its requests.
LEMMA TxKernelPosts == transmitter_!Kernel => Posted(TxTypes)
<1>1. ASSUME NEW type \in TxTypes, NEW result, NEW bid, NEW more,
             cq' = Append(cq, transmitter_!Cqe(type, result, bid, more))
      PROVE  Posted(TxTypes)
  BY <1>1 DEF Posted, transmitter_!Cqe
<1>2. "READ" \in TxTypes /\ "SEND" \in TxTypes
  BY DEF TxTypes
<1>3. ASSUME NEW size, NEW more, transmitter_!KernelRead(size, more) PROVE Posted(TxTypes)
  BY <1>1, <1>2, <1>3 DEF transmitter_!KernelRead
<1>4. ASSUME transmitter_!KernelReadNoBuffers PROVE Posted(TxTypes)
  BY <1>1, <1>2, <1>4 DEF transmitter_!KernelReadNoBuffers
<1>5. ASSUME transmitter_!KernelReadError PROVE Posted(TxTypes)
  BY <1>1, <1>2, <1>5 DEF transmitter_!KernelReadError
<1>6. ASSUME NEW n, transmitter_!KernelSend(n) PROVE Posted(TxTypes)
  BY <1>1, <1>2, <1>6 DEF transmitter_!KernelSend
<1>7. ASSUME transmitter_!KernelSendError PROVE Posted(TxTypes)
  BY <1>1, <1>2, <1>7 DEF transmitter_!KernelSendError
<1> QED BY <1>3, <1>4, <1>5, <1>6, <1>7 DEF transmitter_!Kernel

\* What the kernel does for the transmitter it does for the transmitter alone:
\* nothing is read before run() has armed the READ.
LEMMA TxKernel ==
    ASSUME Queued, phase \in {"arm_recv", "arm_read"} => ~reading, UNCHANGED own_vars,
           transmitter_!Kernel
    PROVE  TxP!Kernel
<1>a. phase' = phase
  BY DEF own_vars
<1>b. ASSUME reading PROVE TxReading = reading /\ TxReading' = reading'
  BY <1>a, <1>b DEF TxReading
<1>c. ASSUME reading' = reading PROVE TxReading' = TxReading
  BY <1>a, <1>c DEF TxReading
<1>p. ASSUME NEW type \in TxTypes, NEW result, NEW bid, NEW more,
             cq' = Append(cq, transmitter_!Cqe(type, result, bid, more))
      PROVE  TxQueue' = Append(TxQueue, TxP!Cqe(type, result, bid, more))
  <2> DEFINE cqe == transmitter_!Cqe(type, result, bid, more)
  <2>1. cqe = TxP!Cqe(type, result, bid, more) /\ cqe.type \in TxTypes
    BY <1>p DEF transmitter_!Cqe, TxP!Cqe
  <2> HIDE DEF cqe
  <2>2. cq' = Append(cq, cqe)
    BY <1>p DEF cqe
  <2> QED BY <2>1, <2>2, PostedOwn DEF TxQueue, TxTypes
<1>q. "READ" \in TxTypes /\ "SEND" \in TxTypes
  BY DEF TxTypes
<1>i. ASSUME NEW state PROVE transmitter_!Iov(state) = TxP!Iov(state)
  BY DEF transmitter_!Iov, TxP!Iov, transmitter_!SegmentBytes, TxP!SegmentBytes,
         transmitter_!HeaderByte, TxP!HeaderByte, transmitter_!PayloadByte, TxP!PayloadByte
<1> USE DEF transmitter_!KernelStep, TxP!KernelStep, transmitter_!own_vars, TxP!own_vars
<1>1. ASSUME NEW size \in 1..mtu, NEW more \in BOOLEAN, transmitter_!KernelRead(size, more)
      PROVE  TxP!KernelRead(size, more)
  <2>1. TxQueue' = Append(TxQueue, TxP!Cqe("READ", size, Head(tx_br), more))
    BY <1>1, <1>p, <1>q DEF transmitter_!KernelRead
  <2>2. reading
    BY <1>1 DEF transmitter_!KernelRead
  <2> QED BY <1>1, <1>b, <2>1, <2>2 DEF transmitter_!KernelRead, TxP!KernelRead
<1>2. ASSUME transmitter_!KernelReadNoBuffers PROVE TxP!KernelReadNoBuffers
  <2>1. TxQueue' = Append(TxQueue, TxP!Cqe("READ", -TxP!ENOBUFS, TxP!NoBid, FALSE))
    BY <1>2, <1>p, <1>q DEF transmitter_!KernelReadNoBuffers, transmitter_!ENOBUFS,
       TxP!ENOBUFS, transmitter_!NoBid, TxP!NoBid
  <2>2. reading
    BY <1>2 DEF transmitter_!KernelReadNoBuffers
  <2> QED BY <1>2, <1>b, <2>1, <2>2
          DEF transmitter_!KernelReadNoBuffers, TxP!KernelReadNoBuffers
<1>3. ASSUME transmitter_!KernelReadError PROVE TxP!KernelReadError
  <2>1. TxQueue' = Append(TxQueue, TxP!Cqe("READ", -TxP!EIO, TxP!NoBid, FALSE))
    BY <1>3, <1>p, <1>q DEF transmitter_!KernelReadError, transmitter_!EIO, TxP!EIO,
       transmitter_!NoBid, TxP!NoBid
  <2>2. reading
    BY <1>3 DEF transmitter_!KernelReadError
  <2> QED BY <1>3, <1>b, <2>1, <2>2 DEF transmitter_!KernelReadError, TxP!KernelReadError
<1>4. ASSUME NEW n, transmitter_!KernelSend(n) PROVE TxP!KernelSend(n)
  <2>1. TxQueue' = Append(TxQueue, TxP!Cqe("SEND", n, TxP!NoBid, FALSE))
    BY <1>4, <1>p, <1>q DEF transmitter_!KernelSend, transmitter_!NoBid, TxP!NoBid
  <2>2. TxReading' = TxReading
    BY <1>4, <1>c DEF transmitter_!KernelSend
  <2> QED BY <1>4, <1>i, <2>1, <2>2 DEF transmitter_!KernelSend, TxP!KernelSend
<1>5. ASSUME transmitter_!KernelSendError PROVE TxP!KernelSendError
  <2>1. TxQueue' = Append(TxQueue, TxP!Cqe("SEND", -TxP!EIO, TxP!NoBid, FALSE))
    BY <1>5, <1>p, <1>q DEF transmitter_!KernelSendError, transmitter_!EIO, TxP!EIO,
       transmitter_!NoBid, TxP!NoBid
  <2>2. TxReading' = TxReading
    BY <1>5, <1>c DEF transmitter_!KernelSendError
  <2> QED BY <1>5, <2>1, <2>2 DEF transmitter_!KernelSendError, TxP!KernelSendError
<1> QED BY <1>1, <1>2, <1>3, <1>4, <1>5 DEF transmitter_!Kernel, TxP!Kernel

-----------------------------------------------------------------------------
(* The receiver's steps *)

\* The iterations of its handlers leave the queue alone or take from it,
LEMMA RxHandlersTake == receiver_!Handle => cq' = cq \/ Taken(RxTypes)
  BY DEF Taken, RxTypes, receiver_!Handle, receiver_!Handles,
         receiver_!RecvNoBuffers, receiver_!RecvFailed, receiver_!RecvChunk,
         receiver_!Parses, receiver_!ParseHeader, receiver_!ParsePayload,
         receiver_!ParseNoMemory, receiver_!Parsed, receiver_!RecvDone,
         receiver_!RecvRearmFailed, receiver_!WriteCompleted, receiver_!Releases,
         receiver_!ReleaseBuffer, receiver_!Released, receiver_!WriteDone,
         receiver_!WriteRearmFailed

\* which takes from the receiver's part of it.
LEMMA RxTaken ==
    ASSUME Queued, NEW type \in RxTypes, receiver_!Handles(type)
    PROVE  RxP!Handles(type) /\ Head(RxQueue) = Head(cq)
<1>1. Taken(RxTypes)
  BY DEF Taken, RxTypes, receiver_!Handles
<1>2. RxQueue # <<>> /\ Head(RxQueue) = Head(cq) /\ RxQueue' = Tail(RxQueue)
  BY <1>1, TakenOwn DEF RxTypes, RxQueue
<1> QED BY <1>2 DEF receiver_!Handles, RxP!Handles, receiver_!idle, RxP!idle,
                    receiver_!Cqe, RxP!Cqe, receiver_!NoBid, RxP!NoBid

\* Both instances of the receiver compute the same.
LEMMA RxSame ==
    /\ receiver_!idle = RxP!idle /\ receiver_!NoBid = RxP!NoBid
    /\ receiver_!EmptyFrame = RxP!EmptyFrame
    /\ \A cqe : /\ receiver_!ok(cqe) = RxP!ok(cqe)
                /\ receiver_!OutOfBuffers(cqe) = RxP!OutOfBuffers(cqe)
                /\ receiver_!MustRearm(cqe) = RxP!MustRearm(cqe)
    /\ \A segments : receiver_!Iov(segments) = RxP!Iov(segments)
    /\ receiver_!CooledDown = RxP!CooledDown
    /\ receiver_!SubmitResults(IoErrors) = RxP!SubmitResults(IoErrors)
<1>1. \A segments : receiver_!Iov(segments) = RxP!Iov(segments)
  BY DEF receiver_!Iov, RxP!Iov, receiver_!SegmentBytes, RxP!SegmentBytes,
         receiver_!FlattenSeq, RxP!FlattenSeq
<1> QED BY <1>1 DEF receiver_!idle, RxP!idle, receiver_!NoBid, RxP!NoBid,
    receiver_!EmptyFrame, RxP!EmptyFrame, receiver_!Cqe, RxP!Cqe, receiver_!ok, RxP!ok,
    receiver_!OutOfBuffers, RxP!OutOfBuffers, receiver_!error, RxP!error,
    receiver_!ENOBUFS, RxP!ENOBUFS, receiver_!MustRearm, RxP!MustRearm,
    receiver_!CooledDown, RxP!CooledDown, receiver_!SubmitResults, RxP!SubmitResults

\* Between taking completions it works on the receiver's own state.
LEMMA RxStays ==
    ASSUME phase = "loop", UNCHANGED own_vars
    PROVE  /\ cq' = cq => RxQueue' = RxQueue
           /\ RxRecving = recving /\ RxRecving' = recving'
  BY ArmedInLoop DEF RxQueue

\* So its handlers for a RECV are those of the receiver alone,
LEMMA RxRecvHandlers ==
    ASSUME Queued, phase = "loop", UNCHANGED own_vars
    PROVE  /\ receiver_!RecvNoBuffers => RxP!RecvNoBuffers
           /\ receiver_!RecvFailed => RxP!RecvFailed
           /\ receiver_!RecvChunk => RxP!RecvChunk
           /\ receiver_!RecvDone => RxP!RecvDone
           /\ receiver_!RecvRearmFailed => RxP!RecvRearmFailed
<1>a. /\ cq' = cq => RxQueue' = RxQueue
      /\ RxRecving = recving /\ RxRecving' = recving'
  BY RxStays
<1>b. "RECV" \in RxTypes
  BY DEF RxTypes
<1> USE DEF receiver_!own_vars, RxP!own_vars, receiver_!handler_vars, RxP!handler_vars,
            receiver_!parser_vars, RxP!parser_vars
<1>k. ASSUME NEW queue, NEW in_progress, receiver_!kick_write_(queue, in_progress)
      PROVE  RxP!kick_write_(queue, in_progress)
  BY <1>k, RxSame DEF receiver_!kick_write_, RxP!kick_write_
<1>1. ASSUME receiver_!RecvNoBuffers PROVE RxP!RecvNoBuffers
  <2>1. RxP!Handles("RECV") /\ Head(RxQueue) = Head(cq)
    BY <1>1, <1>b, RxTaken DEF receiver_!RecvNoBuffers
  <2> QED BY <1>1, <1>a, <1>k, <2>1, RxSame DEF receiver_!RecvNoBuffers, RxP!RecvNoBuffers
<1>2. ASSUME receiver_!RecvFailed PROVE RxP!RecvFailed
  <2>1. RxP!Handles("RECV") /\ Head(RxQueue) = Head(cq)
    BY <1>2, <1>b, RxTaken DEF receiver_!RecvFailed
  <2>2. receiver_!RecvFailures(Head(cq)) = RxP!RecvFailures(Head(cq))
    BY RxSame DEF receiver_!RecvFailures, RxP!RecvFailures
  <2> QED BY <1>2, <1>a, <2>1, <2>2, RxSame DEF receiver_!RecvFailed, RxP!RecvFailed
<1>3. ASSUME receiver_!RecvChunk PROVE RxP!RecvChunk
  <2>1. RxP!Handles("RECV") /\ Head(RxQueue) = Head(cq)
    BY <1>3, <1>b, RxTaken DEF receiver_!RecvChunk
  <2> QED BY <1>3, <1>a, <2>1, RxSame DEF receiver_!RecvChunk, RxP!RecvChunk
<1>4. ASSUME receiver_!RecvDone PROVE RxP!RecvDone
  BY <1>4, <1>a, <1>k, RxSame DEF receiver_!RecvDone, RxP!RecvDone,
     receiver_!Parsed, RxP!Parsed
<1>5. ASSUME receiver_!RecvRearmFailed PROVE RxP!RecvRearmFailed
  BY <1>5, <1>a, RxSame DEF receiver_!RecvRearmFailed, RxP!RecvRearmFailed,
     receiver_!Parsed, RxP!Parsed
<1> QED BY <1>1, <1>2, <1>3, <1>4, <1>5

\* so is its parser,
LEMMA RxParses ==
    ASSUME phase = "loop", UNCHANGED own_vars
    PROVE  /\ receiver_!ParseHeader => RxP!ParseHeader
           /\ receiver_!ParsePayload => RxP!ParsePayload
           /\ receiver_!ParseNoMemory => RxP!ParseNoMemory
<1>a. /\ cq' = cq => RxQueue' = RxQueue
      /\ RxRecving = recving /\ RxRecving' = recving'
  BY RxStays
<1> USE DEF receiver_!own_vars, RxP!own_vars, receiver_!handler_vars, RxP!handler_vars,
            receiver_!parser_vars, RxP!parser_vars
<1>p. ASSUME NEW state, receiver_!Parses(state) PROVE RxP!Parses(state)
  BY <1>a, <1>p DEF receiver_!Parses, RxP!Parses
<1>c. ASSUME NEW take, NEW refcounts, NEW result, receiver_!Consume(take, refcounts, result)
      PROVE  RxP!Consume(take, refcounts, result)
  BY <1>c DEF receiver_!Consume, RxP!Consume, receiver_!Exhausted, RxP!Exhausted,
     receiver_!return_buffer, RxP!return_buffer
<1>f. ASSUME NEW input, NEW progress, NEW wanted
      PROVE  /\ receiver_!InputFailure(input, progress, wanted)
                  = RxP!InputFailure(input, progress, wanted)
             /\ receiver_!Take(input, wanted) = RxP!Take(input, wanted)
  BY DEF receiver_!InputFailure, RxP!InputFailure, receiver_!get_buffer, RxP!get_buffer,
         receiver_!Take, RxP!Take
<1>g. ASSUME NEW header
      PROVE  /\ receiver_!HeaderFailure(header) = RxP!HeaderFailure(header)
             /\ receiver_!get_size(header) = RxP!get_size(header)
             /\ receiver_!get_crc(header) = RxP!get_crc(header)
  BY DEF receiver_!HeaderFailure, RxP!HeaderFailure,
         receiver_!is_magic_valid, RxP!is_magic_valid, receiver_!get_size, RxP!get_size,
         receiver_!get_crc, RxP!get_crc, receiver_!get_u32_, RxP!get_u32_,
         receiver_!FieldAt, RxP!FieldAt
<1>1. ASSUME receiver_!ParseHeader PROVE RxP!ParseHeader
  BY <1>1, <1>p, <1>c, <1>f, <1>g DEF receiver_!ParseHeader, RxP!ParseHeader,
     receiver_!CopyHeader, RxP!CopyHeader, receiver_!HeaderProgress, RxP!HeaderProgress
<1>2. ASSUME receiver_!ParsePayload PROVE RxP!ParsePayload
  <2>1. ASSUME NEW bytes PROVE receiver_!crc32c(bytes) = RxP!crc32c(bytes)
    BY DEF receiver_!crc32c, RxP!crc32c, receiver_!PayloadByte, RxP!PayloadByte
  <2>2. ASSUME NEW frame PROVE receiver_!PayloadFailure(frame) = RxP!PayloadFailure(frame)
    BY <1>g, <2>1, RxSame DEF receiver_!PayloadFailure, RxP!PayloadFailure
  <2>3. /\ \A input, take : receiver_!AddSegment(input, take) = RxP!AddSegment(input, take)
        /\ \A bid : receiver_!Referenced(bid) = RxP!Referenced(bid)
    BY DEF receiver_!AddSegment, RxP!AddSegment, receiver_!Referenced, RxP!Referenced
  <2>4. RxP!Parses("PARSING_PAYLOAD")
    BY <1>2, <1>p DEF receiver_!ParsePayload
  <2> DEFINE input == Head(rx_input_queue)
             wanted == receiver_!get_size(rx_header) - rx_payload_progress
             take == receiver_!Take(input, wanted)
             frame == receiver_!AddSegment(input, take)
             refcounts == receiver_!Referenced(input.bid)
             failure == receiver_!InputFailure(input, rx_payload_progress,
                                               receiver_!get_size(rx_header))
             result == IF take = wanted THEN receiver_!PayloadFailure(frame) ELSE "None"
  <2>5. /\ wanted = RxP!get_size(rx_header) - rx_payload_progress
        /\ take = RxP!Take(input, wanted)
        /\ frame = RxP!AddSegment(input, take)
        /\ refcounts = RxP!Referenced(input.bid)
        /\ failure = RxP!InputFailure(input, rx_payload_progress, RxP!get_size(rx_header))
        /\ result = IF take = wanted THEN RxP!PayloadFailure(frame) ELSE "None"
    BY <1>f, <1>g, <2>2, <2>3
  <2>6. /\ IF failure # "None"
           THEN run_result' = failure /\ UNCHANGED <<receiver_!own_vars, rx_br>>
           ELSE /\ receiver_!Consume(take, refcounts, result)
                /\ IF take = wanted /\ result = "None"
                   THEN /\ rx_output_queue' = Append(rx_output_queue, frame)
                        /\ rx_frame' = receiver_!EmptyFrame
                        /\ rx_payload_progress' = 0
                        /\ rx_state' = "PARSING_HEADER"
                   ELSE /\ rx_frame' = frame
                        /\ rx_payload_progress'
                              = IF take = wanted THEN 0 ELSE rx_payload_progress + take
                        /\ UNCHANGED <<rx_output_queue, rx_state>>
        /\ UNCHANGED <<rx_header, rx_header_progress>>
    BY <1>2 DEF receiver_!ParsePayload
  <2> HIDE DEF input, wanted, take, frame, refcounts, failure, result
  <2>7. /\ IF failure # "None"
           THEN run_result' = failure /\ UNCHANGED <<RxP!own_vars, rx_br>>
           ELSE /\ RxP!Consume(take, refcounts, result)
                /\ IF take = wanted /\ result = "None"
                   THEN /\ rx_output_queue' = Append(rx_output_queue, frame)
                        /\ rx_frame' = RxP!EmptyFrame
                        /\ rx_payload_progress' = 0
                        /\ rx_state' = "PARSING_HEADER"
                   ELSE /\ rx_frame' = frame
                        /\ rx_payload_progress'
                              = IF take = wanted THEN 0 ELSE rx_payload_progress + take
                        /\ UNCHANGED <<rx_output_queue, rx_state>>
        /\ UNCHANGED <<rx_header, rx_header_progress>>
    BY <1>c, <2>6, RxSame
  <2> QED BY <2>4, <2>5, <2>7 DEF RxP!ParsePayload, input
<1>3. ASSUME receiver_!ParseNoMemory PROVE RxP!ParseNoMemory
  BY <1>3, <1>p DEF receiver_!ParseNoMemory, RxP!ParseNoMemory,
     receiver_!Referenced, RxP!Referenced
<1> QED BY <1>1, <1>2, <1>3

\* and so are those for a WRITE.
LEMMA RxWriteHandlers ==
    ASSUME Queued, phase = "loop", UNCHANGED own_vars
    PROVE  /\ receiver_!WriteCompleted => RxP!WriteCompleted
           /\ receiver_!ReleaseBuffer => RxP!ReleaseBuffer
           /\ receiver_!WriteDone => RxP!WriteDone
           /\ receiver_!WriteRearmFailed => RxP!WriteRearmFailed
<1>a. /\ cq' = cq => RxQueue' = RxQueue
      /\ RxRecving = recving /\ RxRecving' = recving'
  BY RxStays
<1>b. "WRITE" \in RxTypes
  BY DEF RxTypes
<1> USE DEF receiver_!own_vars, RxP!own_vars, receiver_!handler_vars, RxP!handler_vars,
            receiver_!parser_vars, RxP!parser_vars
<1>k. ASSUME NEW queue, NEW in_progress, receiver_!kick_write_(queue, in_progress)
      PROVE  RxP!kick_write_(queue, in_progress)
  BY <1>k, RxSame DEF receiver_!kick_write_, RxP!kick_write_
<1>r. ASSUME receiver_!Releases PROVE RxP!Releases
  BY <1>a, <1>r DEF receiver_!Releases, RxP!Releases
<1>1. ASSUME receiver_!WriteCompleted PROVE RxP!WriteCompleted
  <2>1. RxP!Handles("WRITE") /\ Head(RxQueue) = Head(cq)
    BY <1>1, <1>b, RxTaken DEF receiver_!WriteCompleted
  <2>2. receiver_!WriteFailure(Head(cq)) = RxP!WriteFailure(Head(cq))
    BY RxSame DEF receiver_!WriteFailure, RxP!WriteFailure,
       receiver_!FrameSize, RxP!FrameSize
  <2> QED BY <1>1, <1>a, <2>1, <2>2, RxSame DEF receiver_!WriteCompleted, RxP!WriteCompleted
<1>2. ASSUME receiver_!ReleaseBuffer PROVE RxP!ReleaseBuffer
  BY <1>2, <1>a, <1>r DEF receiver_!ReleaseBuffer, RxP!ReleaseBuffer,
     receiver_!LastReference, RxP!LastReference, receiver_!return_buffer, RxP!return_buffer
<1>3. ASSUME receiver_!WriteDone PROVE RxP!WriteDone
  BY <1>3, <1>a, <1>k, <1>r, RxSame DEF receiver_!WriteDone, RxP!WriteDone,
     receiver_!Released, RxP!Released
<1>4. ASSUME receiver_!WriteRearmFailed PROVE RxP!WriteRearmFailed
  BY <1>4, <1>a, <1>r, RxSame DEF receiver_!WriteRearmFailed, RxP!WriteRearmFailed,
     receiver_!Released, RxP!Released
<1> QED BY <1>1, <1>2, <1>3, <1>4

\* Together: the handlers of the receiver alone.
LEMMA RxHandlers ==
    ASSUME Queued, phase = "loop", UNCHANGED own_vars, receiver_!Handle
    PROVE  RxP!Handle
  BY RxRecvHandlers, RxParses, RxWriteHandlers DEF receiver_!Handle, RxP!Handle

\* The kernel posts completions of the receiver's types for its requests.
LEMMA RxKernelPosts == receiver_!Kernel => Posted(RxTypes)
<1>1. ASSUME NEW type \in RxTypes, NEW result, NEW bid, NEW more,
             cq' = Append(cq, receiver_!Cqe(type, result, bid, more))
      PROVE  Posted(RxTypes)
  BY <1>1 DEF Posted, receiver_!Cqe
<1>2. "RECV" \in RxTypes /\ "WRITE" \in RxTypes
  BY DEF RxTypes
<1>3. ASSUME NEW n, NEW more, receiver_!KernelRecv(n, more) PROVE Posted(RxTypes)
  BY <1>1, <1>2, <1>3 DEF receiver_!KernelRecv
<1>4. ASSUME NEW result, receiver_!EndRecv(result) PROVE Posted(RxTypes)
  BY <1>1, <1>2, <1>4 DEF receiver_!EndRecv
<1>5. ASSUME receiver_!KernelWrite PROVE Posted(RxTypes)
  BY <1>1, <1>2, <1>5 DEF receiver_!KernelWrite
<1>6. ASSUME receiver_!KernelWriteError PROVE Posted(RxTypes)
  BY <1>1, <1>2, <1>6 DEF receiver_!KernelWriteError
<1> QED BY <1>3, <1>4, <1>5, <1>6
        DEF receiver_!Kernel, receiver_!KernelRecvNoBuffers, receiver_!KernelRecvError,
            receiver_!KernelPeerClosed

\* What the kernel does for the receiver it does for the receiver alone: no
\* bytes are received before run() has armed the RECV.
LEMMA RxKernel ==
    ASSUME Queued, phase = "arm_recv" => ~recving, UNCHANGED own_vars, receiver_!Kernel
    PROVE  RxP!Kernel
<1>a. phase' = phase
  BY DEF own_vars
<1>b. ASSUME recving PROVE RxRecving = recving /\ RxRecving' = recving'
  BY <1>a, <1>b DEF RxRecving
<1>c. ASSUME recving' = recving PROVE RxRecving' = RxRecving
  BY <1>a, <1>c DEF RxRecving
<1>p. ASSUME NEW type \in RxTypes, NEW result, NEW bid, NEW more,
             cq' = Append(cq, receiver_!Cqe(type, result, bid, more))
      PROVE  RxQueue' = Append(RxQueue, RxP!Cqe(type, result, bid, more))
  <2> DEFINE cqe == receiver_!Cqe(type, result, bid, more)
  <2>1. cqe = RxP!Cqe(type, result, bid, more) /\ cqe.type \in RxTypes
    BY <1>p DEF receiver_!Cqe, RxP!Cqe
  <2> HIDE DEF cqe
  <2>2. cq' = Append(cq, cqe)
    BY <1>p DEF cqe
  <2> QED BY <2>1, <2>2, PostedOwn DEF RxQueue, RxTypes
<1>q. "RECV" \in RxTypes /\ "WRITE" \in RxTypes
  BY DEF RxTypes
<1>s. ASSUME receiver_!KernelStep PROVE RxP!KernelStep
  BY <1>s DEF receiver_!KernelStep, RxP!KernelStep, receiver_!own_vars, RxP!own_vars,
     receiver_!handler_vars, RxP!handler_vars, receiver_!parser_vars, RxP!parser_vars
<1>1. ASSUME NEW n \in 1..rx_buffer_size, NEW more \in BOOLEAN, receiver_!KernelRecv(n, more)
      PROVE  RxP!KernelRecv(n, more)
  <2>1. RxQueue' = Append(RxQueue, RxP!Cqe("RECV", n, Head(rx_br), more))
    BY <1>1, <1>p, <1>q DEF receiver_!KernelRecv
  <2>2. recving
    BY <1>1 DEF receiver_!KernelRecv
  <2> QED BY <1>1, <1>b, <1>s, <2>1, <2>2 DEF receiver_!KernelRecv, RxP!KernelRecv
<1>2. ASSUME NEW result, receiver_!EndRecv(result) PROVE RxP!EndRecv(result)
  <2>1. RxQueue' = Append(RxQueue, RxP!Cqe("RECV", result, RxP!NoBid, FALSE))
    BY <1>2, <1>p, <1>q, RxSame DEF receiver_!EndRecv
  <2>2. recving
    BY <1>2 DEF receiver_!EndRecv
  <2> QED BY <1>2, <1>b, <1>s, <2>1, <2>2 DEF receiver_!EndRecv, RxP!EndRecv
<1>3. /\ receiver_!KernelRecvNoBuffers => RxP!KernelRecvNoBuffers
      /\ receiver_!KernelRecvError => RxP!KernelRecvError
      /\ receiver_!KernelPeerClosed => RxP!KernelPeerClosed
  BY <1>2 DEF receiver_!KernelRecvNoBuffers, RxP!KernelRecvNoBuffers,
     receiver_!KernelRecvError, RxP!KernelRecvError, receiver_!KernelPeerClosed,
     RxP!KernelPeerClosed, receiver_!ENOBUFS, RxP!ENOBUFS, receiver_!EIO, RxP!EIO
<1>4. ASSUME receiver_!KernelWrite PROVE RxP!KernelWrite
  <2> DEFINE segments == Head(rx_output_queue).segments
  <2>1. RxRecving' = RxRecving
    BY <1>4, <1>c DEF receiver_!KernelWrite
  <2>2. CASE Len(segments) <= IOV_MAX
    <3>1. cq' = Append(cq, receiver_!Cqe("WRITE", Len(receiver_!Iov(segments)),
                                         receiver_!NoBid, FALSE))
      BY <1>4, <2>2 DEF receiver_!KernelWrite
    <3>2. RxQueue' = Append(RxQueue, RxP!Cqe("WRITE", Len(receiver_!Iov(segments)),
                                             receiver_!NoBid, FALSE))
      BY <1>p, <1>q, <3>1
    <3>3. RxQueue' = Append(RxQueue, RxP!Cqe("WRITE", Len(RxP!Iov(segments)), RxP!NoBid, FALSE))
      BY <3>2, RxSame
    <3> QED BY <1>4, <1>s, <2>1, <2>2, <3>3, RxSame DEF receiver_!KernelWrite, RxP!KernelWrite
  <2>3. CASE ~(Len(segments) <= IOV_MAX)
    <3>1. cq' = Append(cq, receiver_!Cqe("WRITE", -receiver_!EINVAL, receiver_!NoBid, FALSE))
      BY <1>4, <2>3 DEF receiver_!KernelWrite
    <3>2. RxQueue' = Append(RxQueue, RxP!Cqe("WRITE", -receiver_!EINVAL, receiver_!NoBid, FALSE))
      BY <1>p, <1>q, <3>1
    <3>3. RxQueue' = Append(RxQueue, RxP!Cqe("WRITE", -RxP!EINVAL, RxP!NoBid, FALSE))
      BY <3>2, RxSame DEF receiver_!EINVAL, RxP!EINVAL
    <3> QED BY <1>4, <1>s, <2>1, <2>3, <3>3, RxSame DEF receiver_!KernelWrite, RxP!KernelWrite
  <2> QED BY <2>2, <2>3
<1>5. ASSUME receiver_!KernelWriteError PROVE RxP!KernelWriteError
  <2>1. RxQueue' = Append(RxQueue, RxP!Cqe("WRITE", -RxP!EIO, RxP!NoBid, FALSE))
    BY <1>5, <1>p, <1>q, RxSame DEF receiver_!KernelWriteError, receiver_!EIO, RxP!EIO
  <2>2. RxRecving' = RxRecving
    BY <1>5, <1>c DEF receiver_!KernelWriteError
  <2> QED BY <1>5, <1>s, <2>1, <2>2 DEF receiver_!KernelWriteError, RxP!KernelWriteError
<1> QED BY <1>1, <1>3, <1>4, <1>5 DEF receiver_!Kernel, RxP!Kernel

-----------------------------------------------------------------------------
(* The invariant *)

\* Which statements of run() have been reached, and what they have armed.
Starting ==
    /\ phase \in {"arm_recv", "arm_read", "print", "arm_timeout", "loop"}
    /\ phase = "arm_recv" => ~recving
    /\ phase \in {"arm_recv", "arm_read"} => ~reading

\* While the session goes on, each half is as it is alone (the transmitter's
\* cooldown with two buffers or more).
Halves ==
    /\ Queued /\ Starting
    /\ TxP!TypeInv /\ TxP!SendInv /\ TxP!ReadArmedOnce /\ TxP!BufferOwnership
    /\ tx_queue_length >= 2 => TxP!CoolInv
    /\ RxP!OwnInv /\ RxP!ArmingInv

SessionInv == run_result = "None" => Halves

\* A session that has ended takes no step.
LEMMA GoesOn == [Next]_vars /\ run_result' = "None" => run_result = "None"
<1> SUFFICES ASSUME [Next]_vars, run_result # "None", run_result' = "None" PROVE FALSE
  OBVIOUS
<1>1. ~Run
  BY DEF Run, ArmRecv, ArmRead, FirstPrint, ArmTimeout, Start, WaitFailed, Transmit, Receive,
         Tick, transmitter_!Handle, transmitter_!Handles,
         transmitter_!ReadNoBuffers, transmitter_!ReadFailed, transmitter_!ReadPacket,
         transmitter_!ReadRearmFailed, transmitter_!ReadNoMemory,
         transmitter_!SendFailed, transmitter_!SendDone, transmitter_!SendRearmFailed,
         receiver_!Handle, receiver_!Handles,
         receiver_!RecvNoBuffers, receiver_!RecvFailed, receiver_!RecvChunk,
         receiver_!Parses, receiver_!ParseHeader, receiver_!ParsePayload,
         receiver_!ParseNoMemory, receiver_!Parsed, receiver_!RecvDone,
         receiver_!RecvRearmFailed, receiver_!WriteCompleted, receiver_!Releases,
         receiver_!ReleaseBuffer, receiver_!Released, receiver_!WriteDone,
         receiver_!WriteRearmFailed
<1>2. ~KernelTransmit
  BY DEF KernelTransmit, transmitter_!Kernel, transmitter_!KernelStep,
         transmitter_!KernelRead, transmitter_!KernelReadNoBuffers,
         transmitter_!KernelReadError, transmitter_!KernelSend, transmitter_!KernelSendError
<1>3. ~KernelReceive
  BY DEF KernelReceive, receiver_!Kernel, receiver_!KernelStep, receiver_!KernelRecv,
         receiver_!EndRecv, receiver_!KernelRecvNoBuffers, receiver_!KernelRecvError,
         receiver_!KernelPeerClosed, receiver_!KernelWrite, receiver_!KernelWriteError
<1>4. ~\E more \in BOOLEAN : KernelTick(more)
  BY DEF KernelTick
<1> QED BY <1>1, <1>2, <1>3, <1>4 DEF Next, vars

\* What a step means to the transmitter, to the receiver, and to what run() has reached.
Step == /\ [TxP!Next]_(TxP!vars)
        /\ [RxP!Next]_(RxP!vars)
        /\ Queued' /\ Starting'

\* A half whose variables and completions stay rests.
LEMMA TxRests ==
    ASSUME UNCHANGED <<tx_frame_queue, tx_cooling_down, tx_send_in_progress, tx_current_frame,
                       tx_br, tx_mem, sending, tun_rx, wire_out, run_result>>,
           TxQueue' = TxQueue, TxReading' = TxReading
    PROVE  UNCHANGED TxP!vars
  BY DEF TxP!vars, TxP!own_vars, TxP!kernel_vars

\* The receiver rests likewise.
LEMMA RxRests ==
    ASSUME UNCHANGED <<rx_cooling_down, rx_used_buffers, rx_input_queue, rx_refcounts, rx_state,
                       rx_header, rx_header_progress, rx_frame, rx_payload_progress,
                       rx_output_queue, rx_write_in_progress, rx_cqe, rx_released, rx_br,
                       rx_mem, writing, wire_in, pos, tun_tx, run_result>>,
           RxQueue' = RxQueue, RxRecving' = RxRecving
    PROVE  UNCHANGED RxP!vars
  BY DEF RxP!vars, RxP!own_vars, RxP!parser_vars, RxP!handler_vars, RxP!kernel_vars

\* Types of completions that are not a half's.
LEMMA TypesApart ==
    /\ TxTypes = {"READ", "SEND"} /\ RxTypes = {"RECV", "WRITE"}
    /\ Dispatched = TxTypes \cup RxTypes
    /\ TxTypes \cap RxTypes = {} /\ RxTypes \cap TxTypes = {}
    /\ "TIMEOUT" \notin TxTypes /\ "TIMEOUT" \notin RxTypes
  BY DEF TxTypes, RxTypes, Dispatched

\* The statements of run() before its loop.
LEMMA StartSteps ==
    ASSUME Halves, run_result = "None", run_result' = "None",
           ArmRecv \/ ArmRead \/ FirstPrint \/ ArmTimeout
    PROVE  Step
<1>1. Queued /\ Starting /\ cq' = cq
  BY DEF Halves, ArmRecv, ArmRead, FirstPrint, ArmTimeout, Start
<1>2. Queued' /\ TxQueue' = TxQueue /\ RxQueue' = RxQueue
  BY <1>1 DEF Queued, TxQueue, RxQueue
<1> USE DEF tx_vars, rx_vars
<1>3. CASE ArmRecv
  <2>1. phase = "arm_recv" /\ phase' = "arm_read" /\ recving' = TRUE
    BY <1>3 DEF ArmRecv, Start
  <2>2. TxReading' = TxReading /\ RxRecving' = RxRecving
    BY <2>1 DEF TxReading, RxRecving
  <2>3. UNCHANGED TxP!vars /\ UNCHANGED RxP!vars
    BY <1>2, <1>3, <2>2, TxRests, RxRests DEF ArmRecv
  <2>4. Starting'
    BY <1>1, <1>3, <2>1 DEF Starting, ArmRecv
  <2> QED BY <1>2, <2>3, <2>4 DEF Step
<1>4. CASE ArmRead
  <2>1. phase = "arm_read" /\ phase' = "print" /\ reading' = TRUE /\ recving' = recving
    BY <1>4 DEF ArmRead, Start
  <2>2. TxReading' = TxReading /\ RxRecving' = RxRecving
    BY <2>1 DEF TxReading, RxRecving
  <2>3. UNCHANGED TxP!vars /\ UNCHANGED RxP!vars
    BY <1>2, <1>4, <2>2, TxRests, RxRests DEF ArmRead
  <2>4. Starting'
    BY <2>1 DEF Starting
  <2> QED BY <1>2, <2>3, <2>4 DEF Step
<1>5. CASE FirstPrint \/ ArmTimeout
  <2>1. /\ phase \in {"print", "arm_timeout"} /\ phase' \in {"arm_timeout", "loop"}
        /\ reading' = reading /\ recving' = recving
    BY <1>5 DEF FirstPrint, ArmTimeout, Start
  <2>2. TxReading' = TxReading /\ RxRecving' = RxRecving
    BY <2>1 DEF TxReading, RxRecving
  <2>3. UNCHANGED TxP!vars /\ UNCHANGED RxP!vars
    BY <1>2, <1>5, <2>2, TxRests, RxRests DEF FirstPrint, ArmTimeout
  <2>4. Starting'
    BY <2>1 DEF Starting
  <2> QED BY <1>2, <2>3, <2>4 DEF Step
<1> QED BY <1>3, <1>4, <1>5

\* A completion of the transmitter is handled, or the kernel works for it.
LEMMA TxSteps ==
    ASSUME Halves, run_result = "None", run_result' = "None", Transmit \/ KernelTransmit
    PROVE  Step
<1>1. Queued /\ Starting /\ UNCHANGED own_vars /\ UNCHANGED rx_vars
  BY DEF Halves, Transmit, KernelTransmit
<1>2. Queued' /\ RxQueue' = RxQueue
  <2>1. Taken(TxTypes) \/ Posted(TxTypes)
    BY TxHandlersTake, TxKernelPosts DEF Transmit, KernelTransmit
  <2>2. CASE Taken(TxTypes)
    BY <1>1, <2>2, TakenOwn, TakenOther, TypesApart DEF RxQueue
  <2>3. CASE Posted(TxTypes)
    BY <1>1, <2>3, PostedOther, TypesApart DEF RxQueue
  <2> QED BY <2>1, <2>2, <2>3
<1>3. phase' = phase /\ recving' = recving
  BY <1>1 DEF own_vars, rx_vars
<1>4. UNCHANGED RxP!vars
  BY <1>1, <1>2, <1>3, RxRests DEF RxRecving, rx_vars
<1>5. TxP!Next
  <2>1. CASE Transmit
    BY <1>1, <2>1, TxHandlers DEF Transmit, Waiting, TxP!Next
  <2>2. CASE KernelTransmit
    BY <1>1, <2>2, TxKernel DEF KernelTransmit, Starting, TxP!Next
  <2> QED BY <2>1, <2>2
<1>6. Starting'
  <2>1. CASE Transmit
    BY <1>3, <2>1 DEF Transmit, Waiting, Starting
  <2>2. CASE KernelTransmit
    <3>1. reading' => reading
      BY <2>2 DEF KernelTransmit, transmitter_!Kernel, transmitter_!KernelRead,
         transmitter_!KernelReadNoBuffers, transmitter_!KernelReadError,
         transmitter_!KernelSend, transmitter_!KernelSendError
    <3> QED BY <1>1, <1>3, <3>1 DEF Starting
  <2> QED BY <2>1, <2>2
<1> QED BY <1>2, <1>4, <1>5, <1>6 DEF Step

\* A completion of the receiver is handled, or the kernel works for it.
LEMMA RxSteps ==
    ASSUME Halves, run_result = "None", run_result' = "None", Receive \/ KernelReceive
    PROVE  Step
<1>1. Queued /\ Starting /\ UNCHANGED own_vars /\ UNCHANGED tx_vars
  BY DEF Halves, Receive, KernelReceive
<1>2. Queued' /\ TxQueue' = TxQueue
  <2>1. cq' = cq \/ Taken(RxTypes) \/ Posted(RxTypes)
    BY RxHandlersTake, RxKernelPosts DEF Receive, KernelReceive
  <2>2. CASE cq' = cq
    BY <1>1, <2>2 DEF TxQueue, Queued
  <2>3. CASE Taken(RxTypes)
    BY <1>1, <2>3, TakenOwn, TakenOther, TypesApart DEF TxQueue
  <2>4. CASE Posted(RxTypes)
    BY <1>1, <2>4, PostedOther, TypesApart DEF TxQueue
  <2> QED BY <2>1, <2>2, <2>3, <2>4
<1>3. phase' = phase /\ reading' = reading
  BY <1>1 DEF own_vars, tx_vars
<1>4. UNCHANGED TxP!vars
  BY <1>1, <1>2, <1>3, TxRests DEF TxReading, tx_vars
<1>5. RxP!Next
  <2>1. CASE Receive
    BY <1>1, <2>1, RxHandlers DEF Receive, RxP!Next
  <2>2. CASE KernelReceive
    BY <1>1, <2>2, RxKernel DEF KernelReceive, Starting, RxP!Next
  <2> QED BY <2>1, <2>2
<1>6. Starting'
  <2>1. CASE Receive
    BY <1>3, <2>1 DEF Receive, Starting
  <2>2. CASE KernelReceive
    <3>1. recving' => recving
      BY <2>2 DEF KernelReceive, receiver_!Kernel, receiver_!KernelRecv, receiver_!EndRecv,
         receiver_!KernelRecvNoBuffers, receiver_!KernelRecvError,
         receiver_!KernelPeerClosed, receiver_!KernelWrite, receiver_!KernelWriteError
    <3> QED BY <1>1, <1>3, <3>1 DEF Starting
  <2> QED BY <2>1, <2>2
<1> QED BY <1>2, <1>4, <1>5, <1>6 DEF Step

\* The rest of the dispatch and the timer, which are nothing to the halves.
LEMMA MonitorSteps ==
    ASSUME Halves, run_result = "None", run_result' = "None",
           Tick \/ \E more \in BOOLEAN : KernelTick(more)
    PROVE  Step
<1>1. Queued /\ Starting /\ phase' = phase /\ UNCHANGED tx_vars /\ UNCHANGED rx_vars
  BY DEF Halves, Tick, KernelTick
<1>2. Queued' /\ TxQueue' = TxQueue /\ RxQueue' = RxQueue
  <2>1. CASE Tick
    <3> DEFINE other == {Head(cq).type}
    <3>1. Taken(other) /\ TxTypes \cap other = {} /\ RxTypes \cap other = {}
      BY <2>1, TypesApart DEF Tick, Taken
    <3> HIDE DEF other
    <3> QED BY <1>1, <3>1, TakenOwn, TakenOther, TypesApart DEF TxQueue, RxQueue
  <2>2. CASE \E more \in BOOLEAN : KernelTick(more)
    <3>1. Posted({"TIMEOUT"})
      BY <2>2 DEF KernelTick, Posted, Cqe
    <3>2. TxTypes \cap {"TIMEOUT"} = {} /\ RxTypes \cap {"TIMEOUT"} = {}
      BY TypesApart
    <3> QED BY <1>1, <3>1, <3>2, PostedOther, TypesApart DEF TxQueue, RxQueue
  <2> QED BY <2>1, <2>2
<1>3. TxReading' = TxReading /\ RxRecving' = RxRecving
  BY <1>1 DEF TxReading, RxRecving, tx_vars, rx_vars
<1>4. UNCHANGED TxP!vars /\ UNCHANGED RxP!vars
  BY <1>1, <1>2, <1>3, TxRests, RxRests DEF tx_vars, rx_vars
<1>5. Starting'
  BY <1>1 DEF Starting, tx_vars, rx_vars
<1> QED BY <1>2, <1>4, <1>5 DEF Step

\* Every step of a session that goes on.
LEMMA Steps ==
    ASSUME Halves, run_result = "None", run_result' = "None", [Next]_vars
    PROVE  Step
<1>1. CASE UNCHANGED vars
  <2>1. UNCHANGED own_vars /\ UNCHANGED tx_vars /\ UNCHANGED rx_vars /\ cq' = cq
    BY <1>1 DEF vars
  <2>2. /\ TxQueue' = TxQueue /\ RxQueue' = RxQueue
        /\ TxReading' = TxReading /\ RxRecving' = RxRecving
    BY <2>1 DEF TxQueue, RxQueue, TxReading, RxRecving, own_vars, tx_vars, rx_vars
  <2>3. UNCHANGED TxP!vars /\ UNCHANGED RxP!vars
    BY <2>1, <2>2, TxRests, RxRests DEF tx_vars, rx_vars
  <2>4. Queued' /\ Starting'
    BY <2>1 DEF Halves, Queued, Starting, own_vars, tx_vars, rx_vars
  <2> QED BY <2>3, <2>4 DEF Step
<1>2. ~WaitFailed
  BY DEF WaitFailed
<1> QED BY <1>1, <1>2, StartSteps, TxSteps, RxSteps, MonitorSteps DEF Next, Run

-----------------------------------------------------------------------------
(* The invariant holds *)

\* create_session: each half starts as it does alone.
LEMMA InitHalves == Init => Halves
<1> SUFFICES ASSUME Init PROVE Halves
  OBVIOUS
<1>1. /\ phase = "arm_recv" /\ cq = <<>> /\ reading = FALSE /\ recving = FALSE
      /\ transmitter_!Created /\ receiver_!Created /\ wire_in \in Wires
  BY DEF Init, transmitter_!Created
<1>2. TxQueue = <<>> /\ RxQueue = <<>>
  BY <1>1, Lists!ChosenEmpty, Assumptions DEF TxQueue, RxQueue
<1>3. TxReading = TRUE /\ RxRecving = TRUE
  BY <1>1 DEF TxReading, RxRecving
<1>4. TxP!Init
  BY <1>1, <1>2, <1>3 DEF TxP!Init, transmitter_!Created, TxP!Created,
     transmitter_!nullopt, TxP!nullopt, transmitter_!Bids, TxP!Bids,
     transmitter_!create_buffer_group, TxP!create_buffer_group,
     transmitter_!NoBid, TxP!NoBid, transmitter_!FrameHeader, TxP!FrameHeader
<1>5. RxP!Init
  BY <1>1, <1>2, <1>3 DEF RxP!Init, receiver_!Created, RxP!Created,
     receiver_!Bids, RxP!Bids, receiver_!idle, RxP!idle, receiver_!Cqe, RxP!Cqe,
     receiver_!NoBid, RxP!NoBid, receiver_!EmptyFrame, RxP!EmptyFrame,
     receiver_!create_buffer_group, RxP!create_buffer_group,
     receiver_!HeaderBytes, RxP!HeaderBytes, receiver_!HeaderByte, RxP!HeaderByte,
     receiver_!FrameHeader, RxP!FrameHeader
<1>6. Starting
  BY <1>1 DEF Starting
<1>7. Queued
  <2>1. cq \in Seq({})
    BY <1>1
  <2> QED BY <2>1 DEF Queued
<1>8. /\ TxP!TypeInv /\ TxP!SendInv /\ TxP!ReadArmedOnce /\ TxP!BufferOwnership
      /\ TxP!CoolInv
  BY <1>4, TxP!InitTypeInv, TxP!InitRequests, TxP!InitOwnership, TxP!InitCool, Assumptions
<1>9. RxP!OwnInv
  BY <1>5, RxP!InitShapeInv, RxP!InitRefsExact, RxP!InitOwning, Assumptions
     DEF RxP!OwnInv, RxP!RefsInv
<1>10. RxP!ArmingInv
  BY <1>5, RxP!InitArmingInv, Assumptions
<1> QED BY <1>6, <1>7, <1>8, <1>9, <1>10 DEF Halves

\* Each step of the session keeps what the step of a half keeps.
LEMMA NextHalves ==
    ASSUME Halves, run_result = "None", run_result' = "None", [Next]_vars
    PROVE  Halves'
<1>1. [TxP!Next]_(TxP!vars) /\ [RxP!Next]_(RxP!vars) /\ Queued' /\ Starting'
  BY Steps DEF Step
<1>2. /\ TxP!TypeInv' /\ TxP!SendInv' /\ TxP!ReadArmedOnce' /\ TxP!BufferOwnership'
      /\ tx_queue_length >= 2 => TxP!CoolInv'
  <2>1. /\ TxP!TypeInv /\ TxP!SendInv /\ TxP!ReadArmedOnce /\ TxP!BufferOwnership
        /\ tx_queue_length >= 2 => TxP!AllInv
    BY DEF Halves, TxP!AllInv
  <2>2. TxP!TypeInv'
    BY <1>1, <2>1, TxP!NextTypeInv, Assumptions
  <2>3. TxP!SendInv'
    BY <1>1, <2>1, TxP!NextSendInv, Assumptions
  <2>4. TxP!ReadArmedOnce'
    BY <1>1, <2>1, TxP!NextReadArmed, Assumptions
  <2>5. TxP!BufferOwnership'
    BY <1>1, <2>1, TxP!NextOwnership, Assumptions
  <2>6. tx_queue_length >= 2 => TxP!CoolInv'
    BY <1>1, <2>1, TxP!NextCool, Assumptions
  <2> QED BY <2>2, <2>3, <2>4, <2>5, <2>6
<1>3. RxP!Running'
  BY DEF RxP!Running
<1>4. RxP!OwnInv /\ RxP!RefsInv /\ RxP!ShapeInv /\ RxP!ArmingInv
  BY DEF Halves, RxP!OwnInv, RxP!RefsInv
<1>5. RxP!ShapeInv'
  BY <1>1, <1>4, RxP!NextShapeInv, Assumptions
<1>6. RxP!RefsExact'
  BY <1>1, <1>3, <1>4, RxP!NextRefsExact, Assumptions DEF RxP!RefsInv
<1>7. RxP!Owning'
  BY <1>1, <1>3, <1>4, RxP!NextOwning, Assumptions
<1>8. RxP!Arming'
  BY <1>1, <1>3, <1>4, RxP!NextArming, Assumptions
<1>9. RxP!OwnInv' /\ RxP!ArmingInv'
  BY <1>5, <1>6, <1>7, <1>8 DEF RxP!OwnInv, RxP!RefsInv, RxP!ArmingInv
<1> QED BY <1>1, <1>2, <1>9 DEF Halves


-----------------------------------------------------------------------------
(* What the halves' properties say of the ring's queue *)

\* The transmitter's completions have their places in the queue of the ring.
LEMMA TxPlaces ==
    ASSUME Queued
    PROVE  \E place :
              /\ \A i \in DOMAIN TxQueue : cq[place[i]] = TxQueue[i]
              /\ \A i, j \in DOMAIN TxQueue : place[i] = place[j] => i = j
              /\ transmitter_!Filled = {place[i] : i \in TxP!Filled}
              /\ transmitter_!ReadEnds = {place[i] : i \in TxP!ReadEnds}
              /\ transmitter_!SendCqes = {place[i] : i \in TxP!SendCqes}
<1>1. PICK place : Lists!ChosenAt(place, cq, {"READ", "SEND"})
  <2>1. PICK S : cq \in Seq(S)
    BY DEF Queued
  <2> QED BY <2>1, Lists!ChosenPlaces, Assumptions
<1>2. /\ \A i \in DOMAIN TxQueue : place[i] \in DOMAIN cq /\ cq[place[i]] = TxQueue[i]
      /\ \A i, j \in DOMAIN TxQueue : place[i] = place[j] => i = j
      /\ \A k \in DOMAIN cq : cq[k].type \in {"READ", "SEND"}
            => \E i \in DOMAIN TxQueue : place[i] = k
  BY <1>1 DEF Lists!ChosenAt, TxQueue
<1>o. \A cqe : transmitter_!ok(cqe) = TxP!ok(cqe)
  BY DEF transmitter_!ok, TxP!ok
<1>3. transmitter_!Filled = {place[i] : i \in TxP!Filled}
  BY <1>2, <1>o DEF transmitter_!Filled, TxP!Filled
<1>4. transmitter_!ReadEnds = {place[i] : i \in TxP!ReadEnds}
  BY <1>2 DEF transmitter_!ReadEnds, TxP!ReadEnds
<1>5. transmitter_!SendCqes = {place[i] : i \in TxP!SendCqes}
  BY <1>2 DEF transmitter_!SendCqes, TxP!SendCqes
<1> QED BY <1>2, <1>3, <1>4, <1>5

\* So what holds of the transmitter alone holds of it in the session.
LEMMA TxShared ==
    ASSUME Halves, run_result = "None"
    PROVE  /\ transmitter_!BufferOwnership
           /\ transmitter_!SendSerialized
           /\ tx_queue_length >= 2 => transmitter_!CoolDownDrains
           /\ phase \in {"print", "arm_timeout", "loop"} => transmitter_!ReadArmedOnce
<1>1. /\ TxP!BufferOwnership /\ TxP!SendSerialized /\ TxP!ReadArmedOnce /\ Queued
      /\ tx_queue_length >= 2 => TxP!CoolDownDrains
  BY DEF Halves, TxP!SendInv, TxP!CoolInv
<1>2. PICK place :
        /\ \A i \in DOMAIN TxQueue : cq[place[i]] = TxQueue[i]
        /\ \A i, j \in DOMAIN TxQueue : place[i] = place[j] => i = j
        /\ transmitter_!Filled = {place[i] : i \in TxP!Filled}
        /\ transmitter_!ReadEnds = {place[i] : i \in TxP!ReadEnds}
        /\ transmitter_!SendCqes = {place[i] : i \in TxP!SendCqes}
  BY <1>1, TxPlaces
<1>3. /\ TxP!Filled \subseteq DOMAIN TxQueue /\ TxP!SendCqes \subseteq DOMAIN TxQueue
      /\ TxP!ReadEnds \subseteq DOMAIN TxQueue
  BY DEF TxP!Filled, TxP!SendCqes, TxP!ReadEnds
<1>4. TxP!Bids = transmitter_!Bids
  BY DEF TxP!Bids, transmitter_!Bids
<1>5. \A i \in TxP!Filled : place[i] \in transmitter_!Filled /\ cq[place[i]] = TxQueue[i]
  BY <1>2, <1>3
<1>6. transmitter_!BufferOwnership
  <2>1. /\ \A bid \in TxP!Bids : \/ \E i \in DOMAIN tx_br : tx_br[i] = bid
                                 \/ \E i \in TxP!Filled : TxQueue[i].bid = bid
                                 \/ \E i \in DOMAIN tx_frame_queue : tx_frame_queue[i].bid = bid
        /\ \A i, j \in DOMAIN tx_br : tx_br[i] = tx_br[j] => i = j
        /\ \A i, j \in TxP!Filled : TxQueue[i].bid = TxQueue[j].bid => i = j
        /\ \A i, j \in DOMAIN tx_frame_queue :
              tx_frame_queue[i].bid = tx_frame_queue[j].bid => i = j
        /\ \A i \in DOMAIN tx_br, j \in TxP!Filled : tx_br[i] # TxQueue[j].bid
        /\ \A i \in DOMAIN tx_br, j \in DOMAIN tx_frame_queue : tx_br[i] # tx_frame_queue[j].bid
        /\ \A i \in TxP!Filled, j \in DOMAIN tx_frame_queue :
              TxQueue[i].bid # tx_frame_queue[j].bid
    BY <1>1 DEF TxP!BufferOwnership, TxP!Running
  <2>2. \A k \in transmitter_!Filled : \E i \in TxP!Filled : k = place[i] /\ cq[k] = TxQueue[i]
    BY <1>2, <1>3
  <2>3. \A bid \in TxP!Bids : \/ \E i \in DOMAIN tx_br : tx_br[i] = bid
                              \/ \E i \in transmitter_!Filled : cq[i].bid = bid
                              \/ \E i \in DOMAIN tx_frame_queue : tx_frame_queue[i].bid = bid
    BY <1>5, <2>1
  <2>4. \A i, j \in transmitter_!Filled : cq[i].bid = cq[j].bid => i = j
    BY <2>1, <2>2
  <2>5. \A i \in DOMAIN tx_br, j \in transmitter_!Filled : tx_br[i] # cq[j].bid
    BY <2>1, <2>2
  <2>6. \A i \in transmitter_!Filled, j \in DOMAIN tx_frame_queue :
           cq[i].bid # tx_frame_queue[j].bid
    BY <2>1, <2>2
  <2> QED BY <1>4, <2>1, <2>3, <2>4, <2>5, <2>6 DEF transmitter_!BufferOwnership
<1>7. transmitter_!SendSerialized
  <2>1. transmitter_!SendCqes = {} <=> TxP!SendCqes = {}
    BY <1>2
  <2>2. (\A i, j \in TxP!SendCqes : i = j) => \A i, j \in transmitter_!SendCqes : i = j
    BY <1>2
  <2>3. /\ tx_send_in_progress = (sending \/ TxP!SendCqes # {})
        /\ ~(sending /\ TxP!SendCqes # {})
        /\ \A i, j \in TxP!SendCqes : i = j
    BY <1>1 DEF TxP!SendSerialized, TxP!Running
  <2>4. tx_send_in_progress = (sending \/ transmitter_!SendCqes # {})
    BY <2>1, <2>3, Zenon
  <2> QED BY <2>1, <2>2, <2>3, <2>4 DEF transmitter_!SendSerialized
<1>8. tx_queue_length >= 2 => transmitter_!CoolDownDrains
  BY <1>1 DEF TxP!CoolDownDrains, TxP!Running, transmitter_!CoolDownDrains
<1>9. ASSUME phase \in {"print", "arm_timeout", "loop"} PROVE transmitter_!ReadArmedOnce
  <2>1. TxReading = reading
    BY <1>9 DEF TxReading
  <2>2. transmitter_!ReadEnds = {} <=> TxP!ReadEnds = {}
    BY <1>2
  <2>3. (\A i, j \in TxP!ReadEnds : i = j) => \A i, j \in transmitter_!ReadEnds : i = j
    BY <1>2
  <2> QED BY <1>1, <2>1, <2>2, <2>3
          DEF TxP!ReadArmedOnce, TxP!Running, transmitter_!ReadArmedOnce
<1> QED BY <1>6, <1>7, <1>8, <1>9

\* The receiver's completions have their places in the queue of the ring.
LEMMA RxPlaces ==
    ASSUME Queued
    PROVE  \E place :
              /\ \A i \in DOMAIN RxQueue : cq[place[i]] = RxQueue[i]
              /\ \A i, j \in DOMAIN RxQueue : place[i] = place[j] => i = j
              /\ receiver_!Filled = {place[i] : i \in RxP!Filled}
              /\ receiver_!RecvEnds = {place[i] : i \in RxP!RecvEnds}
              /\ (\E k \in DOMAIN cq : cq[k].type = "WRITE")
                    <=> \E i \in DOMAIN RxQueue : RxQueue[i].type = "WRITE"
<1>1. PICK place : Lists!ChosenAt(place, cq, {"RECV", "WRITE"})
  <2>1. PICK S : cq \in Seq(S)
    BY DEF Queued
  <2> QED BY <2>1, Lists!ChosenPlaces, Assumptions, SMTT(30)
<1>2. /\ \A i \in DOMAIN RxQueue : place[i] \in DOMAIN cq /\ cq[place[i]] = RxQueue[i]
      /\ \A i, j \in DOMAIN RxQueue : place[i] = place[j] => i = j
      /\ \A k \in DOMAIN cq : cq[k].type \in {"RECV", "WRITE"}
            => \E i \in DOMAIN RxQueue : place[i] = k
  BY <1>1 DEF Lists!ChosenAt, RxQueue
<1>3. receiver_!Filled = {place[i] : i \in RxP!Filled}
  BY <1>2, RxSame DEF receiver_!Filled, RxP!Filled
<1>4. receiver_!RecvEnds = {place[i] : i \in RxP!RecvEnds}
  BY <1>2 DEF receiver_!RecvEnds, RxP!RecvEnds
<1>5. (\E k \in DOMAIN cq : cq[k].type = "WRITE")
         <=> \E i \in DOMAIN RxQueue : RxQueue[i].type = "WRITE"
  BY <1>2
<1> QED BY <1>2, <1>3, <1>4, <1>5

\* As many of them as in its own queue.
LEMMA SameCount ==
    /\ \A S : receiver_!Cardinality(S) = RxP!Cardinality(S)
    /\ \A S : Lists!Cardinality(S) = RxP!Cardinality(S)
    /\ \A S : Lists!IsFiniteSet(S) = RxP!IsFiniteSet(S)
  BY DEF receiver_!Cardinality, RxP!Cardinality, Lists!Cardinality,
         receiver_!IsFiniteSet, RxP!IsFiniteSet, Lists!IsFiniteSet

\* A set of positions of a queue is finite, and its places are as many.
LEMMA PlacesOf ==
    ASSUME NEW S, NEW queue \in Seq(S), NEW part, part \subseteq DOMAIN queue, NEW place,
           \A i, j \in DOMAIN queue : place[i] = place[j] => i = j
    PROVE  Lists!Cardinality({place[i] : i \in part}) = Lists!Cardinality(part)
<1>1. Lists!IsFiniteSet(part)
  BY Lists!PlacesCount, Lists!FS_Subset, Assumptions
<1> DEFINE f == [i \in part |-> place[i]]
<1>2. /\ DOMAIN f = part /\ f = [i \in part |-> f[i]]
      /\ \A i, j \in part : f[i] = f[j] => i = j
  OBVIOUS
<1>3. {f[i] : i \in part} = {place[i] : i \in part}
  OBVIOUS
<1>4. Lists!WireSizeAssumption
  BY Assumptions
<1> HIDE DEF f
<1>5. Lists!Cardinality({f[i] : i \in part}) = Lists!Cardinality(part)
  BY <1>1, <1>2, <1>4, Lists!ImageCount
<1> QED BY <1>3, <1>5

\* So what holds of the receiver alone holds of it in the session.
LEMMA RxShared ==
    ASSUME Halves, run_result = "None"
    PROVE  /\ receiver_!BufferOwnership
           /\ receiver_!WriteSerialized
           /\ phase # "arm_recv" => receiver_!RecvArmedOnce
<1>1. /\ RxP!BufferOwnership /\ RxP!WriteSerialized /\ RxP!RecvArmedOnce
      /\ RxP!Types /\ Queued
  <2>1. RxP!OwnInv /\ RxP!ArmingInv /\ RxP!ShapeInv /\ RxP!Types /\ Queued
    BY DEF Halves, RxP!OwnInv, RxP!RefsInv, RxP!ShapeInv
  <2>2. RxP!BufferOwnership
    BY <2>1, RxP!OwnersCover, Assumptions
  <2>3. RxP!WriteSerialized
    BY <2>1, RxP!ShapeSerializes, Assumptions
  <2>4. RxP!RecvArmedOnce
    BY <2>1, RxP!ArmedOnce, Assumptions
  <2> QED BY <2>1, <2>2, <2>3, <2>4
<1>2. PICK place :
        /\ \A i \in DOMAIN RxQueue : cq[place[i]] = RxQueue[i]
        /\ \A i, j \in DOMAIN RxQueue : place[i] = place[j] => i = j
        /\ receiver_!Filled = {place[i] : i \in RxP!Filled}
        /\ receiver_!RecvEnds = {place[i] : i \in RxP!RecvEnds}
        /\ (\E k \in DOMAIN cq : cq[k].type = "WRITE")
              <=> \E i \in DOMAIN RxQueue : RxQueue[i].type = "WRITE"
  BY <1>1, RxPlaces
<1>3. RxP!Filled \subseteq DOMAIN RxQueue /\ RxP!RecvEnds \subseteq DOMAIN RxQueue
  BY DEF RxP!Filled, RxP!RecvEnds
<1>4. /\ receiver_!Cardinality(receiver_!Filled) = RxP!Cardinality(RxP!Filled)
      /\ receiver_!Cardinality(receiver_!RecvEnds) = RxP!Cardinality(RxP!RecvEnds)
  <2>1. PICK S : RxQueue \in Seq(S)
    BY <1>1 DEF RxP!Types
  <2>2. Lists!Cardinality({place[i] : i \in RxP!Filled}) = Lists!Cardinality(RxP!Filled)
    BY <1>2, <1>3, <2>1, PlacesOf
  <2>3. Lists!Cardinality({place[i] : i \in RxP!RecvEnds}) = Lists!Cardinality(RxP!RecvEnds)
    BY <1>2, <1>3, <2>1, PlacesOf
  <2> QED BY <1>2, <2>2, <2>3, SameCount
<1>5. receiver_!BufferOwnership
  <2>1. /\ receiver_!Held = RxP!Held /\ receiver_!Free = RxP!Free
        /\ receiver_!Bids = RxP!Bids
    BY DEF receiver_!Held, RxP!Held, receiver_!Free, RxP!Free, receiver_!Bids, RxP!Bids
  <2>2. {cq[i].bid : i \in receiver_!Filled} = {RxQueue[i].bid : i \in RxP!Filled}
    BY <1>2, <1>3
  <2>3. receiver_!Cardinality(receiver_!Held) = RxP!Cardinality(RxP!Held)
    BY <2>1, SameCount
  <2> QED BY <1>1, <1>4, <2>1, <2>2, <2>3
          DEF receiver_!BufferOwnership, RxP!BufferOwnership, RxP!Running
<1>6. receiver_!WriteSerialized
  <2>1. /\ rx_write_in_progress = (writing \/ \E i \in DOMAIN RxQueue : RxQueue[i].type = "WRITE")
        /\ writing => \A i \in DOMAIN RxQueue : RxQueue[i].type # "WRITE"
        /\ (rx_cqe = RxP!idle /\ rx_output_queue # <<>>) => rx_write_in_progress
    BY <1>1 DEF RxP!WriteSerialized, RxP!Running
  <2> DEFINE here == \E k \in DOMAIN cq : cq[k].type = "WRITE"
             there == \E i \in DOMAIN RxQueue : RxQueue[i].type = "WRITE"
  <2>2. here <=> there
    BY <1>2
  <2>3. writing => \A k \in DOMAIN cq : cq[k].type # "WRITE"
    BY <2>1, <2>2
  <2>4. rx_write_in_progress = (writing \/ here)
    <3>1. rx_write_in_progress = (writing \/ there)
      BY <2>1
    <3> HIDE DEF here, there
    <3> QED BY <2>2, <3>1, Zenon
  <2> QED BY <2>1, <2>3, <2>4, RxSame DEF receiver_!WriteSerialized
<1>7. ASSUME phase # "arm_recv" PROVE receiver_!RecvArmedOnce
  <2>1. RxRecving = recving
    BY <1>7 DEF RxRecving
  <2>2. \A S : receiver_!Cardinality(S) = RxP!Cardinality(S)
    BY SameCount
  <2> QED BY <1>1, <1>4, <2>1, <2>2
          DEF receiver_!RecvArmedOnce, RxP!RecvArmedOnce, RxP!Running
<1> QED BY <1>5, <1>6, <1>7

\* The invariant holds in every behaviour, for every number of buffers.
LEMMA AlwaysSessionInv == Spec => []SessionInv
<1>1. Init => SessionInv
  BY InitHalves DEF SessionInv
<1>2. SessionInv /\ [Next]_vars => SessionInv'
  BY GoesOn, NextHalves DEF SessionInv
<1> QED BY <1>1, <1>2, PTL DEF Spec

\* All that OwnershipShared says but the end of cooldowns.
RequestsAndBuffers ==
    /\ transmitter_!BufferOwnership
    /\ receiver_!BufferOwnership
    /\ transmitter_!SendSerialized
    /\ receiver_!WriteSerialized
    /\ phase \in {"print", "arm_timeout", "loop"} => transmitter_!ReadArmedOnce
    /\ phase # "arm_recv" => receiver_!RecvArmedOnce

\* What the invariant says of both halves at once.
LEMMA InvShares ==
    SessionInv => /\ RequestsAndBuffers
                  /\ tx_queue_length >= 2 => transmitter_!CoolDownDrains
<1>1. CASE run_result = "None"
  BY <1>1, TxShared, RxShared DEF SessionInv, RequestsAndBuffers
<1>2. CASE run_result # "None"
  BY <1>2 DEF RequestsAndBuffers, transmitter_!BufferOwnership, receiver_!BufferOwnership,
     transmitter_!SendSerialized, receiver_!WriteSerialized, transmitter_!CoolDownDrains,
     transmitter_!ReadArmedOnce, receiver_!RecvArmedOnce, transmitter_!Running,
     receiver_!Running
<1> QED BY <1>1, <1>2

\* With both directions and the monitor in one completion queue (run()'s loop
\* and the statements before it), no buffer of either group is leaked or given
\* back twice, and each direction's request is armed exactly once, whatever the
\* sizes of the groups.
THEOREM SessionOwns == Spec => []RequestsAndBuffers
  BY AlwaysSessionInv, InvShares, PTL

\* And a cooldown of the transmitter can always end, with two buffers or more;
\* the program creates 4096.
THEOREM SessionShares == tx_queue_length >= 2 => (Spec => []OwnershipShared)
<1> SUFFICES ASSUME tx_queue_length >= 2 PROVE Spec => []OwnershipShared
  OBVIOUS
<1>1. SessionInv => OwnershipShared
  BY InvShares DEF RequestsAndBuffers, OwnershipShared
<1> QED BY <1>1, AlwaysSessionInv, PTL

-----------------------------------------------------------------------------
(* The monitor's TIMEOUT *)

\* Once run() loops with a monitor, its TIMEOUT is with the kernel or its one
\* completion waits; before that, and without a monitor, there is none.
OneTimeout ==
    /\ Queued
    /\ timing \in BOOLEAN
    /\ phase = "arm_timeout" => monitor_mode
    /\ phase = "loop" /\ monitor_mode =>
          \/ timing /\ MonitorQueue = <<>>
          \/ ~timing /\ \E cqe : MonitorQueue = <<cqe>>
    /\ ~(phase = "loop" /\ monitor_mode) => ~timing /\ MonitorQueue = <<>>

MonitorInv == run_result = "None" /\ ~TimeoutMultishot => OneTimeout

\* The handlers and the kernel's work for the halves are nothing to it.
LEMMA HalvesLeaveTimeout ==
    ASSUME OneTimeout, UNCHANGED own_vars,
           cq' = cq \/ (\E types : "TIMEOUT" \notin types /\ (Taken(types) \/ Posted(types)))
    PROVE  OneTimeout'
<1>1. Queued' /\ MonitorQueue' = MonitorQueue
  <2>1. CASE cq' = cq
    BY <2>1 DEF OneTimeout, Queued, MonitorQueue
  <2>2. ASSUME NEW types, "TIMEOUT" \notin types, Taken(types) \/ Posted(types)
        PROVE  Queued' /\ MonitorQueue' = MonitorQueue
    <3>1. {"TIMEOUT"} \cap types = {} /\ Queued
      BY <2>2 DEF OneTimeout
    <3> QED BY <2>2, <3>1, TakenOwn, TakenOther, PostedOther DEF MonitorQueue
  <2> QED BY <2>1, <2>2
<1>2. phase' = phase /\ timing' = timing
  BY DEF own_vars
<1> QED BY <1>1, <1>2 DEF OneTimeout

\* What a TIMEOUT that is not multishot does to it.
LEMMA TimeoutSteps ==
    ASSUME OneTimeout, ~TimeoutMultishot, run_result = "None", run_result' = "None",
           Tick \/ \E more \in BOOLEAN : (more => TimeoutMultishot) /\ KernelTick(more)
    PROVE  OneTimeout'
<1>0. timing \in BOOLEAN /\ Queued
  BY DEF OneTimeout
<1>1. phase' = phase
  BY DEF Tick, KernelTick
<1>2. CASE Tick
  <2>1. /\ phase = "loop" /\ cq # <<>> /\ cq' = Tail(cq)
        /\ run_result' \in TickResults(Head(cq).type)
        /\ timing' = (timing \/ (Rearms(Head(cq).type) /\ run_result' = "None"))
    BY <1>2 DEF Tick, Waiting
  <2>2. CASE Head(cq).type = "TIMEOUT"
    <3>1. monitor_mode
      BY <2>1, <2>2 DEF TickResults
    <3>2. timing'
      BY <2>1, <2>2, <3>1 DEF Rearms
    <3>3. timing' \in BOOLEAN
      BY <2>1, Zenon
    <3>4. MonitorQueue # <<>> /\ MonitorQueue' = Tail(MonitorQueue) /\ Queued'
      BY <1>0, <2>1, <2>2, TakenOwn DEF Taken, MonitorQueue
    <3>5. PICK cqe : MonitorQueue = <<cqe>>
      BY <2>1, <3>1, <3>4 DEF OneTimeout
    <3>6. MonitorQueue' = <<>>
      BY <3>4, <3>5
    <3> QED BY <1>1, <2>1, <3>1, <3>2, <3>3, <3>4, <3>6 DEF OneTimeout
  <2>3. CASE Head(cq).type # "TIMEOUT"
    <3>1. timing' = timing
      BY <1>0, <2>1, <2>3, Zenon DEF Rearms
    <3> DEFINE other == {Head(cq).type}
    <3>2. Taken(other) /\ {"TIMEOUT"} \cap other = {}
      BY <2>1, <2>3 DEF Taken
    <3> HIDE DEF other
    <3>3. MonitorQueue' = MonitorQueue /\ Queued'
      BY <1>0, <3>2, TakenOwn, TakenOther DEF MonitorQueue
    <3> QED BY <1>1, <3>1, <3>3 DEF OneTimeout
  <2> QED BY <2>2, <2>3
<1>3. CASE \E more \in BOOLEAN : (more => TimeoutMultishot) /\ KernelTick(more)
  <2>1. timing /\ timing' = FALSE /\ cq' = Append(cq, Cqe("TIMEOUT", -ETIME, NoBid, FALSE))
    BY <1>3 DEF KernelTick
  <2>2. MonitorQueue = <<>> /\ phase = "loop" /\ monitor_mode
    BY <2>1 DEF OneTimeout
  <2> DEFINE cqe == Cqe("TIMEOUT", -ETIME, NoBid, FALSE)
  <2>3. cqe.type \in {"TIMEOUT"}
    BY DEF Cqe
  <2> HIDE DEF cqe
  <2>4. cq' = Append(cq, cqe)
    BY <2>1 DEF cqe
  <2>5. MonitorQueue' = Append(MonitorQueue, cqe) /\ Queued'
    BY <1>0, <2>3, <2>4, PostedOwn DEF MonitorQueue
  <2>6. MonitorQueue' = <<cqe>>
    BY <2>2, <2>5
  <2> QED BY <1>1, <2>1, <2>2, <2>5, <2>6 DEF OneTimeout
<1> QED BY <1>2, <1>3

\* Every step of a session that goes on.
LEMMA NextTimeout ==
    ASSUME OneTimeout, ~TimeoutMultishot, run_result = "None", run_result' = "None",
           [Next]_vars
    PROVE  OneTimeout'
<1>0. "TIMEOUT" \notin TxTypes /\ "TIMEOUT" \notin RxTypes
  BY TypesApart
<1>1. CASE UNCHANGED vars
  BY <1>1, HalvesLeaveTimeout DEF vars
<1>2. CASE ArmRecv \/ ArmRead \/ FirstPrint \/ ArmTimeout
  <2>1. cq' = cq /\ timing \in BOOLEAN /\ Queued
    BY <1>2 DEF ArmRecv, ArmRead, FirstPrint, ArmTimeout, Start, OneTimeout
  <2>2. MonitorQueue' = MonitorQueue /\ Queued'
    BY <2>1 DEF MonitorQueue, Queued
  <2>3. phase # "loop" /\ ~timing /\ MonitorQueue = <<>>
    BY <1>2 DEF ArmRecv, ArmRead, FirstPrint, ArmTimeout, Start, OneTimeout
  <2>4. CASE ArmTimeout
    <3>1. phase = "arm_timeout" /\ phase' = "loop" /\ timing' = TRUE
      BY <2>4 DEF ArmTimeout, Start
    <3>2. monitor_mode
      BY <3>1 DEF OneTimeout
    <3> QED BY <2>2, <2>3, <3>1, <3>2 DEF OneTimeout
  <2>5. CASE ArmRecv \/ ArmRead \/ FirstPrint
    <3>1. timing' = timing /\ phase' \in {"arm_read", "print", "arm_timeout", "loop"}
          /\ (phase' = "arm_timeout" => monitor_mode) /\ (phase' = "loop" => ~monitor_mode)
      BY <2>5 DEF ArmRecv, ArmRead, FirstPrint, Start
    <3> QED BY <2>1, <2>2, <2>3, <3>1 DEF OneTimeout
  <2> QED BY <1>2, <2>4, <2>5
<1>3. CASE Transmit \/ KernelTransmit
  <2>1. UNCHANGED own_vars /\ (Taken(TxTypes) \/ Posted(TxTypes))
    BY <1>3, TxHandlersTake, TxKernelPosts DEF Transmit, KernelTransmit
  <2> QED BY <1>0, <2>1, HalvesLeaveTimeout
<1>4. CASE Receive \/ KernelReceive
  <2>1. UNCHANGED own_vars /\ (cq' = cq \/ Taken(RxTypes) \/ Posted(RxTypes))
    BY <1>4, RxHandlersTake, RxKernelPosts DEF Receive, KernelReceive
  <2> QED BY <1>0, <2>1, HalvesLeaveTimeout
<1>5. ~WaitFailed
  BY DEF WaitFailed
<1> QED BY <1>1, <1>2, <1>3, <1>4, <1>5, TimeoutSteps DEF Next, Run

\* Where TIMEOUT is not multishot, Monitor::handle_cqe arms the next one when it
\* handles the one before and never otherwise, whatever the two directions do
\* meanwhile: the statistics of a session that goes on neither stop nor double.
THEOREM TimeoutNeverLost == Spec => []MonitorArmedOnce
<1>1. Init => MonitorInv
  <2> SUFFICES ASSUME Init PROVE OneTimeout
    BY DEF MonitorInv
  <2>1. phase = "arm_recv" /\ timing = FALSE /\ cq = <<>>
    BY DEF Init, transmitter_!Created
  <2>2. cq \in Seq({}) /\ MonitorQueue = <<>>
    BY <2>1, Lists!ChosenEmpty, Assumptions DEF MonitorQueue
  <2> QED BY <2>1, <2>2 DEF OneTimeout, Queued
<1>2. MonitorInv /\ [Next]_vars => MonitorInv'
  BY GoesOn, NextTimeout DEF MonitorInv
<1>3. MonitorInv => MonitorArmedOnce
  <2> SUFFICES ASSUME OneTimeout, phase = "loop", monitor_mode
               PROVE  timing = (\A i \in DOMAIN cq : cq[i].type # "TIMEOUT")
    BY DEF MonitorInv, MonitorArmedOnce
  <2>1. PICK S : cq \in Seq(S)
    BY DEF OneTimeout, Queued
  <2>2. PICK place : Lists!ChosenAt(place, cq, {"TIMEOUT"})
    BY <2>1, Lists!ChosenPlaces, Assumptions
  <2>3. /\ \A i \in DOMAIN MonitorQueue :
              place[i] \in DOMAIN cq /\ cq[place[i]].type = "TIMEOUT"
        /\ \A k \in DOMAIN cq : cq[k].type = "TIMEOUT" => DOMAIN MonitorQueue # {}
    BY <2>2 DEF Lists!ChosenAt, MonitorQueue
  <2>4. CASE timing /\ MonitorQueue = <<>>
    BY <2>3, <2>4 DEF OneTimeout
  <2>5. CASE ~timing /\ \E cqe : MonitorQueue = <<cqe>>
    <3>1. 1 \in DOMAIN MonitorQueue
      BY <2>5
    <3>2. timing = FALSE
      BY <2>5 DEF OneTimeout
    <3> QED BY <2>3, <3>1, <3>2
  <2> QED BY <2>4, <2>5 DEF OneTimeout
<1> QED BY <1>1, <1>2, <1>3, PTL DEF Spec

=============================================================================
