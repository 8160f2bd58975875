------------------------- MODULE TransmitterProofs -------------------------
(***************************************************************************)
(* Proofs about the transmitter's types, its two requests and its buffers, *)
(* for every buffer count, MTU and header size: the SEND is never doubled  *)
(* and never forgotten while a frame is queued, the READ is never lost or  *)
(* armed twice, no buffer is leaked or returned twice, and a cooldown      *)
(* always finds a SEND under way that will end it.  Then about what it     *)
(* puts on the wire: the frames of the packets it read, byte for byte and  *)
(* in order; and that the errors kept for broken invariants never end the  *)
(* session.                                                                *)
(***************************************************************************)
EXTENDS Transmitter, StreamLemmas

-----------------------------------------------------------------------------
(* Types *)

Cqes == ReadCqes \cup ReadErrorCqes \cup SendDoneCqes

\* The checksum of a buffer's bytes is a pair of naturals.
LEMMA CrcType ==
    ASSUME mem \in [Bids -> Nat], NEW frame \in Frames
    PROVE  crc32c(Payload(frame.bid, frame.size)) \in Nat \X Nat
<1> DEFINE p == Payload(frame.bid, frame.size)
<1>1. frame.bid \in Bids /\ frame.size \in Nat /\ frame.size >= 1
  BY TransmitterAssumption DEF Frames
<1>2. mem[frame.bid] \in Nat
  BY <1>1
<1>3. p \in [1..frame.size -> [packet : Nat, at : Nat]]
  BY <1>1, <1>2 DEF Payload, PayloadByte
<1>4. Len(p) \in Nat /\ p[1].packet \in Nat
  <2> HIDE DEF p
  <2> QED BY <1>1, <1>3, FunctionIsSeq
<1>5. ASSUME NEW bytes, Len(bytes) \in Nat, bytes[1].packet \in Nat
      PROVE  crc32c(bytes) \in Nat \X Nat
  BY <1>5 DEF crc32c
<1> QED BY <1>4, <1>5

\* The iovecs of what is left of a frame are one or two.
LEMMA SegmentsType ==
    ASSUME NEW state, state.bytes_sent \in Nat, state.frame \in Frames,
           state.bytes_sent < Total(state)
    PROVE  Segments(state) \in [1..1 -> Segment] \cup [1..2 -> Segment]
<1>1. wire_size \in Nat /\ state.frame.size \in Nat
  BY WireSizeAssumption, TransmitterAssumption DEF Frames
<1>2. CASE state.bytes_sent < wire_size
  <2> DEFINE h == [part |-> "header", from |-> state.bytes_sent,
                   len |-> wire_size - state.bytes_sent]
             l == [part |-> "payload", from |-> 0, len |-> state.frame.size]
  <2>1. h \in Segment /\ l \in Segment
    BY <1>1, <1>2 DEF Segment
  <2>2. Segments(state) = <<h, l>>
    BY <1>2 DEF Segments
  <2> HIDE DEF h, l
  <2> QED BY <2>1, <2>2
<1>3. CASE ~(state.bytes_sent < wire_size)
  <2> DEFINE l == [part |-> "payload", from |-> state.bytes_sent - wire_size,
                   len |-> state.frame.size - (state.bytes_sent - wire_size)]
  <2>1. l \in Segment
    BY <1>1, <1>3 DEF Segment, Total
  <2>2. Segments(state) = <<l>>
    BY <1>3 DEF Segments
  <2> HIDE DEF l
  <2> QED BY <2>1, <2>2
<1> QED BY <1>2, <1>3

\* A new frame state, and one whose iovecs are set, have their type.
LEMMA FrameStateType ==
    ASSUME mem \in [Bids -> Nat], NEW queue \in Seq(Frames), queue # <<>>,
           NEW state \in FrameStates \cup {nullopt},
           NEW next, next = FrameToSend(queue, state),
           next.bytes_sent < Total(next)
    PROVE  /\ [next EXCEPT !.segments = Segments(next)] \in FrameStates
           /\ next.frame = IF state = nullopt THEN Head(queue) ELSE state.frame
<1>1. Head(queue) \in Frames
  BY TailFacts
<1>2. next \in [frame : Frames,
                header : [magic : {TRUE}, size : 1..mtu, crc : Nat \X Nat],
                bytes_sent : Nat,
                segments : {<<>>} \cup ([1..1 -> Segment] \cup [1..2 -> Segment])]
      /\ next.frame = IF state = nullopt THEN Head(queue) ELSE state.frame
  <2>1. CASE state = nullopt
    <3> DEFINE f == Head(queue)
               c == crc32c(Payload(f.bid, f.size))
    <3>1. c \in Nat \X Nat
      BY <1>1, CrcType
    <3>2. next = [frame |-> f, header |-> [magic |-> TRUE, size |-> f.size, crc |-> c],
                  bytes_sent |-> 0, segments |-> <<>>]
      BY <2>1 DEF FrameToSend, NewFrameState, nullopt, create_frame_header_, FrameHeader
    <3>3. f.size \in 1..mtu
      BY <1>1 DEF Frames
    <3> HIDE DEF f, c
    <3> QED BY <1>1, <3>1, <3>2, <3>3, <2>1 DEF f
  <2>2. CASE state # nullopt
    BY <2>2 DEF FrameToSend, FrameStates
  <2> QED BY <2>1, <2>2
<1>3. Segments(next) \in [1..1 -> Segment] \cup [1..2 -> Segment]
  BY <1>2, SegmentsType
<1> QED BY <1>2, <1>3 DEF FrameStates

\* No frame state is nullopt: nullopt names no buffer.
LEMMA NulloptFacts ==
    /\ \A state \in FrameStates : state # nullopt
    /\ nullopt \notin FrameStates
<1>1. nullopt.frame.bid = NoBid
  BY DEF nullopt
<1>2. NoBid \notin Bids
  BY TransmitterAssumption DEF NoBid, Bids
<1>3. \A state \in FrameStates : state.frame.bid \in Bids
  BY DEF FrameStates, Frames
<1> QED BY <1>1, <1>2, <1>3

\* kick_send_ keeps the types, and the frame it sends is the oldest queued one.
LEMMA KickType ==
    ASSUME mem \in [Bids -> Nat], sending \in BOOLEAN,
           NEW queue \in Seq(Frames),
           NEW state \in FrameStates \cup {nullopt},
           state # nullopt => queue # <<>> /\ Head(queue) = state.frame,
           NEW in_progress \in BOOLEAN,
           kick_send_(queue, state, in_progress)
    PROVE  /\ current_frame_state_' \in FrameStates \cup {nullopt}
           /\ send_in_progress_' \in BOOLEAN
           /\ sending' \in BOOLEAN
           /\ run_result' \in Results
           /\ current_frame_state_' # nullopt
                => queue # <<>> /\ Head(queue) = current_frame_state_'.frame
<1>1. CASE in_progress \/ queue = <<>>
  BY <1>1 DEF kick_send_, Results
<1>2. CASE ~(in_progress \/ queue = <<>>)
  <2> DEFINE next == FrameToSend(queue, state)
  <2>1. PICK result \in SendResults(state, next) :
          /\ current_frame_state_' = IF result \in SubmitResults(TRUE)
                                     THEN [next EXCEPT !.segments = Segments(next)]
                                     ELSE state
          /\ send_in_progress_' = (result = "None")
          /\ sending' = (result = "None")
          /\ run_result' = result
    BY <1>2, Zenon DEF kick_send_
  <2> HIDE DEF next
  <2>2. result \in Results
    BY <2>1 DEF SendResults, SubmitResults, FrameFailure, get_buffer, Results
  <2>3. CASE result \in SubmitResults(TRUE)
    <3>1. next.bytes_sent < Total(next)
      <4>1. FrameFailure(next) = "None"
        BY <2>1, <2>3 DEF SendResults, SubmitResults, FrameFailure, get_buffer
      <4>2. ~(next.bytes_sent >= Total(next))
        BY <4>1 DEF FrameFailure
      <4>3. Head(queue) \in Frames
        BY <1>2, TailFacts
      <4>4. next.bytes_sent \in Int /\ Total(next) \in Int
        <5>1. next.bytes_sent \in Int /\ next.frame \in Frames
          <6>1. CASE state = nullopt
            <7>1. next.bytes_sent = 0 /\ next.frame = Head(queue)
              BY <6>1 DEF next, FrameToSend, NewFrameState, nullopt
            <7> QED BY <4>3, <7>1
          <6>2. CASE state # nullopt
            <7>1. state \in FrameStates /\ next = state
              BY <6>2 DEF next, FrameToSend
            <7>2. state.bytes_sent \in Int /\ state.frame \in Frames
              BY <7>1 DEF FrameStates
            <7> QED BY <7>1, <7>2
          <6> QED BY <6>1, <6>2
        <5> QED BY <5>1, WireSizeAssumption, TransmitterAssumption DEF Frames, Total
      <4> QED BY <4>2, <4>4
    <3>2. /\ [next EXCEPT !.segments = Segments(next)] \in FrameStates
          /\ next.frame = IF state = nullopt THEN Head(queue) ELSE state.frame
      BY <1>2, <3>1, FrameStateType DEF next
    <3>3. current_frame_state_'.frame = next.frame
      BY <2>1, <2>3, <3>2 DEF FrameStates
    <3> QED BY <1>2, <2>1, <2>2, <2>3, <3>2, <3>3
  <2>4. CASE result \notin SubmitResults(TRUE)
    BY <1>2, <2>1, <2>2, <2>4
  <2> QED BY <2>3, <2>4
<1> QED BY <1>1, <1>2

-----------------------------------------------------------------------------
(* The type invariant *)

TypeInv == TypeOK /\ CurrentIsOldest

\* A completion's class is known by its type and its result.
LEMMA CqeFacts ==
    ASSUME NEW cqe \in Cqes
    PROVE  /\ cqe.type = "READ" /\ ok(cqe) => cqe \in ReadCqes
           /\ cqe.type = "SEND" => cqe \in SendDoneCqes
           /\ cqe.result \in Int /\ cqe.more \in BOOLEAN
<1>1. CASE cqe \in ReadCqes
  BY <1>1, TransmitterAssumption DEF ReadCqes
<1>2. CASE cqe \in ReadErrorCqes
  <2>1. cqe.type = "READ" /\ cqe.result \in {-105, -5}
    BY <1>2 DEF ReadErrorCqes, ENOBUFS, EIO
  <2>2. cqe.result \in Int /\ ~ok(cqe)
    BY <2>1 DEF ok
  <2>3. cqe.more \in BOOLEAN
    BY <1>2 DEF ReadErrorCqes
  <2> QED BY <2>1, <2>2, <2>3
<1>3. CASE cqe \in SendDoneCqes
  <2>1. cqe.type = "SEND" /\ cqe.result \in {-5} \cup 1..(wire_size + mtu)
    BY <1>3 DEF SendDoneCqes, EIO
  <2>2. cqe.result \in Int
    BY <2>1, WireSizeAssumption, TransmitterAssumption
  <2>3. cqe.more \in BOOLEAN
    BY <1>3 DEF SendDoneCqes
  <2> QED BY <1>3, <2>1, <2>2, <2>3
<1> QED BY <1>1, <1>2, <1>3 DEF Cqes

\* The types hold at the start.
LEMMA InitTypeInv == Init => TypeInv
<1> SUFFICES ASSUME Init PROVE TypeInv
  OBVIOUS
<1>1. create_buffer_group(BufferCount) \in [1..BufferCount -> Bids]
  BY TransmitterAssumption DEF create_buffer_group, Bids
<1>2. br_ \in Seq(Bids)
  BY <1>1, TransmitterAssumption, FunctionIsSeq DEF Init, Created
<1>3. /\ frame_queue_ \in Seq(Frames) /\ cq \in Seq(Cqes) /\ tun_rx \in Seq(1..mtu)
      /\ current_frame_state_ \in FrameStates \cup {nullopt}
  BY DEF Init, Created
<1>4. mem \in [Bids -> Nat] /\ run_result \in Results
  BY DEF Init, Created, Results
<1>5. CurrentIsOldest
  BY DEF Init, Created, CurrentIsOldest
<1>6. /\ cooling_down_ \in BOOLEAN /\ send_in_progress_ \in BOOLEAN
      /\ reading \in BOOLEAN /\ sending \in BOOLEAN
  BY DEF Init, Created
<1> QED BY <1>2, <1>3, <1>4, <1>5, <1>6 DEF TypeInv, TypeOK, Cqes

\* What a send completion leaves is typed, and a frame still under way is the
\* oldest one.
LEMMA AfterSendType ==
    ASSUME TypeInv, NEW sent \in Nat, current_frame_state_ # nullopt
    PROVE  LET after == AfterSend(sent)
           IN  /\ after.queue \in Seq(Frames)
               /\ after.br \in Seq(Bids)
               /\ after.state \in FrameStates \cup {nullopt}
               /\ after.state # nullopt
                    => after.queue # <<>> /\ Head(after.queue) = after.state.frame
<1> DEFINE state == [current_frame_state_ EXCEPT !.bytes_sent = @ + sent]
<1>1. current_frame_state_ \in FrameStates
  BY DEF TypeInv, TypeOK
<1>2. state \in FrameStates /\ state.frame = current_frame_state_.frame
  <2>1. current_frame_state_.bytes_sent + sent \in Nat
    BY <1>1 DEF FrameStates
  <2>2. state = [current_frame_state_ EXCEPT !.bytes_sent
                   = current_frame_state_.bytes_sent + sent]
    OBVIOUS
  <2> QED BY <1>1, <2>1, <2>2 DEF FrameStates
<1>3. frame_queue_ \in Seq(Frames) /\ frame_queue_ # <<>>
      /\ Head(frame_queue_) = current_frame_state_.frame
  BY DEF TypeInv, TypeOK, CurrentIsOldest
<1>4. Tail(frame_queue_) \in Seq(Frames)
  BY <1>3, TailFacts
<1>5. state.frame.bid \in Bids
  BY <1>2 DEF FrameStates, Frames
<1>6. return_buffer(br_, state.frame.bid) \in Seq(Bids)
  BY <1>5, AppendFacts DEF return_buffer, TypeInv, TypeOK
<1>7. AfterSend(sent) =
        IF state.bytes_sent = Total(state)
        THEN [state |-> nullopt, queue |-> Tail(frame_queue_),
              br |-> return_buffer(br_, state.frame.bid)]
        ELSE [state |-> state, queue |-> frame_queue_, br |-> br_]
  BY DEF AfterSend
<1>8. br_ \in Seq(Bids)
  BY DEF TypeInv, TypeOK
<1> HIDE DEF state
<1> QED BY <1>2, <1>3, <1>4, <1>6, <1>7, <1>8

\* Every step keeps the types; one case per action.
LEMMA NextTypeInv == TypeInv /\ [Next]_vars => TypeInv'
<1> SUFFICES ASSUME TypeInv, [Next]_vars PROVE TypeInv'
  OBVIOUS
<1> USE DEF TypeInv
<1>0. /\ frame_queue_ \in Seq(Frames)
      /\ current_frame_state_ \in FrameStates \cup {nullopt}
      /\ mem \in [Bids -> Nat] /\ sending \in BOOLEAN
      /\ send_in_progress_ \in BOOLEAN
      /\ current_frame_state_ # nullopt
           => frame_queue_ # <<>> /\ Head(frame_queue_) = current_frame_state_.frame
  BY DEF TypeOK, CurrentIsOldest
<1>h. ASSUME NEW type, Handles(type)
      PROVE  /\ cq' \in Seq(Cqes) /\ Head(cq) \in Cqes /\ Head(cq).type = type
             /\ mem' \in [Bids -> Nat] /\ tun_rx' \in Seq(1..mtu)
  BY <1>h, TailFacts DEF Handles, TypeOK, Cqes
<1>1. CASE ReadNoBuffers
  <2>1. cq' \in Seq(Cqes) /\ mem' \in [Bids -> Nat] /\ tun_rx' \in Seq(1..mtu)
    BY <1>1, <1>h DEF ReadNoBuffers
  <2>2. kick_send_(frame_queue_, current_frame_state_, send_in_progress_)
    BY <1>1 DEF ReadNoBuffers
  <2>3. /\ current_frame_state_' \in FrameStates \cup {nullopt}
        /\ send_in_progress_' \in BOOLEAN /\ sending' \in BOOLEAN
        /\ run_result' \in Results
        /\ current_frame_state_' # nullopt
             => frame_queue_ # <<>> /\ Head(frame_queue_) = current_frame_state_'.frame
    BY <1>0, <2>2, KickType
  <2> QED BY <1>1, <2>1, <2>3 DEF ReadNoBuffers, TypeOK, CurrentIsOldest, Cqes
<1>2. CASE ReadFailed
  <2>1. cq' \in Seq(Cqes) /\ mem' \in [Bids -> Nat] /\ tun_rx' \in Seq(1..mtu)
    BY <1>2, <1>h DEF ReadFailed
  <2> QED BY <1>2, <2>1 DEF ReadFailed, own_vars, TypeOK, CurrentIsOldest, Cqes, Results
<1>3. CASE ReadPacket
  <2> DEFINE cqe == Head(cq)
             frame == [bid |-> cqe.bid, size |-> cqe.result]
             queue == Append(frame_queue_, frame)
  <2>1. /\ cq' \in Seq(Cqes) /\ mem' \in [Bids -> Nat] /\ tun_rx' \in Seq(1..mtu)
        /\ cqe \in ReadCqes
    BY <1>3, <1>h, CqeFacts DEF ReadPacket
  <2>2. frame \in Frames /\ cqe.bid # NoBid
    BY <2>1, TransmitterAssumption DEF ReadCqes, Frames, Bids, NoBid
  <2>3. /\ queue \in Seq(Frames) /\ queue # <<>>
        /\ frame_queue_ # <<>> => Head(queue) = Head(frame_queue_)
    BY <1>0, <2>2, AppendFacts
  <2>4. /\ frame_queue_' = queue
        /\ reading' = (reading \/ MustRearm(cqe))
        /\ kick_send_(queue, current_frame_state_, send_in_progress_)
        /\ UNCHANGED <<cooling_down_, br_>>
    BY <1>3, <2>2 DEF ReadPacket
  <2> HIDE DEF queue, cqe
  <2>5. /\ current_frame_state_' \in FrameStates \cup {nullopt}
        /\ send_in_progress_' \in BOOLEAN /\ sending' \in BOOLEAN
        /\ run_result' \in Results
        /\ current_frame_state_' # nullopt
             => queue # <<>> /\ Head(queue) = current_frame_state_'.frame
    BY <1>0, <2>3, <2>4, KickType
  <2> QED BY <2>1, <2>3, <2>4, <2>5 DEF TypeOK, CurrentIsOldest, Cqes
<1>4. CASE ReadRearmFailed
  <2> DEFINE frame == [bid |-> Head(cq).bid, size |-> Head(cq).result]
  <2>1. /\ cq' \in Seq(Cqes) /\ mem' \in [Bids -> Nat] /\ tun_rx' \in Seq(1..mtu)
        /\ Head(cq) \in ReadCqes
    BY <1>4, <1>h, CqeFacts DEF ReadRearmFailed
  <2>2. frame \in Frames
    BY <2>1 DEF ReadCqes, Frames
  <2>3. frame_queue_' \in Seq(Frames) /\ frame_queue_' # <<>>
        /\ (frame_queue_ # <<>> => Head(frame_queue_') = Head(frame_queue_))
    BY <1>0, <1>4, <2>2, AppendFacts DEF ReadRearmFailed
  <2>4. run_result' \in Results
    BY <1>4 DEF ReadRearmFailed, SubmitResults, Results
  <2> QED BY <1>4, <2>1, <2>3, <2>4 DEF ReadRearmFailed, TypeOK, CurrentIsOldest, Cqes
<1>5. CASE ReadNoMemory
  <2>1. /\ cq' \in Seq(Cqes) /\ mem' \in [Bids -> Nat] /\ tun_rx' \in Seq(1..mtu)
        /\ Head(cq) \in ReadCqes
    BY <1>5, <1>h, CqeFacts DEF ReadNoMemory
  <2>2. Head(cq).bid \in Bids
    BY <2>1 DEF ReadCqes
  <2>3. br_' \in Seq(Bids)
    BY <1>5, <2>2, AppendFacts DEF ReadNoMemory, return_buffer, TypeOK
  <2> QED BY <1>5, <2>1, <2>3
      DEF ReadNoMemory, own_vars, TypeOK, CurrentIsOldest, Cqes, Results
<1>6. CASE SendFailed
  <2>1. cq' \in Seq(Cqes) /\ mem' \in [Bids -> Nat] /\ tun_rx' \in Seq(1..mtu)
    BY <1>6, <1>h DEF SendFailed
  <2>2. run_result' \in Results
    BY <1>6 DEF SendFailed, SendFailure, Results
  <2> QED BY <1>6, <2>1, <2>2 DEF SendFailed, TypeOK, CurrentIsOldest, Cqes
<1>7. CASE SendDone
  <2> DEFINE after == AfterSend(Head(cq).result)
  <2>1. /\ cq' \in Seq(Cqes) /\ mem' \in [Bids -> Nat] /\ tun_rx' \in Seq(1..mtu)
        /\ Head(cq) \in Cqes
    BY <1>7, <1>h DEF SendDone
  <2>2. Head(cq).result \in Nat /\ current_frame_state_ # nullopt
    BY <1>7, <2>1, CqeFacts DEF SendDone, SendFailure, ok
  <2>3. /\ after.queue \in Seq(Frames) /\ after.br \in Seq(Bids)
        /\ after.state \in FrameStates \cup {nullopt}
        /\ after.state # nullopt
             => after.queue # <<>> /\ Head(after.queue) = after.state.frame
    BY <2>2, AfterSendType
  <2>4. /\ frame_queue_' = after.queue /\ br_' = after.br
        /\ reading' \in BOOLEAN /\ cooling_down_' \in BOOLEAN
        /\ kick_send_(after.queue, after.state, FALSE)
    BY <1>7 DEF SendDone, TypeOK
  <2> HIDE DEF after
  <2>5. /\ current_frame_state_' \in FrameStates \cup {nullopt}
        /\ send_in_progress_' \in BOOLEAN /\ sending' \in BOOLEAN
        /\ run_result' \in Results
        /\ current_frame_state_' # nullopt
             => after.queue # <<>> /\ Head(after.queue) = current_frame_state_'.frame
    BY <1>0, <2>3, <2>4, KickType
  <2> QED BY <2>1, <2>3, <2>4, <2>5 DEF TypeOK, CurrentIsOldest, Cqes
<1>8. CASE SendRearmFailed
  <2> DEFINE after == AfterSend(Head(cq).result)
  <2>1. /\ cq' \in Seq(Cqes) /\ mem' \in [Bids -> Nat] /\ tun_rx' \in Seq(1..mtu)
        /\ Head(cq) \in Cqes
    BY <1>8, <1>h DEF SendRearmFailed
  <2>2. Head(cq).result \in Nat /\ current_frame_state_ # nullopt
    BY <1>8, <2>1, CqeFacts DEF SendRearmFailed, SendFailure, ok
  <2>3. /\ after.queue \in Seq(Frames) /\ after.br \in Seq(Bids)
        /\ after.state \in FrameStates \cup {nullopt}
        /\ after.state # nullopt
             => after.queue # <<>> /\ Head(after.queue) = after.state.frame
    BY <2>2, AfterSendType
  <2>4. run_result' \in Results
    BY <1>8 DEF SendRearmFailed, SubmitResults, Results
  <2> HIDE DEF after
  <2>5. /\ frame_queue_' = after.queue /\ br_' = after.br
        /\ current_frame_state_' = after.state
    BY <1>8 DEF SendRearmFailed, after
  <2> QED BY <1>8, <2>1, <2>3, <2>4, <2>5 DEF SendRearmFailed, TypeOK, CurrentIsOldest, Cqes
<1>9. ASSUME NEW size \in 1..mtu, NEW more \in BOOLEAN, KernelRead(size, more)
      PROVE  TypeInv'
  <2>1. br_ \in Seq(Bids) /\ br_ # <<>> /\ tun_rx \in Seq(1..mtu)
    BY <1>9 DEF KernelRead, TypeOK
  <2>2. Head(br_) \in Bids /\ br_' \in Seq(Bids)
    BY <1>9, <2>1, TailFacts DEF KernelRead
  <2>3. Cqe("READ", size, Head(br_), more) \in Cqes
    BY <2>2 DEF Cqes, ReadCqes, Cqe
  <2>4. cq' \in Seq(Cqes)
    BY <1>9, <2>3, AppendFacts DEF KernelRead, TypeOK, Cqes
  <2>5. tun_rx' \in Seq(1..mtu) /\ Len(tun_rx) \in Nat
    BY <1>9, <2>1, AppendFacts DEF KernelRead
  <2>6. mem' \in [Bids -> Nat]
    BY <1>9, <1>0, <2>2, <2>5 DEF KernelRead
  <2> QED BY <1>9, <2>2, <2>4, <2>5, <2>6
      DEF KernelRead, KernelStep, own_vars, TypeOK, CurrentIsOldest, Cqes
<1>10. CASE KernelReadNoBuffers
  <2>1. cq' \in Seq(Cqes)
    BY <1>10, AppendFacts DEF KernelReadNoBuffers, TypeOK, Cqes, ReadErrorCqes, Cqe
  <2> QED BY <1>10, <2>1 DEF KernelReadNoBuffers, KernelStep, own_vars, TypeOK,
                             CurrentIsOldest, Cqes
<1>11. CASE KernelReadError
  <2>1. cq' \in Seq(Cqes)
    BY <1>11, AppendFacts DEF KernelReadError, TypeOK, Cqes, ReadErrorCqes, Cqe
  <2> QED BY <1>11, <2>1 DEF KernelReadError, KernelStep, own_vars, TypeOK,
                             CurrentIsOldest, Cqes
<1>12. ASSUME NEW n \in 1..(wire_size + mtu), KernelSend(n) PROVE TypeInv'
  <2>1. cq' \in Seq(Cqes)
    BY <1>12, AppendFacts DEF KernelSend, TypeOK, Cqes, SendDoneCqes, Cqe
  <2> QED BY <1>12, <2>1 DEF KernelSend, KernelStep, own_vars, TypeOK,
                             CurrentIsOldest, Cqes
<1>13. CASE KernelSendError
  <2>1. cq' \in Seq(Cqes)
    BY <1>13, AppendFacts DEF KernelSendError, TypeOK, Cqes, SendDoneCqes, Cqe
  <2> QED BY <1>13, <2>1 DEF KernelSendError, KernelStep, own_vars, TypeOK,
                             CurrentIsOldest, Cqes
<1>14. CASE UNCHANGED vars
  BY <1>14 DEF vars, own_vars, kernel_vars, TypeOK, CurrentIsOldest
<1> QED BY <1>1, <1>2, <1>3, <1>4, <1>5, <1>6, <1>7, <1>8, <1>9, <1>10, <1>11,
           <1>12, <1>13, <1>14 DEF Next, Handle, Kernel

\* In every state every variable has its type and the frame being sent is the
\* oldest queued one, so handle_send_cqe_ pops the frame it has sent.
THEOREM TransmitterTypes == Spec => [](TypeOK /\ CurrentIsOldest)
<1> QED BY InitTypeInv, NextTypeInv, PTL DEF Spec, TypeInv

-----------------------------------------------------------------------------
(* What a step does to the completion queue *)

\* A handler takes the oldest completion.
LEMMA HandledCqe ==
    ASSUME TypeInv, NEW type, Handles(type)
    PROVE  /\ Running
           /\ Len(cq) \in Nat /\ Len(cq) >= 1
           /\ DOMAIN cq = 1..Len(cq)
           /\ DOMAIN cq' = 1..(Len(cq) - 1)
           /\ \A i \in 1..(Len(cq) - 1) : cq'[i] = cq[i + 1]
           /\ Head(cq) = cq[1] /\ cq[1] \in Cqes /\ cq[1].type = type
<1>1. cq \in Seq(Cqes) /\ cq # <<>> /\ cq' = Tail(cq) /\ Head(cq).type = type
      /\ Running
  BY DEF Handles, TypeInv, TypeOK, Cqes, Running
<1> QED BY <1>1, TailFacts

\* The kernel posts a completion behind all others.
LEMMA PostedCqe ==
    ASSUME TypeInv, NEW cqe \in Cqes, cq' = Append(cq, cqe)
    PROVE  /\ Len(cq) \in Nat
           /\ DOMAIN cq = 1..Len(cq)
           /\ DOMAIN cq' = 1..(Len(cq) + 1)
           /\ \A i \in 1..Len(cq) : cq'[i] = cq[i]
           /\ cq'[Len(cq) + 1] = cqe
<1>1. cq \in Seq(Cqes)
  BY DEF TypeInv, TypeOK, Cqes
<1> QED BY <1>1, AppendFacts

-----------------------------------------------------------------------------
(* The SEND request *)

SendInv == SendSerialized /\ NoIdleQueue

\* If the session goes on after kick_send_, a SEND is under way exactly when
\* one was before or a frame is queued.
LEMMA KickSends ==
    ASSUME NEW queue, NEW state, NEW in_progress \in BOOLEAN,
           kick_send_(queue, state, in_progress), run_result' = "None"
    PROVE  /\ (in_progress \/ queue = <<>>)
                => send_in_progress_' = in_progress /\ sending' = sending
           /\ ~(in_progress \/ queue = <<>>)
                => send_in_progress_' = TRUE /\ sending' = TRUE
  BY Zenon DEF kick_send_

\* A handler of a READ completion leaves the SEND completions where they are.
LEMMA ReadKeepsSends ==
    ASSUME TypeInv, Handles("READ")
    PROVE  /\ SendCqes' = {} <=> SendCqes = {}
           /\ (\A i, j \in SendCqes : i = j) => (\A i, j \in SendCqes' : i = j)
<1>1. /\ Len(cq) \in Nat /\ Len(cq) >= 1
      /\ DOMAIN cq = 1..Len(cq) /\ DOMAIN cq' = 1..(Len(cq) - 1)
      /\ \A i \in 1..(Len(cq) - 1) : cq'[i] = cq[i + 1]
      /\ cq[1].type = "READ"
  BY HandledCqe
<1>2. \A i \in SendCqes' : i + 1 \in SendCqes /\ i \in Int
  BY <1>1 DEF SendCqes
<1>3. \A i \in SendCqes : i - 1 \in SendCqes' /\ i \in Int
  BY <1>1 DEF SendCqes
<1> QED BY <1>2, <1>3

\* Handling a SEND completion leaves none.
LEMMA SendTaken ==
    ASSUME TypeInv, SendSerialized, Handles("SEND")
    PROVE  SendCqes' = {} /\ sending = FALSE /\ send_in_progress_ = TRUE
<1>1. /\ Running
      /\ Len(cq) \in Nat /\ Len(cq) >= 1
      /\ DOMAIN cq = 1..Len(cq) /\ DOMAIN cq' = 1..(Len(cq) - 1)
      /\ \A i \in 1..(Len(cq) - 1) : cq'[i] = cq[i + 1]
      /\ cq[1].type = "SEND"
  BY HandledCqe
<1>2. 1 \in SendCqes
  BY <1>1 DEF SendCqes
<1>3. \A i \in SendCqes' : i + 1 \in SendCqes /\ i \in Int /\ i >= 1
  BY <1>1 DEF SendCqes
<1>4. \A i \in SendCqes : i = 1
  BY <1>1, <1>2 DEF SendSerialized
<1>5. SendCqes' = {}
  BY <1>3, <1>4
<1>6. sending \in BOOLEAN /\ send_in_progress_ \in BOOLEAN
  BY DEF TypeInv, TypeOK
<1>7. sending = FALSE /\ send_in_progress_ = TRUE
  BY <1>1, <1>2, <1>6, Zenon DEF SendSerialized
<1> QED BY <1>5, <1>7

\* Completions other than SEND do not change where SEND completions are.
LEMMA OtherPosted ==
    ASSUME TypeInv, NEW cqe \in Cqes, cq' = Append(cq, cqe), cqe.type # "SEND"
    PROVE  SendCqes' = SendCqes
<1>1. /\ Len(cq) \in Nat /\ DOMAIN cq = 1..Len(cq) /\ DOMAIN cq' = 1..(Len(cq) + 1)
      /\ \A i \in 1..Len(cq) : cq'[i] = cq[i]
      /\ cq'[Len(cq) + 1] = cqe
  BY PostedCqe
<1> QED BY <1>1 DEF SendCqes

\* If no completion of a send waited, the one that is posted is the only one.
LEMMA SendPosted ==
    ASSUME TypeInv, SendCqes = {},
           NEW cqe \in Cqes, cq' = Append(cq, cqe), cqe.type = "SEND"
    PROVE  SendCqes' # {} /\ \A i, j \in SendCqes' : i = j
<1>1. /\ Len(cq) \in Nat /\ DOMAIN cq = 1..Len(cq) /\ DOMAIN cq' = 1..(Len(cq) + 1)
      /\ \A i \in 1..Len(cq) : cq'[i] = cq[i]
      /\ cq'[Len(cq) + 1] = cqe
  BY PostedCqe
<1>2. SendCqes' = {Len(cq) + 1}
  BY <1>1 DEF SendCqes
<1> QED BY <1>2

\* The completions the kernel's actions post.
LEMMA KernelCqes ==
    /\ \A size \in 1..mtu, bid \in Bids, more \in BOOLEAN :
          Cqe("READ", size, bid, more) \in Cqes
    /\ Cqe("READ", -ENOBUFS, NoBid, FALSE) \in Cqes
    /\ Cqe("READ", -EIO, NoBid, FALSE) \in Cqes
    /\ \A n \in 1..(wire_size + mtu) : Cqe("SEND", n, NoBid, FALSE) \in Cqes
    /\ Cqe("SEND", -EIO, NoBid, FALSE) \in Cqes
  BY DEF Cqes, ReadCqes, ReadErrorCqes, SendDoneCqes, Cqe

\* Every step keeps the SEND request single and no frame waiting without it.
LEMMA NextSendInv == TypeInv /\ SendInv /\ [Next]_vars => SendInv'
<1> SUFFICES ASSUME TypeInv, SendInv, [Next]_vars, run_result' = "None" PROVE SendInv'
  BY DEF SendInv, SendSerialized, NoIdleQueue, Running
<1>0. /\ send_in_progress_ \in BOOLEAN /\ sending \in BOOLEAN
      /\ SendSerialized /\ frame_queue_ \in Seq(Frames)
  BY DEF TypeInv, TypeOK, SendInv
<1>r. ASSUME NEW queue, Handles("READ"),
             kick_send_(queue, current_frame_state_, send_in_progress_),
             frame_queue_' = queue
      PROVE  SendInv'
  <2>1. /\ SendCqes' = {} <=> SendCqes = {}
        /\ \A i, j \in SendCqes' : i = j
        /\ Running
    BY <1>0, <1>r, ReadKeepsSends, HandledCqe DEF SendSerialized
  <2>2. CASE send_in_progress_ \/ queue = <<>>
    <3>1. send_in_progress_' = send_in_progress_ /\ sending' = sending
      BY <1>0, <1>r, <2>2, KickSends
    <3> QED BY <1>0, <1>r, <2>1, <2>2, <3>1 DEF SendInv, SendSerialized, NoIdleQueue
  <2>3. CASE ~(send_in_progress_ \/ queue = <<>>)
    <3>1. send_in_progress_' = TRUE /\ sending' = TRUE
      BY <1>0, <1>r, <2>3, KickSends
    <3>2. SendCqes = {}
      BY <1>0, <2>1, <2>3 DEF SendSerialized
    <3> QED BY <1>0, <2>1, <3>1, <3>2 DEF SendInv, SendSerialized, NoIdleQueue
  <2> QED BY <2>2, <2>3
<1>1. CASE ReadNoBuffers
  BY <1>1, <1>r DEF ReadNoBuffers
<1>2. CASE ReadFailed
  BY <1>2 DEF ReadFailed
<1>3. CASE ReadPacket
  <2> DEFINE queue == Append(frame_queue_, [bid |-> Head(cq).bid, size |-> Head(cq).result])
  <2>1. /\ Handles("READ") /\ frame_queue_' = queue
        /\ kick_send_(queue, current_frame_state_, send_in_progress_)
    BY <1>3 DEF ReadPacket
  <2> HIDE DEF queue
  <2> QED BY <2>1, <1>r
<1>4. CASE ReadRearmFailed
  BY <1>4 DEF ReadRearmFailed
<1>5. CASE ReadNoMemory
  BY <1>5 DEF ReadNoMemory
<1>6. CASE SendFailed
  BY <1>6 DEF SendFailed
<1>7. CASE SendDone
  <2> DEFINE after == AfterSend(Head(cq).result)
  <2>1. /\ Handles("SEND") /\ frame_queue_' = after.queue
        /\ kick_send_(after.queue, after.state, FALSE)
    BY <1>7 DEF SendDone
  <2> HIDE DEF after
  <2>2. SendCqes' = {} /\ sending = FALSE
    BY <1>0, <2>1, SendTaken
  <2>3. CASE after.queue = <<>>
    <3>1. send_in_progress_' = FALSE /\ sending' = sending
      BY <2>1, <2>3, KickSends
    <3> QED BY <2>1, <2>2, <2>3, <3>1 DEF SendInv, SendSerialized, NoIdleQueue
  <2>4. CASE after.queue # <<>>
    <3>1. send_in_progress_' = TRUE /\ sending' = TRUE
      BY <2>1, <2>4, KickSends
    <3> QED BY <2>1, <2>2, <3>1 DEF SendInv, SendSerialized, NoIdleQueue
  <2> QED BY <2>3, <2>4
<1>8. CASE SendRearmFailed
  BY <1>8 DEF SendRearmFailed
<1>k. ASSUME NEW cqe \in Cqes, cq' = Append(cq, cqe), cqe.type = "READ",
             KernelStep, UNCHANGED sending
      PROVE  SendInv'
  <2>1. SendCqes' = SendCqes
    BY <1>k, OtherPosted
  <2> QED BY <1>k, <2>1 DEF KernelStep, own_vars, SendInv, SendSerialized, NoIdleQueue, Running
<1>9. ASSUME NEW size \in 1..mtu, NEW more \in BOOLEAN, KernelRead(size, more)
      PROVE  SendInv'
  <2>1. Head(br_) \in Bids
    BY <1>9, TailFacts DEF KernelRead, TypeInv, TypeOK
  <2>2. Cqe("READ", size, Head(br_), more) \in Cqes
    BY <2>1, KernelCqes
  <2> QED BY <1>9, <1>k, <2>2 DEF KernelRead, Cqe
<1>10. CASE KernelReadNoBuffers
  BY <1>10, <1>k, KernelCqes DEF KernelReadNoBuffers, Cqe
<1>11. CASE KernelReadError
  BY <1>11, <1>k, KernelCqes DEF KernelReadError, Cqe
<1>s. ASSUME NEW cqe \in Cqes, cq' = Append(cq, cqe), cqe.type = "SEND",
             KernelStep, sending, sending' = FALSE
      PROVE  SendInv'
  <2>1. SendCqes = {} /\ send_in_progress_ = TRUE
    BY <1>0, <1>s DEF KernelStep, SendSerialized, Running
  <2>2. SendCqes' # {} /\ \A i, j \in SendCqes' : i = j
    BY <1>s, <2>1, SendPosted
  <2> QED BY <1>s, <2>1, <2>2 DEF KernelStep, own_vars, SendInv, SendSerialized, NoIdleQueue
<1>12. ASSUME NEW n \in 1..(wire_size + mtu), KernelSend(n) PROVE SendInv'
  BY <1>12, <1>s, KernelCqes DEF KernelSend, Cqe
<1>13. CASE KernelSendError
  BY <1>13, <1>s, KernelCqes DEF KernelSendError, Cqe
<1>14. CASE UNCHANGED vars
  BY <1>14 DEF vars, own_vars, kernel_vars, SendInv, SendSerialized, NoIdleQueue,
               Running, SendCqes
<1> QED BY <1>1, <1>2, <1>3, <1>4, <1>5, <1>6, <1>7, <1>8, <1>9, <1>10, <1>11,
           <1>12, <1>13, <1>14 DEF Next, Handle, Kernel

-----------------------------------------------------------------------------
(* The READ request *)

\* While a completion that ends the READ request waits, or the transmitter
\* cools down, the kernel holds none; handling that completion leaves none.
LEMMA ReadEndTaken ==
    ASSUME TypeInv, ReadArmedOnce, Handles("READ"), Head(cq).more = FALSE
    PROVE  ReadEnds' = {} /\ reading = FALSE /\ cooling_down_ = FALSE
<1>1. /\ Running
      /\ Len(cq) \in Nat /\ Len(cq) >= 1
      /\ DOMAIN cq = 1..Len(cq) /\ DOMAIN cq' = 1..(Len(cq) - 1)
      /\ \A i \in 1..(Len(cq) - 1) : cq'[i] = cq[i + 1]
      /\ cq[1].type = "READ" /\ Head(cq) = cq[1]
  BY HandledCqe
<1>2. 1 \in ReadEnds
  BY <1>1 DEF ReadEnds
<1>3. \A i \in ReadEnds' : i + 1 \in ReadEnds /\ i \in Int /\ i >= 1
  BY <1>1 DEF ReadEnds
<1>4. \A i \in ReadEnds : i = 1
  BY <1>1, <1>2 DEF ReadArmedOnce
<1>5. ReadEnds' = {}
  BY <1>3, <1>4
<1>6. reading \in BOOLEAN /\ cooling_down_ \in BOOLEAN
  BY DEF TypeInv, TypeOK
<1>7. reading = FALSE /\ cooling_down_ = FALSE
  BY <1>1, <1>2, <1>6, Zenon DEF ReadArmedOnce
<1> QED BY <1>5, <1>7

\* Any other completion leaves those that end the READ request in the queue.
LEMMA OtherTaken ==
    ASSUME TypeInv, NEW type, Handles(type),
           type # "READ" \/ Head(cq).more = TRUE
    PROVE  /\ ReadEnds' = {} <=> ReadEnds = {}
           /\ (\A i, j \in ReadEnds : i = j) => (\A i, j \in ReadEnds' : i = j)
<1>1. /\ Len(cq) \in Nat /\ Len(cq) >= 1
      /\ DOMAIN cq = 1..Len(cq) /\ DOMAIN cq' = 1..(Len(cq) - 1)
      /\ \A i \in 1..(Len(cq) - 1) : cq'[i] = cq[i + 1]
      /\ cq[1].type = type /\ Head(cq) = cq[1]
  BY HandledCqe
<1>2. \A i \in ReadEnds' : i + 1 \in ReadEnds /\ i \in Int
  BY <1>1 DEF ReadEnds
<1>3. 1 \notin ReadEnds
  BY <1>1 DEF ReadEnds
<1>4. \A i \in ReadEnds : i - 1 \in ReadEnds' /\ i \in Int
  BY <1>1, <1>3 DEF ReadEnds
<1> QED BY <1>2, <1>4

\* A completion posted while the kernel holds the READ request is the only
\* one that may end it.
LEMMA ReadPosted ==
    ASSUME TypeInv, NEW cqe \in Cqes, cq' = Append(cq, cqe)
    PROVE  /\ (cqe.type # "READ" \/ cqe.more = TRUE) => ReadEnds' = ReadEnds
           /\ (cqe.type = "READ" /\ cqe.more = FALSE /\ ReadEnds = {})
                 => ReadEnds' = {Len(cq) + 1}
<1>1. /\ Len(cq) \in Nat /\ DOMAIN cq = 1..Len(cq) /\ DOMAIN cq' = 1..(Len(cq) + 1)
      /\ \A i \in 1..Len(cq) : cq'[i] = cq[i]
      /\ cq'[Len(cq) + 1] = cqe
  BY PostedCqe
<1>2. CASE cqe.type # "READ" \/ cqe.more = TRUE
  BY <1>1, <1>2 DEF ReadEnds
<1>3. CASE cqe.type = "READ" /\ cqe.more = FALSE /\ ReadEnds = {}
  BY <1>1, <1>3 DEF ReadEnds
<1> QED BY <1>2, <1>3

\* Every step keeps the READ request from being lost or doubled.
LEMMA NextReadArmed == TypeInv /\ ReadArmedOnce /\ [Next]_vars => ReadArmedOnce'
<1> SUFFICES ASSUME TypeInv, ReadArmedOnce, [Next]_vars, run_result' = "None"
             PROVE  ReadArmedOnce'
  BY DEF ReadArmedOnce, Running
<1>0. reading \in BOOLEAN /\ cooling_down_ \in BOOLEAN
  BY DEF TypeInv, TypeOK
<1>m. ASSUME NEW type, Handles(type) PROVE Running /\ Head(cq).more \in BOOLEAN
  BY <1>m, HandledCqe, CqeFacts
<1>1. CASE ReadNoBuffers
  <2>1. Handles("READ") /\ Head(cq).more = FALSE /\ cooling_down_' = TRUE
        /\ reading' = reading
    BY <1>1, <1>m DEF ReadNoBuffers, OutOfBuffers
  <2>2. ReadEnds' = {} /\ reading = FALSE
    BY <2>1, ReadEndTaken
  <2> QED BY <2>1, <2>2 DEF ReadArmedOnce
<1>2. CASE ReadFailed
  BY <1>2 DEF ReadFailed
<1>3. CASE ReadPacket
  <2>1. /\ Handles("READ")
        /\ reading' = (reading \/ MustRearm(Head(cq))) /\ cooling_down_' = cooling_down_
    BY <1>3 DEF ReadPacket
  <2>2. CASE Head(cq).more = TRUE
    <3>1. /\ ReadEnds' = {} <=> ReadEnds = {}
          /\ (\A i, j \in ReadEnds : i = j) => (\A i, j \in ReadEnds' : i = j)
      BY <2>1, <2>2, OtherTaken
    <3>2. reading' = reading
      BY <1>0, <2>1, <2>2 DEF MustRearm
    <3>3. Running
      BY <1>m, <2>1
    <3> QED BY <2>1, <3>1, <3>2, <3>3 DEF ReadArmedOnce
  <2>3. CASE Head(cq).more = FALSE
    <3>1. ReadEnds' = {} /\ reading = FALSE /\ cooling_down_ = FALSE
      BY <2>1, <2>3, ReadEndTaken
    <3>2. reading' = TRUE
      BY <2>1, <2>3, <3>1 DEF MustRearm
    <3> QED BY <2>1, <3>1, <3>2 DEF ReadArmedOnce
  <2> QED BY <1>m, <2>1, <2>2, <2>3
<1>4. CASE ReadRearmFailed
  BY <1>4 DEF ReadRearmFailed
<1>5. CASE ReadNoMemory
  BY <1>5 DEF ReadNoMemory
<1>6. CASE SendFailed
  BY <1>6 DEF SendFailed
<1>7. CASE SendDone
  <2> DEFINE cooled == CooledDown(AfterSend(Head(cq).result).queue)
  <2>1. /\ Handles("SEND")
        /\ reading' = (reading \/ cooled) /\ cooling_down_' = (cooling_down_ /\ ~cooled)
        /\ cooled => cooling_down_
    BY <1>7 DEF SendDone, CooledDown
  <2> HIDE DEF cooled
  <2>2. /\ ReadEnds' = {} <=> ReadEnds = {}
        /\ (\A i, j \in ReadEnds : i = j) => (\A i, j \in ReadEnds' : i = j)
    BY <2>1, OtherTaken
  <2>3. Running
    BY <1>m, <2>1
  <2> QED BY <1>0, <2>1, <2>2, <2>3 DEF ReadArmedOnce
<1>8. CASE SendRearmFailed
  BY <1>8 DEF SendRearmFailed
<1>k. ASSUME NEW cqe \in Cqes, cq' = Append(cq, cqe), cqe.type = "READ",
             KernelStep, reading, reading' = cqe.more
      PROVE  ReadArmedOnce'
  <2>1. ReadEnds = {} /\ cooling_down_ = FALSE /\ cooling_down_' = cooling_down_
    BY <1>0, <1>k DEF KernelStep, own_vars, ReadArmedOnce, Running
  <2>2. cqe.more \in BOOLEAN
    BY <1>k, CqeFacts
  <2>3. CASE cqe.more = TRUE
    <3>1. ReadEnds' = {}
      BY <1>k, <2>1, <2>3, ReadPosted
    <3> QED BY <1>k, <2>1, <2>3, <3>1 DEF ReadArmedOnce
  <2>4. CASE cqe.more = FALSE
    <3>1. ReadEnds' = {Len(cq) + 1}
      BY <1>k, <2>1, <2>4, ReadPosted
    <3> QED BY <1>k, <2>1, <2>4, <3>1 DEF ReadArmedOnce
  <2> QED BY <2>2, <2>3, <2>4
<1>9. ASSUME NEW size \in 1..mtu, NEW more \in BOOLEAN, KernelRead(size, more)
      PROVE  ReadArmedOnce'
  <2>1. Head(br_) \in Bids
    BY <1>9, TailFacts DEF KernelRead, TypeInv, TypeOK
  <2>2. Cqe("READ", size, Head(br_), more) \in Cqes
    BY <2>1, KernelCqes
  <2> QED BY <1>9, <1>k, <2>2 DEF KernelRead, Cqe
<1>10. CASE KernelReadNoBuffers
  BY <1>10, <1>k, KernelCqes DEF KernelReadNoBuffers, Cqe
<1>11. CASE KernelReadError
  BY <1>11, <1>k, KernelCqes DEF KernelReadError, Cqe
<1>s. ASSUME NEW cqe \in Cqes, cq' = Append(cq, cqe), cqe.type = "SEND",
             KernelStep, UNCHANGED reading
      PROVE  ReadArmedOnce'
  <2>1. ReadEnds' = ReadEnds
    BY <1>s, ReadPosted
  <2> QED BY <1>s, <2>1 DEF KernelStep, own_vars, ReadArmedOnce, Running
<1>12. ASSUME NEW n \in 1..(wire_size + mtu), KernelSend(n) PROVE ReadArmedOnce'
  BY <1>12, <1>s, KernelCqes DEF KernelSend, Cqe
<1>13. CASE KernelSendError
  BY <1>13, <1>s, KernelCqes DEF KernelSendError, Cqe
<1>14. CASE UNCHANGED vars
  BY <1>14 DEF vars, own_vars, kernel_vars, ReadArmedOnce, Running, ReadEnds
<1> QED BY <1>1, <1>2, <1>3, <1>4, <1>5, <1>6, <1>7, <1>8, <1>9, <1>10, <1>11,
           <1>12, <1>13, <1>14 DEF Next, Handle, Kernel

-----------------------------------------------------------------------------
\* The session starts with the READ request armed and nothing to send.
LEMMA InitRequests == Init => SendInv /\ ReadArmedOnce
<1> SUFFICES ASSUME Init PROVE SendInv /\ ReadArmedOnce
  OBVIOUS
<1>1. cq = <<>>
  BY DEF Init, Created
<1>2. SendCqes = {} /\ ReadEnds = {}
  BY <1>1 DEF SendCqes, ReadEnds
<1>3. /\ send_in_progress_ = FALSE /\ sending = FALSE /\ frame_queue_ = <<>>
      /\ reading = TRUE /\ cooling_down_ = FALSE
  BY DEF Init, Created
<1>4. SendInv
  BY <1>2, <1>3 DEF SendInv, SendSerialized, NoIdleQueue
<1>5. ReadArmedOnce
  BY <1>2, <1>3 DEF ReadArmedOnce
<1> QED BY <1>4, <1>5

\* For every buffer count and MTU: at most one SEND is under way, and
\* send_in_progress_ says so; a queued frame always has one under way.
THEOREM SendsSerialized == Spec => [](SendSerialized /\ NoIdleQueue)
<1>1. TypeInv /\ SendInv /\ [Next]_vars => TypeInv' /\ SendInv'
  BY NextTypeInv, NextSendInv
<1> QED BY <1>1, InitTypeInv, InitRequests, PTL DEF Spec, SendInv

\* For every buffer count and MTU: the multishot READ is with the kernel, or
\* about to be armed again, or suspended by the cooldown, exactly one of them.
THEOREM ReadNeverLost == Spec => []ReadArmedOnce
<1>1. TypeInv /\ ReadArmedOnce /\ [Next]_vars => TypeInv' /\ ReadArmedOnce'
  BY NextTypeInv, NextReadArmed
<1> QED BY <1>1, InitTypeInv, InitRequests, PTL DEF Spec

-----------------------------------------------------------------------------
(* Filled completions *)

\* A handler moves every filled completion one place forward; the first one,
\* if it is filled, leaves the queue.
LEMMA FilledTaken ==
    ASSUME TypeInv, NEW type, Handles(type)
    PROVE  /\ Filled \subseteq Int /\ Filled' \subseteq Int
           /\ \A i \in Filled' : i + 1 \in Filled /\ cq'[i] = cq[i + 1]
           /\ \A i \in Filled : i # 1 => i - 1 \in Filled' /\ cq'[i - 1] = cq[i]
           /\ \A i \in Filled' : i >= 1
           /\ (type # "READ" \/ ~ok(Head(cq))) => 1 \notin Filled
           /\ (type = "READ" /\ ok(Head(cq))) => 1 \in Filled /\ Head(cq) = cq[1]
<1>1. /\ Len(cq) \in Nat /\ Len(cq) >= 1
      /\ DOMAIN cq = 1..Len(cq) /\ DOMAIN cq' = 1..(Len(cq) - 1)
      /\ \A i \in 1..(Len(cq) - 1) : cq'[i] = cq[i + 1]
      /\ Head(cq) = cq[1] /\ cq[1].type = type
  BY HandledCqe
<1>2. Filled \subseteq 1..Len(cq) /\ Filled' \subseteq 1..(Len(cq) - 1)
  BY <1>1 DEF Filled
<1>3. \A i \in Filled' : i + 1 \in Filled /\ cq'[i] = cq[i + 1]
  BY <1>1 DEF Filled, ok
<1>4. ASSUME NEW i \in Filled, i # 1 PROVE i - 1 \in Filled' /\ cq'[i - 1] = cq[i]
  <2>1. i \in 1..Len(cq) /\ i - 1 \in 1..(Len(cq) - 1)
    BY <1>1, <1>2, <1>4
  <2>2. cq'[i - 1] = cq[i]
    BY <1>1, <2>1
  <2> QED BY <1>1, <2>1, <2>2 DEF Filled, ok
<1>5. (type # "READ" \/ ~ok(Head(cq))) => 1 \notin Filled
  BY <1>1 DEF Filled
<1>6. (type = "READ" /\ ok(Head(cq))) => 1 \in Filled
  BY <1>1 DEF Filled
<1> QED BY <1>1, <1>2, <1>3, <1>4, <1>5, <1>6

\* The kernel adds a filled completion only for a packet.
LEMMA FilledPosted ==
    ASSUME TypeInv, NEW cqe \in Cqes, cq' = Append(cq, cqe)
    PROVE  /\ Len(cq) \in Nat /\ Filled \subseteq 1..Len(cq)
           /\ (cqe.type # "READ" \/ ~ok(cqe)) => Filled' = Filled
           /\ (cqe.type = "READ" /\ ok(cqe)) => Filled' = Filled \cup {Len(cq) + 1}
           /\ \A i \in Filled : cq'[i] = cq[i]
           /\ cq'[Len(cq) + 1] = cqe
<1>1. /\ Len(cq) \in Nat /\ DOMAIN cq = 1..Len(cq) /\ DOMAIN cq' = 1..(Len(cq) + 1)
      /\ \A i \in 1..Len(cq) : cq'[i] = cq[i]
      /\ cq'[Len(cq) + 1] = cqe
  BY PostedCqe
<1>2. Filled \subseteq 1..Len(cq)
  BY <1>1 DEF Filled
<1>3. (cqe.type # "READ" \/ ~ok(cqe)) => Filled' = Filled
  BY <1>1 DEF Filled, ok
<1>4. (cqe.type = "READ" /\ ok(cqe)) => Filled' = Filled \cup {Len(cq) + 1}
  BY <1>1 DEF Filled, ok
<1> QED BY <1>1, <1>2, <1>3, <1>4

-----------------------------------------------------------------------------
(* Buffer ownership *)

\* BufferOwnership without its condition, in parts.
Somewhere ==
    \A bid \in Bids : \/ \E i \in DOMAIN br_ : br_[i] = bid
                      \/ \E i \in Filled : cq[i].bid = bid
                      \/ \E i \in DOMAIN frame_queue_ : frame_queue_[i].bid = bid
FreeOnce == \A i, j \in DOMAIN br_ : br_[i] = br_[j] => i = j
FilledOnce == \A i, j \in Filled : cq[i].bid = cq[j].bid => i = j
QueuedOnce ==
    \A i, j \in DOMAIN frame_queue_ :
        frame_queue_[i].bid = frame_queue_[j].bid => i = j
FreeNotFilled == \A i \in DOMAIN br_, j \in Filled : br_[i] # cq[j].bid
FreeNotQueued ==
    \A i \in DOMAIN br_, j \in DOMAIN frame_queue_ : br_[i] # frame_queue_[j].bid
FilledNotQueued ==
    \A i \in Filled, j \in DOMAIN frame_queue_ : cq[i].bid # frame_queue_[j].bid

Owned ==
    /\ Somewhere /\ FreeOnce /\ FilledOnce /\ QueuedOnce
    /\ FreeNotFilled /\ FreeNotQueued /\ FilledNotQueued

\* BufferOwnership, by the parts that are proved one at a time.
LEMMA OwnershipParts == BufferOwnership <=> (Running => Owned)
  BY DEF BufferOwnership, Owned, Somewhere, FreeOnce, FilledOnce, QueuedOnce,
         FreeNotFilled, FreeNotQueued, FilledNotQueued

\* A completion without a buffer is taken and the buffers stay where they are.
LEMMA TakenOwned ==
    ASSUME TypeInv, Owned, NEW type, Handles(type), type # "READ" \/ ~ok(Head(cq)),
           UNCHANGED <<br_, frame_queue_>>
    PROVE  Owned'
<1>1. /\ Filled \subseteq Int /\ Filled' \subseteq Int
      /\ \A i \in Filled' : i + 1 \in Filled /\ cq'[i] = cq[i + 1]
      /\ \A i \in Filled : i - 1 \in Filled' /\ cq'[i - 1] = cq[i]
  BY FilledTaken
<1>2. Somewhere'
  <2> SUFFICES ASSUME NEW bid \in Bids
               PROVE \/ \E i \in DOMAIN br_ : br_[i] = bid
                     \/ \E i \in Filled' : cq'[i].bid = bid
                     \/ \E i \in DOMAIN frame_queue_ : frame_queue_[i].bid = bid
    BY DEF Somewhere, Bids
  <2>1. CASE \E i \in Filled : cq[i].bid = bid
    BY <1>1, <2>1
  <2> QED BY <2>1 DEF Owned, Somewhere
<1>3. FilledOnce'
  BY <1>1 DEF Owned, FilledOnce
<1>4. FreeNotFilled' /\ FilledNotQueued'
  BY <1>1 DEF Owned, FreeNotFilled, FilledNotQueued
<1> QED BY <1>2, <1>3, <1>4 DEF Owned, FreeOnce, QueuedOnce, FreeNotQueued

\* A packet's buffer moves from its completion to frame_queue_.
LEMMA QueuedOwned ==
    ASSUME TypeInv, Owned, Handles("READ"), ok(Head(cq)), UNCHANGED br_,
           frame_queue_' = Append(frame_queue_, [bid |-> Head(cq).bid, size |-> Head(cq).result])
    PROVE  Owned'
<1> DEFINE frame == [bid |-> Head(cq).bid, size |-> Head(cq).result]
<1>1. /\ Filled \subseteq Int /\ Filled' \subseteq Int
      /\ \A i \in Filled' : i + 1 \in Filled /\ cq'[i] = cq[i + 1] /\ i + 1 # 1
      /\ \A i \in Filled : i # 1 => i - 1 \in Filled' /\ cq'[i - 1] = cq[i]
      /\ 1 \in Filled /\ Head(cq) = cq[1]
  BY FilledTaken
<1>2. Head(cq) \in ReadCqes
  BY HandledCqe, CqeFacts
<1>3. frame \in Frames /\ frame.bid = cq[1].bid
  BY <1>1, <1>2 DEF ReadCqes, Frames
<1> HIDE DEF frame
<1>4. /\ Len(frame_queue_) \in Nat
      /\ DOMAIN frame_queue_ = 1..Len(frame_queue_)
      /\ DOMAIN frame_queue_' = 1..(Len(frame_queue_) + 1)
      /\ \A i \in 1..Len(frame_queue_) : frame_queue_'[i] = frame_queue_[i]
      /\ frame_queue_'[Len(frame_queue_) + 1] = frame
  BY <1>3, AppendFacts DEF frame, TypeInv, TypeOK
<1>5. Somewhere'
  <2> SUFFICES ASSUME NEW bid \in Bids
               PROVE \/ \E i \in DOMAIN br_ : br_[i] = bid
                     \/ \E i \in Filled' : cq'[i].bid = bid
                     \/ \E i \in DOMAIN frame_queue_' : frame_queue_'[i].bid = bid
    BY DEF Somewhere, Bids
  <2>1. ASSUME NEW i \in Filled, cq[i].bid = bid
        PROVE  \/ \E k \in Filled' : cq'[k].bid = bid
               \/ \E k \in DOMAIN frame_queue_' : frame_queue_'[k].bid = bid
    <3>1. CASE i = 1
      BY <1>3, <1>4, <2>1, <3>1
    <3>2. CASE i # 1
      BY <1>1, <2>1, <3>2
    <3> QED BY <3>1, <3>2
  <2>2. ASSUME NEW i \in DOMAIN frame_queue_, frame_queue_[i].bid = bid
        PROVE  \E k \in DOMAIN frame_queue_' : frame_queue_'[k].bid = bid
    BY <1>4, <2>2
  <2> QED BY <2>1, <2>2 DEF Owned, Somewhere
<1>6. FilledOnce'
  BY <1>1 DEF Owned, FilledOnce
<1>7. QueuedOnce'
  BY <1>1, <1>3, <1>4 DEF Owned, QueuedOnce, FilledNotQueued
<1>8. FreeNotFilled'
  BY <1>1, ZenonT(40) DEF Owned, FreeNotFilled
<1>9. FreeNotQueued'
  BY <1>1, <1>3, <1>4 DEF Owned, FreeNotQueued, FreeNotFilled
<1>10. FilledNotQueued'
  BY <1>1, <1>3, <1>4 DEF Owned, FilledNotQueued, FilledOnce
<1> QED BY <1>5, <1>6, <1>7, <1>8, <1>9, <1>10 DEF Owned, FreeOnce

\* A frame sent completely leaves frame_queue_ and its buffer becomes free.
LEMMA ReturnedOwned ==
    ASSUME TypeInv, Owned, Handles("SEND"), frame_queue_ # <<>>,
           frame_queue_' = Tail(frame_queue_),
           br_' = Append(br_, Head(frame_queue_).bid)
    PROVE  Owned'
<1>1. /\ Filled \subseteq Int /\ Filled' \subseteq Int
      /\ \A i \in Filled' : i + 1 \in Filled /\ cq'[i] = cq[i + 1]
      /\ \A i \in Filled : i - 1 \in Filled' /\ cq'[i - 1] = cq[i]
  BY FilledTaken
<1>2. /\ Len(frame_queue_) \in Nat /\ Len(frame_queue_) >= 1
      /\ DOMAIN frame_queue_ = 1..Len(frame_queue_)
      /\ DOMAIN frame_queue_' = 1..(Len(frame_queue_) - 1)
      /\ \A i \in 1..(Len(frame_queue_) - 1) : frame_queue_'[i] = frame_queue_[i + 1]
      /\ Head(frame_queue_) = frame_queue_[1] /\ Head(frame_queue_) \in Frames
  BY TailFacts DEF TypeInv, TypeOK
<1>3. Head(frame_queue_).bid \in Bids
  BY <1>2 DEF Frames
<1>4. /\ Len(br_) \in Nat
      /\ DOMAIN br_ = 1..Len(br_) /\ DOMAIN br_' = 1..(Len(br_) + 1)
      /\ \A i \in 1..Len(br_) : br_'[i] = br_[i]
      /\ br_'[Len(br_) + 1] = frame_queue_[1].bid
  BY <1>2, <1>3, AppendFacts DEF TypeInv, TypeOK
<1>5. Somewhere'
  <2> SUFFICES ASSUME NEW bid \in Bids
               PROVE \/ \E i \in DOMAIN br_' : br_'[i] = bid
                     \/ \E i \in Filled' : cq'[i].bid = bid
                     \/ \E i \in DOMAIN frame_queue_' : frame_queue_'[i].bid = bid
    BY DEF Somewhere, Bids
  <2>1. ASSUME NEW i \in DOMAIN br_, br_[i] = bid
        PROVE  \E k \in DOMAIN br_' : br_'[k] = bid
    BY <1>4, <2>1
  <2>2. ASSUME NEW i \in Filled, cq[i].bid = bid
        PROVE  \E k \in Filled' : cq'[k].bid = bid
    BY <1>1, <2>2
  <2>3. ASSUME NEW i \in DOMAIN frame_queue_, frame_queue_[i].bid = bid
        PROVE  \/ \E k \in DOMAIN br_' : br_'[k] = bid
               \/ \E k \in DOMAIN frame_queue_' : frame_queue_'[k].bid = bid
    <3>1. CASE i = 1
      BY <1>4, <2>3, <3>1
    <3>2. CASE i # 1
      <4>1. i - 1 \in 1..(Len(frame_queue_) - 1) /\ (i - 1) + 1 = i
        BY <1>2, <2>3, <3>2
      <4>2. frame_queue_'[i - 1].bid = bid
        BY <1>2, <2>3, <4>1
      <4> QED BY <1>2, <4>1, <4>2
    <3> QED BY <3>1, <3>2
  <2> QED BY <2>1, <2>2, <2>3 DEF Owned, Somewhere
<1>6. FreeOnce'
  BY <1>2, <1>4 DEF Owned, FreeOnce, FreeNotQueued
<1>7. FilledOnce'
  BY <1>1 DEF Owned, FilledOnce
<1>8. QueuedOnce'
  BY <1>2 DEF Owned, QueuedOnce
<1>9. FreeNotFilled'
  BY <1>1, <1>2, <1>4 DEF Owned, FreeNotFilled, FilledNotQueued
<1>10. FreeNotQueued'
  BY <1>2, <1>4 DEF Owned, FreeNotQueued, QueuedOnce
<1>11. FilledNotQueued'
  <2> SUFFICES ASSUME NEW i \in Filled', NEW j \in DOMAIN frame_queue_'
               PROVE  cq'[i].bid # frame_queue_'[j].bid
    BY DEF FilledNotQueued
  <2>1. i + 1 \in Filled /\ cq'[i] = cq[i + 1]
    BY <1>1
  <2>2. j + 1 \in DOMAIN frame_queue_ /\ frame_queue_'[j] = frame_queue_[j + 1]
    BY <1>2
  <2> QED BY <2>1, <2>2 DEF Owned, FilledNotQueued
<1> QED BY <1>5, <1>6, <1>7, <1>8, <1>9, <1>10, <1>11 DEF Owned

\* A packet fills the first free buffer.
LEMMA FilledOwned ==
    ASSUME TypeInv, Owned, NEW size \in 1..mtu, NEW more \in BOOLEAN,
           KernelRead(size, more)
    PROVE  Owned'
<1> DEFINE cqe == Cqe("READ", size, Head(br_), more)
<1>1. /\ Len(br_) \in Nat /\ Len(br_) >= 1
      /\ DOMAIN br_ = 1..Len(br_) /\ DOMAIN br_' = 1..(Len(br_) - 1)
      /\ \A i \in 1..(Len(br_) - 1) : br_'[i] = br_[i + 1]
      /\ Head(br_) = br_[1] /\ Head(br_) \in Bids
  BY TailFacts DEF TypeInv, TypeOK, KernelRead
<1>2. cqe \in Cqes
  BY <1>1, KernelCqes
<1>3. cqe.type = "READ" /\ ok(cqe) /\ cqe.bid = br_[1]
  BY <1>1, TransmitterAssumption DEF Cqe, ok
<1>4. cq' = Append(cq, cqe) /\ frame_queue_' = frame_queue_
  BY DEF KernelRead, KernelStep, own_vars
<1> HIDE DEF cqe
<1>5. /\ Len(cq) \in Nat /\ Filled \subseteq 1..Len(cq)
      /\ Filled' = Filled \cup {Len(cq) + 1}
      /\ \A i \in Filled : cq'[i] = cq[i]
      /\ cq'[Len(cq) + 1] = cqe
  BY <1>2, <1>3, <1>4, FilledPosted
<1>6. Somewhere'
  <2> SUFFICES ASSUME NEW bid \in Bids
               PROVE \/ \E i \in DOMAIN br_' : br_'[i] = bid
                     \/ \E i \in Filled' : cq'[i].bid = bid
                     \/ \E i \in DOMAIN frame_queue_ : frame_queue_[i].bid = bid
    BY <1>4 DEF Somewhere, Bids
  <2>1. ASSUME NEW i \in DOMAIN br_, br_[i] = bid
        PROVE  \/ \E k \in DOMAIN br_' : br_'[k] = bid
               \/ \E k \in Filled' : cq'[k].bid = bid
    <3>1. CASE i = 1
      BY <1>3, <1>5, <2>1, <3>1
    <3>2. CASE i # 1
      <4>1. i - 1 \in 1..(Len(br_) - 1) /\ (i - 1) + 1 = i
        BY <1>1, <2>1, <3>2
      <4>2. br_'[i - 1] = bid
        BY <1>1, <2>1, <4>1
      <4> QED BY <1>1, <4>1, <4>2
    <3> QED BY <3>1, <3>2
  <2>2. ASSUME NEW i \in Filled, cq[i].bid = bid
        PROVE  \E k \in Filled' : cq'[k].bid = bid
    BY <1>5, <2>2
  <2> QED BY <2>1, <2>2 DEF Owned, Somewhere
<1>7. FreeOnce'
  BY <1>1 DEF Owned, FreeOnce
<1>8. FilledOnce'
  BY <1>1, <1>3, <1>5 DEF Owned, FilledOnce, FreeNotFilled
<1>9. QueuedOnce'
  BY <1>4 DEF Owned, QueuedOnce
<1>10. FreeNotFilled'
  <2> SUFFICES ASSUME NEW i \in DOMAIN br_', NEW j \in Filled'
               PROVE  br_'[i] # cq'[j].bid
    BY DEF FreeNotFilled
  <2>1. i + 1 \in DOMAIN br_ /\ br_'[i] = br_[i + 1] /\ i + 1 # 1 /\ 1 \in DOMAIN br_
    BY <1>1
  <2>2. CASE j \in Filled
    BY <1>5, <2>1, <2>2 DEF Owned, FreeNotFilled
  <2>3. CASE j = Len(cq) + 1
    BY <1>3, <1>5, <2>1, <2>3 DEF Owned, FreeOnce
  <2> QED BY <1>5, <2>2, <2>3
<1>11. FreeNotQueued'
  <2> SUFFICES ASSUME NEW i \in DOMAIN br_', NEW j \in DOMAIN frame_queue_
               PROVE  br_'[i] # frame_queue_[j].bid
    BY <1>4 DEF FreeNotQueued
  <2>1. i + 1 \in DOMAIN br_ /\ br_'[i] = br_[i + 1]
    BY <1>1
  <2> QED BY <2>1 DEF Owned, FreeNotQueued
<1>12. FilledNotQueued'
  <2> SUFFICES ASSUME NEW i \in Filled', NEW j \in DOMAIN frame_queue_
               PROVE  cq'[i].bid # frame_queue_[j].bid
    BY <1>4 DEF FilledNotQueued
  <2>1. 1 \in DOMAIN br_
    BY <1>1
  <2>2. CASE i \in Filled
    BY <1>5, <2>2 DEF Owned, FilledNotQueued
  <2>3. CASE i = Len(cq) + 1
    BY <1>3, <1>5, <2>1, <2>3 DEF Owned, FreeNotQueued
  <2> QED BY <1>5, <2>2, <2>3
<1> QED BY <1>6, <1>7, <1>8, <1>9, <1>10, <1>11, <1>12 DEF Owned

\* A completion without a buffer is posted.
LEMMA PostedOwned ==
    ASSUME TypeInv, Owned, NEW cqe \in Cqes, cq' = Append(cq, cqe),
           cqe.type # "READ" \/ ~ok(cqe), UNCHANGED <<br_, frame_queue_>>
    PROVE  Owned'
<1>1. Filled' = Filled /\ \A i \in Filled : cq'[i] = cq[i]
  BY FilledPosted
<1>2. Somewhere'
  BY <1>1 DEF Owned, Somewhere, Bids
<1>3. FilledOnce'
  <2>1. \A i, j \in Filled : cq'[i].bid = cq'[j].bid => i = j
    BY <1>1 DEF Owned, FilledOnce
  <2> QED BY <1>1, <2>1, Zenon DEF FilledOnce
<1>4. FreeNotFilled' /\ FilledNotQueued'
  <2>1. /\ \A i \in DOMAIN br_, j \in Filled : br_[i] # cq'[j].bid
        /\ \A i \in Filled, j \in DOMAIN frame_queue_ : cq'[i].bid # frame_queue_[j].bid
    BY <1>1 DEF Owned, FreeNotFilled, FilledNotQueued
  <2> QED BY <1>1, <2>1, Zenon DEF FreeNotFilled, FilledNotQueued
<1>5. FreeOnce' /\ QueuedOnce' /\ FreeNotQueued'
  BY DEF Owned, FreeOnce, QueuedOnce, FreeNotQueued
<1> QED BY <1>2, <1>3, <1>4, <1>5 DEF Owned

\* A frame is under way when its SEND completes, and its buffer is that of the
\* oldest queued frame.
LEMMA AfterSendCases ==
    ASSUME TypeInv, NEW sent \in Nat, current_frame_state_ # nullopt
    PROVE  LET after == AfterSend(sent)
           IN  \/ after.queue = frame_queue_ /\ after.br = br_
               \/ /\ frame_queue_ # <<>>
                  /\ after.queue = Tail(frame_queue_)
                  /\ after.br = Append(br_, Head(frame_queue_).bid)
<1> DEFINE state == [current_frame_state_ EXCEPT !.bytes_sent = @ + sent]
<1>1. current_frame_state_ \in FrameStates
      /\ frame_queue_ # <<>> /\ Head(frame_queue_) = current_frame_state_.frame
  BY DEF TypeInv, TypeOK, CurrentIsOldest
<1>2. state.frame = current_frame_state_.frame
  BY <1>1 DEF FrameStates
<1>3. AfterSend(sent) =
        IF state.bytes_sent = Total(state)
        THEN [state |-> nullopt, queue |-> Tail(frame_queue_),
              br |-> return_buffer(br_, state.frame.bid)]
        ELSE [state |-> state, queue |-> frame_queue_, br |-> br_]
  BY DEF AfterSend
<1> HIDE DEF state
<1> QED BY <1>1, <1>2, <1>3 DEF return_buffer

\* Every step keeps each buffer in one place.
LEMMA NextOwnership == TypeInv /\ BufferOwnership /\ [Next]_vars => BufferOwnership'
<1> SUFFICES ASSUME TypeInv, BufferOwnership, [Next]_vars, run_result' = "None",
                    Running
             PROVE  Owned'
  <2>1. BufferOwnership' <=> (Running' => Owned')
    BY OwnershipParts, PTL
  <2>2. [Next]_vars /\ run_result' = "None" => run_result = "None"
    BY DEF Next, Handle, Kernel, ReadNoBuffers, ReadFailed, ReadPacket,
           ReadRearmFailed, ReadNoMemory, SendFailed, SendDone, SendRearmFailed,
           Handles, KernelRead, KernelReadNoBuffers, KernelReadError, KernelSend,
           KernelSendError, KernelStep, vars
  <2> QED BY <2>1, <2>2 DEF Running
<1>0. Owned
  BY OwnershipParts
<1>1. CASE ReadNoBuffers
  <2>1. ~ok(Head(cq))
    BY <1>1 DEF ReadNoBuffers, OutOfBuffers, error, ENOBUFS
  <2> QED BY <1>0, <1>1, <2>1, TakenOwned DEF ReadNoBuffers
<1>2. CASE ReadFailed
  BY <1>2 DEF ReadFailed
<1>3. CASE ReadPacket
  <2>1. /\ Handles("READ") /\ ok(Head(cq)) /\ UNCHANGED br_
        /\ frame_queue_' = Append(frame_queue_,
                                  [bid |-> Head(cq).bid, size |-> Head(cq).result])
    BY <1>3 DEF ReadPacket
  <2> QED BY <1>0, <2>1, QueuedOwned
<1>4. CASE ReadRearmFailed
  BY <1>4 DEF ReadRearmFailed
<1>5. CASE ReadNoMemory
  BY <1>5 DEF ReadNoMemory
<1>6. CASE SendFailed
  BY <1>6 DEF SendFailed
<1>7. CASE SendDone
  <2> DEFINE after == AfterSend(Head(cq).result)
  <2>1. /\ Handles("SEND") /\ frame_queue_' = after.queue /\ br_' = after.br
    BY <1>7 DEF SendDone
  <2>2. Head(cq).result \in Nat /\ current_frame_state_ # nullopt
    BY <1>7, <2>1, HandledCqe, CqeFacts DEF SendDone, SendFailure, ok
  <2>3. \/ after.queue = frame_queue_ /\ after.br = br_
        \/ /\ frame_queue_ # <<>>
           /\ after.queue = Tail(frame_queue_)
           /\ after.br = Append(br_, Head(frame_queue_).bid)
    BY <2>2, AfterSendCases
  <2> HIDE DEF after
  <2>4. CASE after.queue = frame_queue_ /\ after.br = br_
    BY <1>0, <2>1, <2>4, TakenOwned
  <2>5. CASE /\ frame_queue_ # <<>>
             /\ after.queue = Tail(frame_queue_)
             /\ after.br = Append(br_, Head(frame_queue_).bid)
    BY <1>0, <2>1, <2>5, ReturnedOwned
  <2> QED BY <2>3, <2>4, <2>5
<1>8. CASE SendRearmFailed
  BY <1>8 DEF SendRearmFailed
<1>9. ASSUME NEW size \in 1..mtu, NEW more \in BOOLEAN, KernelRead(size, more)
      PROVE  Owned'
  BY <1>0, <1>9, FilledOwned
<1>10. CASE KernelReadNoBuffers
  <2>1. ~ok(Cqe("READ", -ENOBUFS, NoBid, FALSE))
    BY DEF ok, Cqe, ENOBUFS
  <2> QED BY <1>0, <1>10, <2>1, KernelCqes, PostedOwned
      DEF KernelReadNoBuffers, KernelStep, own_vars
<1>11. CASE KernelReadError
  <2>1. ~ok(Cqe("READ", -EIO, NoBid, FALSE))
    BY DEF ok, Cqe, EIO
  <2> QED BY <1>0, <1>11, <2>1, KernelCqes, PostedOwned
      DEF KernelReadError, KernelStep, own_vars
<1>12. ASSUME NEW n \in 1..(wire_size + mtu), KernelSend(n) PROVE Owned'
  <2>1. Cqe("SEND", n, NoBid, FALSE).type = "SEND"
    BY DEF Cqe
  <2> QED BY <1>0, <1>12, <2>1, KernelCqes, PostedOwned DEF KernelSend, KernelStep, own_vars
<1>13. CASE KernelSendError
  <2>1. Cqe("SEND", -EIO, NoBid, FALSE).type = "SEND"
    BY DEF Cqe
  <2> QED BY <1>0, <1>13, <2>1, KernelCqes, PostedOwned
      DEF KernelSendError, KernelStep, own_vars
<1>14. CASE UNCHANGED vars
  BY <1>0, <1>14 DEF vars, own_vars, kernel_vars, Owned, Somewhere, FreeOnce, FilledOnce,
               QueuedOnce, FreeNotFilled, FreeNotQueued, FilledNotQueued, Filled, ok
<1> QED BY <1>1, <1>2, <1>3, <1>4, <1>5, <1>6, <1>7, <1>8, <1>9, <1>10, <1>11,
           <1>12, <1>13, <1>14 DEF Next, Handle, Kernel

\* Every buffer starts free.
LEMMA InitOwnership == Init => BufferOwnership
<1> SUFFICES ASSUME Init PROVE Owned
  BY OwnershipParts
<1>1. br_ = [i \in 1..BufferCount |-> i - 1] /\ cq = <<>> /\ frame_queue_ = <<>>
  BY DEF Init, Created, create_buffer_group
<1>2. DOMAIN frame_queue_ = {} /\ Filled = {}
  BY <1>1 DEF Filled
<1>3. DOMAIN br_ = 1..BufferCount /\ \A i \in 1..BufferCount : br_[i] = i - 1
  BY <1>1
<1>4. Somewhere
  <2> SUFFICES ASSUME NEW bid \in Bids PROVE \E i \in DOMAIN br_ : br_[i] = bid
    BY DEF Somewhere
  <2>1. bid + 1 \in DOMAIN br_ /\ br_[bid + 1] = bid
    BY <1>3, TransmitterAssumption DEF Bids
  <2> QED BY <2>1
<1>5. FreeOnce
  BY <1>3, TransmitterAssumption DEF FreeOnce
<1> QED BY <1>2, <1>4, <1>5 DEF Owned, FilledOnce, QueuedOnce, FreeNotFilled,
           FreeNotQueued, FilledNotQueued

\* For every buffer count and MTU: no buffer of the transmitter's group is
\* leaked, and none is free for the kernel while a frame or a completion still
\* uses it.
THEOREM BuffersOwned == Spec => []BufferOwnership
<1>1. TypeInv /\ BufferOwnership /\ [Next]_vars => TypeInv' /\ BufferOwnership'
  BY NextTypeInv, NextOwnership
<1> QED BY <1>1, InitTypeInv, InitOwnership, PTL DEF Spec

-----------------------------------------------------------------------------
(* The cooldown *)

\* Completions that say that the ring ran empty.
Empties == {k \in DOMAIN cq : cq[k].type = "READ" /\ OutOfBuffers(cq[k])}

\* While one of them waits to be handled, at most one buffer comes back: every
\* filled completion is ahead of it, and at most one SEND completion is.
EmptyBehind ==
    \A k \in Empties :
        /\ \A i \in Filled : i < k
        /\ Len(br_) <= 1
        /\ br_ # <<>> => \A i \in SendCqes : i > k

CoolInv == (Running => EmptyBehind) /\ CoolDownDrains

AllInv == TypeInv /\ SendInv /\ ReadArmedOnce /\ BufferOwnership /\ CoolInv

\* Such a completion ends the READ request, so there is none while the kernel
\* holds one, and none is left when it is taken.
LEMMA EmptyEndsRead ==
    ASSUME TypeInv PROVE Empties \subseteq ReadEnds
  BY DEF Empties, ReadEnds, OutOfBuffers

\* Handlers move the waiting completions one place forward.
LEMMA EmptiesTaken ==
    ASSUME TypeInv, NEW type, Handles(type)
    PROVE  /\ \A k \in Empties' : k \in Int /\ k >= 1 /\ k + 1 \in Empties
           /\ \A i \in SendCqes' : i \in Int /\ i + 1 \in SendCqes
<1>1. /\ Len(cq) \in Nat /\ Len(cq) >= 1
      /\ DOMAIN cq = 1..Len(cq) /\ DOMAIN cq' = 1..(Len(cq) - 1)
      /\ \A i \in 1..(Len(cq) - 1) : cq'[i] = cq[i + 1]
  BY HandledCqe
<1>2. ASSUME NEW k \in Empties' PROVE k \in Int /\ k >= 1 /\ k + 1 \in Empties
  <2>1. /\ k \in 1..(Len(cq) - 1) /\ cq'[k] = cq[k + 1]
        /\ cq'[k].type = "READ" /\ OutOfBuffers(cq'[k])
    BY <1>1, <1>2 DEF Empties, OutOfBuffers, error, ok
  <2>2. k + 1 \in DOMAIN cq
    BY <1>1, <2>1
  <2> QED BY <1>1, <2>1, <2>2 DEF Empties
<1>3. \A i \in SendCqes' : i \in Int /\ i + 1 \in SendCqes
  BY <1>1 DEF SendCqes
<1> QED BY <1>2, <1>3

\* The kernel posts behind the waiting completions.
LEMMA EmptiesPosted ==
    ASSUME TypeInv, NEW cqe \in Cqes, cq' = Append(cq, cqe)
    PROVE  /\ Len(cq) \in Nat /\ Empties \subseteq 1..Len(cq)
           /\ \A k \in Empties' : \/ k \in Empties
                                  \/ /\ k = Len(cq) + 1
                                     /\ cqe.type = "READ" /\ OutOfBuffers(cqe)
           /\ \A i \in SendCqes' : i \in SendCqes \/ i = Len(cq) + 1
<1>1. /\ Len(cq) \in Nat /\ DOMAIN cq = 1..Len(cq) /\ DOMAIN cq' = 1..(Len(cq) + 1)
      /\ \A i \in 1..Len(cq) : cq'[i] = cq[i]
      /\ cq'[Len(cq) + 1] = cqe
  BY PostedCqe
<1>2. Empties \subseteq 1..Len(cq)
  BY <1>1 DEF Empties
<1>3. ASSUME NEW k \in Empties'
      PROVE  k \in Empties \/ (k = Len(cq) + 1 /\ cqe.type = "READ" /\ OutOfBuffers(cqe))
  <2>1. k \in 1..(Len(cq) + 1) /\ cq'[k].type = "READ" /\ OutOfBuffers(cq'[k])
    BY <1>1, <1>3 DEF Empties, OutOfBuffers, error, ok
  <2>2. CASE k = Len(cq) + 1
    BY <1>1, <2>1, <2>2
  <2>3. CASE k \in 1..Len(cq)
    BY <1>1, <2>1, <2>3 DEF Empties
  <2> QED BY <1>1, <2>1, <2>2, <2>3
<1>4. \A i \in SendCqes' : i \in SendCqes \/ i = Len(cq) + 1
  BY <1>1 DEF SendCqes
<1> QED BY <1>1, <1>2, <1>3, <1>4

\* With two buffers or more, a frame is queued when the transmitter learns that
\* the ring ran empty.
LEMMA EmptyFindsFrame ==
    ASSUME AllInv, BufferCount >= 2, Handles("READ"), OutOfBuffers(Head(cq))
    PROVE  frame_queue_ # <<>>
<1> SUFFICES ASSUME frame_queue_ = <<>> PROVE FALSE
  OBVIOUS
<1>1. Running /\ 1 \in Empties
  BY HandledCqe DEF AllInv, Empties
<1>2. /\ \A i \in Filled : i < 1
      /\ Len(br_) <= 1
  BY <1>1 DEF AllInv, CoolInv, EmptyBehind
<1>3. Filled = {}
  <2>1. Filled \subseteq 1..Len(cq)
    BY HandledCqe DEF AllInv, Filled
  <2> QED BY <1>2, <2>1, HandledCqe DEF AllInv
<1>4. Somewhere
  BY <1>1, OwnershipParts DEF AllInv, Owned
<1>5. br_ \in Seq(Bids) /\ Len(br_) \in Nat /\ DOMAIN br_ = 1..Len(br_)
  BY DEF AllInv, TypeInv, TypeOK
<1>6. 0 \in Bids /\ 1 \in Bids
  BY TransmitterAssumption DEF Bids
<1>7. DOMAIN frame_queue_ = {}
  OBVIOUS
<1>8. (\E i \in DOMAIN br_ : br_[i] = 0) /\ (\E i \in DOMAIN br_ : br_[i] = 1)
  BY <1>3, <1>4, <1>6, <1>7 DEF Somewhere
<1> QED BY <1>2, <1>5, <1>8

\* Every step keeps a SEND under way during a cooldown.
LEMMA NextCool == AllInv /\ BufferCount >= 2 /\ [Next]_vars => CoolInv'
<1> SUFFICES ASSUME AllInv, BufferCount >= 2, [Next]_vars, run_result' = "None"
             PROVE  EmptyBehind' /\ (cooling_down_' => send_in_progress_')
  BY DEF CoolInv, CoolDownDrains, Running
<1>0. /\ TypeInv /\ SendInv /\ SendSerialized /\ ReadArmedOnce
      /\ send_in_progress_ \in BOOLEAN /\ sending \in BOOLEAN /\ cooling_down_ \in BOOLEAN
  BY DEF AllInv, SendInv, TypeInv, TypeOK
<1>a. Running => EmptyBehind /\ (cooling_down_ => send_in_progress_)
  BY DEF AllInv, CoolInv, CoolDownDrains
<1>1. CASE ReadNoBuffers
  <2>1. /\ Handles("READ") /\ OutOfBuffers(Head(cq))
        /\ kick_send_(frame_queue_, current_frame_state_, send_in_progress_)
    BY <1>1 DEF ReadNoBuffers
  <2>2. Running /\ frame_queue_ # <<>>
    BY <1>0, <2>1, EmptyFindsFrame, HandledCqe
  <2>3. send_in_progress_ = TRUE
    BY <1>0, <2>2 DEF SendInv, NoIdleQueue
  <2>4. send_in_progress_' = TRUE
    BY <2>1, <2>3, KickSends
  <2>5. ReadEnds' = {}
    <3>1. Head(cq).more = FALSE
      BY <1>0, <2>1, HandledCqe, CqeFacts DEF OutOfBuffers
    <3> QED BY <1>0, <2>1, <3>1, ReadEndTaken
  <2>6. Empties' = {}
    BY <2>5 DEF Empties, ReadEnds, OutOfBuffers
  <2> QED BY <2>4, <2>6 DEF EmptyBehind
<1>2. CASE ReadFailed
  BY <1>2 DEF ReadFailed
<1>3. CASE ReadPacket
  <2> DEFINE queue == Append(frame_queue_, [bid |-> Head(cq).bid, size |-> Head(cq).result])
  <2>1. /\ Handles("READ") /\ br_' = br_ /\ cooling_down_' = cooling_down_
        /\ kick_send_(queue, current_frame_state_, send_in_progress_)
    BY <1>3 DEF ReadPacket
  <2> HIDE DEF queue
  <2>2. Running
    BY <1>0, <2>1, HandledCqe
  <2>3. cooling_down_' => send_in_progress_'
    BY <1>0, <1>a, <2>1, <2>2, KickSends
  <2>4. EmptyBehind'
    <3>1. /\ \A k \in Empties' : k \in Int /\ k >= 1 /\ k + 1 \in Empties
          /\ \A i \in SendCqes' : i \in Int /\ i + 1 \in SendCqes
          /\ \A i \in Filled' : i \in Int /\ i + 1 \in Filled
      BY <1>0, <2>1, EmptiesTaken, FilledTaken
    <3> QED BY <1>a, <2>1, <2>2, <3>1 DEF EmptyBehind
  <2> QED BY <2>3, <2>4
<1>4. CASE ReadRearmFailed
  BY <1>4 DEF ReadRearmFailed
<1>5. CASE ReadNoMemory
  BY <1>5 DEF ReadNoMemory
<1>6. CASE SendFailed
  BY <1>6 DEF SendFailed
<1>7. CASE SendDone
  <2> DEFINE after == AfterSend(Head(cq).result)
  <2>1. /\ Handles("SEND") /\ frame_queue_' = after.queue /\ br_' = after.br
        /\ cooling_down_' = (cooling_down_ /\ ~CooledDown(after.queue))
        /\ kick_send_(after.queue, after.state, FALSE)
    BY <1>7 DEF SendDone
  <2>2. Head(cq).result \in Nat /\ current_frame_state_ # nullopt
    BY <1>0, <1>7, <2>1, HandledCqe, CqeFacts DEF SendDone, SendFailure, ok
  <2>3. \/ after.br = br_
        \/ frame_queue_ # <<>> /\ after.br = Append(br_, Head(frame_queue_).bid)
    BY <1>0, <2>2, AfterSendCases
  <2> HIDE DEF after
  <2>4. Running /\ SendCqes' = {} /\ 1 \in SendCqes
    BY <1>0, <2>1, SendTaken, HandledCqe DEF SendCqes
  <2>5. cooling_down_' => send_in_progress_'
    <3>1. CASE after.queue = <<>>
      <4>1. Len(after.queue) <= BufferCount \div 2
        BY <3>1, TransmitterAssumption
      <4> QED BY <2>1, <4>1 DEF CooledDown
    <3>2. CASE after.queue # <<>>
      BY <2>1, <3>2, KickSends
    <3> QED BY <3>1, <3>2
  <2>6. ASSUME NEW k \in Empties' PROVE (\A i \in Filled' : i < k) /\ Len(br_') <= 1
    <3>1. k \in Int /\ k >= 1 /\ k + 1 \in Empties
      BY <1>0, <2>1, <2>6, EmptiesTaken
    <3>2. \A i \in Filled' : i \in Int /\ i + 1 \in Filled
      BY <1>0, <2>1, FilledTaken
    <3>3. \A i \in Filled' : i < k
      BY <1>a, <2>4, <3>1, <3>2 DEF EmptyBehind
    <3>4. br_ = <<>>
      BY <1>a, <2>4, <3>1 DEF EmptyBehind
    <3>5. Len(br_') <= 1
      <4>1. CASE after.br = br_
        BY <2>1, <3>4, <4>1
      <4>2. CASE frame_queue_ # <<>> /\ after.br = Append(br_, Head(frame_queue_).bid)
        <5>1. Head(frame_queue_).bid \in Bids /\ br_ \in Seq(Bids)
          BY <1>0, <4>2, TailFacts, ZenonT(40) DEF TypeInv, TypeOK, Frames
        <5>2. Len(br_') = Len(br_) + 1
          BY <2>1, <4>2, <5>1, AppendFacts
        <5> QED BY <3>4, <5>2
      <4> QED BY <2>3, <4>1, <4>2
    <3> QED BY <3>3, <3>5
  <2> QED BY <2>4, <2>5, <2>6 DEF EmptyBehind
<1>8. CASE SendRearmFailed
  BY <1>8 DEF SendRearmFailed
<1>k. ASSUME KernelStep PROVE Running /\ (cooling_down_' => send_in_progress_')
  BY <1>k, <1>a DEF KernelStep, own_vars, Running
<1>e. ASSUME KernelStep, reading PROVE Empties = {}
  <2>1. ReadEnds = {}
    BY <1>0, <1>e, <1>k DEF ReadArmedOnce
  <2> QED BY <1>0, <2>1, EmptyEndsRead
<1>9. ASSUME NEW size \in 1..mtu, NEW more \in BOOLEAN, KernelRead(size, more)
      PROVE  EmptyBehind' /\ (cooling_down_' => send_in_progress_')
  <2> DEFINE cqe == Cqe("READ", size, Head(br_), more)
  <2>1. Head(br_) \in Bids
    BY <1>0, <1>9, TailFacts DEF KernelRead, TypeInv, TypeOK
  <2>2. cqe \in Cqes /\ cq' = Append(cq, cqe)
    BY <1>9, <2>1, KernelCqes DEF KernelRead
  <2>3. ~OutOfBuffers(cqe)
    BY TransmitterAssumption DEF OutOfBuffers, error, ok, Cqe, ENOBUFS
  <2> HIDE DEF cqe
  <2>4. Empties' = {}
    BY <1>0, <1>9, <1>e, <2>2, <2>3, EmptiesPosted DEF KernelRead
  <2> QED BY <1>9, <1>k, <2>4 DEF KernelRead, EmptyBehind
<1>10. CASE KernelReadNoBuffers
  <2> DEFINE cqe == Cqe("READ", -ENOBUFS, NoBid, FALSE)
  <2>1. /\ KernelStep /\ reading /\ cqe \in Cqes /\ cq' = Append(cq, cqe)
        /\ br_ = <<>> /\ br_' = br_
    BY <1>10, KernelCqes DEF KernelReadNoBuffers
  <2>2. ~ok(cqe)
    BY DEF ok, Cqe, ENOBUFS
  <2> HIDE DEF cqe
  <2>3. /\ Len(cq) \in Nat
        /\ \A k \in Empties' : k = Len(cq) + 1
    BY <1>0, <1>e, <2>1, EmptiesPosted
  <2>4. Filled' = Filled /\ Filled \subseteq 1..Len(cq)
    BY <1>0, <2>1, <2>2, FilledPosted
  <2>5. Len(br_') <= 1 /\ br_' = <<>>
    BY <2>1
  <2>6. EmptyBehind'
    BY <2>3, <2>4, <2>5 DEF EmptyBehind
  <2> QED BY <1>k, <2>1, <2>6
<1>11. CASE KernelReadError
  <2> DEFINE cqe == Cqe("READ", -EIO, NoBid, FALSE)
  <2>1. KernelStep /\ reading /\ cqe \in Cqes /\ cq' = Append(cq, cqe)
    BY <1>11, KernelCqes DEF KernelReadError
  <2>2. ~OutOfBuffers(cqe)
    BY DEF OutOfBuffers, error, ok, Cqe, ENOBUFS, EIO
  <2> HIDE DEF cqe
  <2>3. Empties' = {}
    BY <1>0, <1>e, <2>1, <2>2, EmptiesPosted
  <2> QED BY <1>k, <2>1, <2>3 DEF EmptyBehind
<1>s. ASSUME NEW cqe \in Cqes, cqe.type = "SEND", cq' = Append(cq, cqe), KernelStep,
             br_' = br_
      PROVE  EmptyBehind' /\ (cooling_down_' => send_in_progress_')
  <2>1. /\ Len(cq) \in Nat /\ Empties \subseteq 1..Len(cq)
        /\ \A k \in Empties' : k \in Empties
        /\ \A i \in SendCqes' : i \in SendCqes \/ i = Len(cq) + 1
    BY <1>0, <1>s, EmptiesPosted
  <2>2. Filled' = Filled
    BY <1>0, <1>s, FilledPosted
  <2>3. ASSUME NEW k \in Empties'
        PROVE  /\ \A i \in Filled' : i < k
               /\ Len(br_') <= 1
               /\ br_' # <<>> => \A i \in SendCqes' : i > k
    <3>1. /\ k \in Empties /\ k \in 1..Len(cq)
          /\ \A i \in Filled : i < k
          /\ Len(br_) <= 1
          /\ br_ # <<>> => \A i \in SendCqes : i > k
      BY <1>a, <1>k, <1>s, <2>1, <2>3 DEF EmptyBehind
    <3> QED BY <1>s, <2>1, <2>2, <3>1
  <2>4. EmptyBehind'
    BY <2>3 DEF EmptyBehind
  <2> QED BY <1>k, <1>s, <2>4
<1>12. ASSUME NEW n \in 1..(wire_size + mtu), KernelSend(n)
       PROVE  EmptyBehind' /\ (cooling_down_' => send_in_progress_')
  BY <1>12, <1>s, KernelCqes DEF KernelSend, Cqe
<1>13. CASE KernelSendError
  BY <1>13, <1>s, KernelCqes DEF KernelSendError, Cqe
<1>14. CASE UNCHANGED vars
  <2>1. UNCHANGED <<run_result, cq, br_, cooling_down_, send_in_progress_>>
    BY <1>14 DEF vars, own_vars, kernel_vars
  <2>2. EmptyBehind' <=> EmptyBehind
    BY <2>1 DEF EmptyBehind, Empties, Filled, SendCqes, OutOfBuffers, error, ok
  <2> QED BY <1>a, <2>1, <2>2 DEF Running
<1> QED BY <1>1, <1>2, <1>3, <1>4, <1>5, <1>6, <1>7, <1>8, <1>9, <1>10, <1>11,
           <1>12, <1>13, <1>14 DEF Next, Handle, Kernel

\* No cool-down runs at the start.
LEMMA InitCool == Init => CoolInv
<1> SUFFICES ASSUME Init PROVE CoolInv
  OBVIOUS
<1>1. Empties = {} /\ cooling_down_ = FALSE
  BY DEF Init, Created, Empties
<1> QED BY <1>1 DEF CoolInv, EmptyBehind, CoolDownDrains

\* With two buffers or more, whatever the MTU: during a cooldown a SEND is
\* under way, so handle_send_cqe_, the only place that ends it, will run.
THEOREM CoolDownNeverStuck == BufferCount >= 2 => (Spec => []CoolDownDrains)
<1> SUFFICES ASSUME BufferCount >= 2 PROVE Spec => []CoolDownDrains
  OBVIOUS
<1>1. Init => AllInv
  BY InitTypeInv, InitRequests, InitOwnership, InitCool DEF AllInv
<1>2. AllInv /\ [Next]_vars => AllInv'
  BY NextTypeInv, NextSendInv, NextReadArmed, NextOwnership, NextCool DEF AllInv
<1>3. AllInv => CoolDownDrains
  BY DEF AllInv, CoolInv
<1> QED BY <1>1, <1>2, <1>3, PTL DEF Spec

-----------------------------------------------------------------------------
(* The wire: the invariant *)

\* While a SEND is under way there is a frame with bytes left to send, the
\* request's iovecs are what is left of it, and a completion counts no more.
Progress ==
    /\ send_in_progress_ => current_frame_state_ # nullopt
    /\ current_frame_state_ # nullopt
         => current_frame_state_.bytes_sent < Total(current_frame_state_)
    /\ sending => current_frame_state_.segments = Segments(current_frame_state_)
    /\ \A i \in SendCqes :
          ok(cq[i]) => /\ cq[i].result >= 1
                       /\ current_frame_state_.bytes_sent + cq[i].result
                             <= Total(current_frame_state_)

\* The queue holds the packets after the first `done' read, in order.
QueueHolds(done) ==
    \A i \in DOMAIN frame_queue_ :
        /\ done + i <= Len(tun_rx)
        /\ mem[frame_queue_[i].bid] = done + i
        /\ frame_queue_[i].size = tun_rx[done + i]

\* The filled completions hold the packets behind those, in order.
CompletionsHold(done) ==
    LET queued == done + Len(frame_queue_)
    IN  /\ \A i \in Filled : /\ mem[cq[i].bid] \in (queued + 1)..Len(tun_rx)
                             /\ cq[i].result = tun_rx[mem[cq[i].bid]]
        /\ \A i, j \in Filled : i < j => mem[cq[i].bid] < mem[cq[j].bid]
        /\ \A p \in (queued + 1)..Len(tun_rx) : \E i \in Filled : mem[cq[i].bid] = p

\* The header of the frame being sent is that of its buffer's bytes.
HeaderHolds ==
    current_frame_state_ # nullopt =>
        current_frame_state_.header = create_frame_header_(current_frame_state_.frame)

\* The frames of the first n packets read.
Stream(n) == FrameStream(SubSeq(tun_rx, 1, n))

\* The first k bytes of the frame being sent, which is that of packet p.
Begun(p, k) == SubSeq(FrameBytes(p, current_frame_state_.frame.size), 1, k)

\* The wire holds the frames of the first `done' packets, and of the frame
\* being sent the bytes accounted for and those a completion tells of.
WireHolds(done) ==
    /\ current_frame_state_ = nullopt => wire = Stream(done)
    /\ current_frame_state_ # nullopt /\ (\A i \in SendCqes : ~ok(cq[i]))
         => wire = Stream(done) \o Begun(done + 1, current_frame_state_.bytes_sent)
    /\ \A i \in SendCqes :
          ok(cq[i]) => wire = Stream(done) \o Begun(done + 1,
                                 current_frame_state_.bytes_sent + cq[i].result)

InOrder ==
    /\ HeaderHolds
    /\ \E done \in 0..Len(tun_rx) :
          QueueHolds(done) /\ CompletionsHold(done) /\ WireHolds(done)

ProgressInv == Running => Progress

WireInv == WireInOrder /\ (Running => InOrder)

\* The sizes of packets that fit the MTU are sizes of packets.
LEMMA SizesType == 1..mtu \subseteq PacketSizes /\ Seq(1..mtu) \subseteq Seq(PacketSizes)
<1>1. 1..mtu \subseteq PacketSizes
  BY TransmitterAssumption DEF PacketSizes
<1>2. ASSUME NEW s \in Seq(1..mtu) PROVE s \in Seq(PacketSizes)
  BY <1>1, SeqMonotonic
<1> QED BY <1>1, <1>2

-----------------------------------------------------------------------------
(* The SEND completion *)

\* A handler of a READ completion moves the SEND completion forward.
LEMMA SendsMove ==
    ASSUME TypeInv, Handles("READ")
    PROVE  /\ \A i \in SendCqes' : i + 1 \in SendCqes /\ cq'[i] = cq[i + 1]
           /\ \A i \in SendCqes : i - 1 \in SendCqes' /\ cq'[i - 1] = cq[i]
<1>1. /\ Len(cq) \in Nat /\ Len(cq) >= 1
      /\ DOMAIN cq = 1..Len(cq) /\ DOMAIN cq' = 1..(Len(cq) - 1)
      /\ \A i \in 1..(Len(cq) - 1) : cq'[i] = cq[i + 1]
      /\ cq[1].type = "READ"
  BY HandledCqe
<1>2. \A i \in SendCqes' : i + 1 \in SendCqes /\ cq'[i] = cq[i + 1]
  BY <1>1 DEF SendCqes
<1>3. ASSUME NEW i \in SendCqes PROVE i - 1 \in SendCqes' /\ cq'[i - 1] = cq[i]
  <2>1. i \in 1..Len(cq) /\ i # 1 /\ i - 1 \in 1..(Len(cq) - 1) /\ (i - 1) + 1 = i
    BY <1>1 DEF SendCqes
  <2>2. cq'[i - 1] = cq[i]
    BY <1>1, <2>1
  <2> QED BY <1>1, <2>1, <2>2 DEF SendCqes
<1> QED BY <1>2, <1>3

\* A completion of another kind leaves the SEND completion as it is.
LEMMA SendsStay ==
    ASSUME TypeInv, NEW cqe \in Cqes, cq' = Append(cq, cqe), cqe.type # "SEND"
    PROVE  SendCqes' = SendCqes /\ \A i \in SendCqes : cq'[i] = cq[i]
<1>1. SendCqes' = SendCqes
  BY OtherPosted
<1> QED BY <1>1, PostedCqe DEF SendCqes

\* The completion of the SEND request is the only one.
LEMMA SendPostedOnce ==
    ASSUME TypeInv, SendCqes = {},
           NEW cqe \in Cqes, cq' = Append(cq, cqe), cqe.type = "SEND"
    PROVE  SendCqes' # {} /\ \A i \in SendCqes' : cq'[i] = cqe
<1>1. SendCqes' # {} /\ \A i, j \in SendCqes' : i = j
  BY SendPosted
<1>2. /\ Len(cq) \in Nat /\ DOMAIN cq' = 1..(Len(cq) + 1) /\ cq'[Len(cq) + 1] = cqe
  BY PostedCqe
<1>3. Len(cq) + 1 \in SendCqes'
  BY <1>2 DEF SendCqes
<1> QED BY <1>1, <1>2, <1>3

\* A handled SEND completion is the one Progress speaks of.
LEMMA SendHandled ==
    ASSUME TypeInv, SendSerialized, Progress, Handles("SEND")
    PROVE  /\ 1 \in SendCqes /\ Head(cq) = cq[1] /\ Head(cq) \in SendDoneCqes
           /\ current_frame_state_ \in FrameStates
           /\ ok(Head(cq)) =>
                /\ Head(cq).result \in Nat /\ Head(cq).result >= 1
                /\ current_frame_state_.bytes_sent + Head(cq).result
                      <= Total(current_frame_state_)
<1>1. /\ Len(cq) \in Nat /\ Len(cq) >= 1 /\ DOMAIN cq = 1..Len(cq)
      /\ Head(cq) = cq[1] /\ cq[1] \in Cqes /\ cq[1].type = "SEND"
  BY HandledCqe
<1>2. 1 \in SendCqes
  BY <1>1 DEF SendCqes
<1>3. current_frame_state_ # nullopt
  BY SendTaken DEF Progress
<1>4. current_frame_state_ \in FrameStates
  BY <1>3 DEF TypeInv, TypeOK
<1>5. Head(cq) \in SendDoneCqes /\ Head(cq).result \in Int
  BY <1>1, CqeFacts
<1> QED BY <1>1, <1>2, <1>4, <1>5 DEF Progress

-----------------------------------------------------------------------------
(* kick_send_ *)

\* The bytes of a frame and those sent of it are numbers.
LEMMA FrameNumbers ==
    ASSUME NEW state \in FrameStates
    PROVE  /\ state.bytes_sent \in Nat /\ state.frame \in Frames
           /\ state.frame.size \in 1..mtu /\ state.frame.bid \in Bids
           /\ Total(state) \in Nat /\ Total(state) = wire_size + state.frame.size
  BY WireSizeAssumption, TransmitterAssumption DEF FrameStates, Frames, Total

\* What kick_send_ leaves when it sends: the frame under way or the oldest
\* one, with the iovecs of what is left of it.
LEMMA KickFrame ==
    ASSUME NEW queue \in Seq(Frames), NEW state \in FrameStates \cup {nullopt},
           mem \in [Bids -> Nat],
           state # nullopt => state.bytes_sent < Total(state),
           kick_send_(queue, state, FALSE), queue # <<>>
    PROVE  /\ run_result' \in {"None", "NotEnoughSqe", "RingSubmitFailed", "NotEnoughMemory"}
           /\ run_result' = "None" =>
                /\ current_frame_state_' \in FrameStates
                /\ current_frame_state_'.bytes_sent < Total(current_frame_state_')
                /\ current_frame_state_'.segments = Segments(current_frame_state_')
                /\ state # nullopt =>
                     /\ current_frame_state_'.bytes_sent = state.bytes_sent
                     /\ current_frame_state_'.frame = state.frame
                     /\ current_frame_state_'.header = state.header
                /\ state = nullopt =>
                     /\ current_frame_state_'.bytes_sent = 0
                     /\ current_frame_state_'.frame = Head(queue)
                     /\ current_frame_state_'.header = create_frame_header_(Head(queue))
<1> DEFINE next == FrameToSend(queue, state)
           set == [next EXCEPT !.segments = Segments(next)]
<1>1. PICK result \in SendResults(state, next) :
        /\ current_frame_state_' = IF result \in SubmitResults(TRUE) THEN set ELSE state
        /\ run_result' = result
  BY Zenon DEF kick_send_
<1>2. Head(queue) \in Frames
  BY TailFacts
<1>3. /\ state # nullopt => next = state
      /\ state = nullopt =>
           /\ next.bytes_sent = 0 /\ next.frame = Head(queue)
           /\ next.header = create_frame_header_(Head(queue))
  BY DEF FrameToSend, NewFrameState, nullopt
<1>4. next.frame \in Frames /\ next.bytes_sent \in Nat /\ next.bytes_sent < Total(next)
  <2>1. CASE state = nullopt
    BY <1>2, <1>3, <2>1, WireSizeAssumption, TransmitterAssumption DEF Frames, Total
  <2>2. CASE state # nullopt
    BY <1>3, <2>2, FrameNumbers
  <2> QED BY <2>1, <2>2
<1>5. FrameFailure(next) = "None"
  <2>1. Total(next) \in Nat
    BY <1>4, WireSizeAssumption, TransmitterAssumption, SMTT(30) DEF Frames, Total
  <2>2. ~(next.bytes_sent >= Total(next))
    BY <1>4, <2>1
  <2>3. /\ next.frame.bid \in 0..(BufferCount - 1) /\ next.frame.size \in 1..mtu
    BY <1>4 DEF Frames, Bids
  <2>4. ~(next.frame.bid >= BufferCount) /\ ~(next.frame.size > mtu)
    BY <2>3, TransmitterAssumption
  <2> QED BY <2>2, <2>4 DEF FrameFailure, get_buffer
<1>6. result \in {"None", "NotEnoughSqe", "RingSubmitFailed", "NotEnoughMemory"}
  BY <1>1, <1>5 DEF SendResults, SubmitResults
<1>7. ASSUME result = "None"
      PROVE  current_frame_state_' = set /\ set \in FrameStates
  <2>1. current_frame_state_' = set
    BY <1>1, <1>7 DEF SubmitResults
  <2>2. set \in FrameStates
    BY <1>4, FrameStateType
  <2> QED BY <2>1, <2>2
<1>8. /\ set.frame = next.frame /\ set.bytes_sent = next.bytes_sent
      /\ set.header = next.header /\ set.segments = Segments(next)
  BY DEF FrameToSend, NewFrameState, nullopt, FrameStates
<1> HIDE DEF set, next
<1>9. Total(set) = Total(next) /\ Segments(set) = Segments(next)
  BY <1>8 DEF Total, Segments
<1> QED BY <1>1, <1>3, <1>4, <1>6, <1>7, <1>8, <1>9

\* The iovecs of the SEND request are the part of the frame not yet sent.
LEMMA IovIs ==
    ASSUME NEW state \in FrameStates, mem \in [Bids -> Nat],
           state.bytes_sent < Total(state), state.segments = Segments(state)
    PROVE  LET frame == FrameOf(state.header, mem[state.frame.bid], state.frame.size)
           IN  /\ Len(Iov(state)) = Total(state) - state.bytes_sent
               /\ Iov(state) = SubSeq(frame, state.bytes_sent + 1, Total(state))
<1> DEFINE h == state.header
           p == mem[state.frame.bid]
           b == state.bytes_sent
           size == state.frame.size
           frame == FrameOf(h, p, size)
           rest == SubSeq(frame, b + 1, wire_size + size)
<1>1. /\ wire_size \in Nat /\ b \in Nat /\ size \in Nat /\ p \in Nat
      /\ b < wire_size + size /\ Total(state) = wire_size + size
  BY WireSizeAssumption, FrameNumbers DEF Total
<1>2. h \in Headers
  BY SizesType DEF FrameStates, Headers
<1> DEFINE header(n) == [k \in 1..n |-> HeaderByte(h, b + k)]
           payload(from, n) == [k \in 1..n |-> PayloadByte(p, from + k)]
<1>3. b < wire_size => Iov(state) = header(wire_size - b) \o payload(0, size)
  <2> SUFFICES ASSUME b < wire_size PROVE Iov(state) = header(wire_size - b) \o payload(0, size)
    OBVIOUS
  <2> DEFINE s1 == [part |-> "header", from |-> b, len |-> wire_size - b]
             s2 == [part |-> "payload", from |-> 0, len |-> size]
  <2>1. state.segments = <<s1, s2>>
    BY DEF Segments
  <2>2. SegmentBytes(state, s1) = header(wire_size - b)
    BY DEF SegmentBytes
  <2>3. SegmentBytes(state, s2) = payload(0, size)
    BY DEF SegmentBytes
  <2> HIDE DEF s1, s2, header, payload
  <2>4. Len(<<s1, s2>>) # 1 /\ <<s1, s2>>[1] = s1 /\ <<s1, s2>>[2] = s2
    OBVIOUS
  <2>5. Iov(state) = SegmentBytes(state, s1) \o SegmentBytes(state, s2)
    BY <2>1, <2>4 DEF Iov
  <2> QED BY <2>2, <2>3, <2>5
<1>4. ~(b < wire_size) => Iov(state) = payload(b - wire_size, size - (b - wire_size))
  <2> SUFFICES ASSUME ~(b < wire_size)
               PROVE  Iov(state) = payload(b - wire_size, size - (b - wire_size))
    OBVIOUS
  <2> DEFINE s == [part |-> "payload", from |-> b - wire_size,
                   len |-> size - (b - wire_size)]
  <2>1. state.segments = <<s>>
    BY DEF Segments
  <2>2. SegmentBytes(state, s) = payload(b - wire_size, size - (b - wire_size))
    BY DEF SegmentBytes
  <2> HIDE DEF s, payload
  <2>3. Len(<<s>>) = 1 /\ <<s>>[1] = s
    OBVIOUS
  <2> QED BY <2>1, <2>2, <2>3 DEF Iov
<1>5. /\ frame \in Seq(Bytes) /\ Len(frame) = wire_size + size
      /\ \A k \in 1..(wire_size + size) :
            frame[k] = IF k <= wire_size THEN HeaderByte(h, k) ELSE PayloadByte(p, k - wire_size)
  <2> HIDE DEF h, p, size, frame
  <2> QED BY <1>1, <1>2, FrameOfType DEF frame
<1> HIDE DEF h, p, b, size, frame
<1>6. /\ rest \in Seq(Bytes) /\ Len(rest) = (wire_size + size) - b
      /\ \A k \in 1..((wire_size + size) - b) : rest[k] = frame[b + k]
  BY <1>1, <1>5, SMTT(30)
<1> HIDE DEF rest
<1>7. CASE b < wire_size
  <2> DEFINE x == header(wire_size - b)
             y == payload(0, size)
  <2>1. /\ x \in [1..(wire_size - b) -> Bytes] /\ wire_size - b \in Nat
        /\ \A k \in 1..(wire_size - b) : x[k] = HeaderByte(h, b + k)
    BY <1>1, <1>2, <1>7, ByteTypes
  <2>2. /\ y \in [1..size -> Bytes]
        /\ \A k \in 1..size : y[k] = PayloadByte(p, k)
    BY <1>1, ByteTypes
  <2> HIDE DEF x, y
  <2>3. x \in Seq(Bytes) /\ Len(x) = wire_size - b /\ y \in Seq(Bytes) /\ Len(y) = size
    BY <1>1, <2>1, <2>2, FunctionIsSeq
  <2>4. /\ x \o y \in Seq(Bytes) /\ Len(x \o y) = (wire_size + size) - b
        /\ \A k \in 1..((wire_size + size) - b) :
              (x \o y)[k] = IF k <= wire_size - b THEN x[k] ELSE y[k - (wire_size - b)]
    <3>1. ASSUME NEW m \in Nat, m = wire_size - b
          PROVE  /\ x \o y \in Seq(Bytes) /\ Len(x \o y) = m + size
                 /\ \A k \in 1..(m + size) :
                       (x \o y)[k] = IF k <= m THEN x[k] ELSE y[k - m]
      <4>1. /\ x \in Seq(Bytes) /\ y \in Seq(Bytes) /\ size \in Nat
            /\ Len(x) = m /\ Len(y) = size
        BY <1>1, <2>3, <3>1
      <4> QED BY <4>1
    <3>2. (wire_size - b) + size = (wire_size + size) - b
      BY <1>1
    <3> QED BY <2>1, <3>1, <3>2
  <2>5. ASSUME NEW k \in 1..((wire_size + size) - b) PROVE (x \o y)[k] = rest[k]
    <3>1. b + k \in 1..(wire_size + size)
      BY <1>1
    <3>2. CASE k <= wire_size - b
      <4>1. k \in 1..(wire_size - b) /\ b + k <= wire_size
        BY <1>1, <3>2
      <4> QED BY <1>5, <1>6, <2>1, <2>4, <3>1, <3>2, <4>1
    <3>3. CASE ~(k <= wire_size - b)
      <4>1. /\ k - (wire_size - b) \in 1..size /\ ~(b + k <= wire_size)
            /\ k - (wire_size - b) = (b + k) - wire_size
        BY <1>1, <1>7, <3>3
      <4> QED BY <1>5, <1>6, <2>2, <2>4, <3>1, <3>3, <4>1
    <3> QED BY <3>2, <3>3
  <2>6. x \o y = rest
    <3> DEFINE z == x \o y
    <3>1. z \in Seq(Bytes) /\ Len(z) = Len(rest) /\ \A k \in 1..Len(z) : z[k] = rest[k]
      BY <1>6, <2>4, <2>5
    <3> HIDE DEF z
    <3>2. z = rest
      BY <1>6, <3>1, SeqEqual
    <3> QED BY <3>2 DEF z
  <2> QED BY <1>1, <1>3, <1>6, <1>7, <2>6 DEF x, y, rest, frame, h, p, b, size
<1>8. CASE ~(b < wire_size)
  <2> DEFINE n == size - (b - wire_size)
             y == payload(b - wire_size, n)
  <2>1. n \in Nat /\ b - wire_size \in Nat /\ n = (wire_size + size) - b
    BY <1>1, <1>8
  <2>2. /\ y \in [1..n -> Bytes]
        /\ \A k \in 1..n : y[k] = PayloadByte(p, (b - wire_size) + k)
    BY <1>1, <2>1, ByteTypes
  <2> HIDE DEF n, y
  <2>3. y \in Seq(Bytes) /\ Len(y) = n
    BY <2>1, <2>2, FunctionIsSeq
  <2>4. ASSUME NEW k \in 1..n PROVE y[k] = rest[k]
    <3>1. /\ b + k \in 1..(wire_size + size) /\ ~(b + k <= wire_size)
          /\ (b - wire_size) + k = (b + k) - wire_size
      BY <1>1, <1>8, <2>1
    <3> QED BY <1>5, <1>6, <2>1, <2>2, <3>1
  <2>5. y = rest
    BY <1>6, <2>1, <2>3, <2>4, SeqEqual
  <2> QED BY <1>1, <1>4, <1>6, <1>8, <2>1, <2>5 DEF n, y, rest, frame, h, p, b, size
<1> QED BY <1>7, <1>8

-----------------------------------------------------------------------------
(* Progress of the SEND, and the internal errors *)

\* What AfterSend leaves of the frame being sent.
LEMMA AfterSendState ==
    ASSUME TypeInv, current_frame_state_ \in FrameStates, NEW sent \in Nat,
           current_frame_state_.bytes_sent + sent <= Total(current_frame_state_)
    PROVE  LET after == AfterSend(sent)
           IN  \/ /\ current_frame_state_.bytes_sent + sent = Total(current_frame_state_)
                  /\ after.state = nullopt
                  /\ frame_queue_ # <<>> /\ after.queue = Tail(frame_queue_)
               \/ /\ current_frame_state_.bytes_sent + sent < Total(current_frame_state_)
                  /\ after.state \in FrameStates
                  /\ after.state.bytes_sent = current_frame_state_.bytes_sent + sent
                  /\ after.state.frame = current_frame_state_.frame
                  /\ after.state.header = current_frame_state_.header
                  /\ after.queue = frame_queue_
<1> DEFINE state == [current_frame_state_ EXCEPT !.bytes_sent = @ + sent]
<1>1. /\ current_frame_state_.bytes_sent \in Nat
      /\ Total(current_frame_state_) \in Nat
  BY FrameNumbers
<1>2. /\ state \in FrameStates
      /\ state.bytes_sent = current_frame_state_.bytes_sent + sent
      /\ state.frame = current_frame_state_.frame
      /\ state.header = current_frame_state_.header
  <2>1. current_frame_state_.bytes_sent + sent \in Nat
    BY <1>1
  <2>2. state = [current_frame_state_ EXCEPT !.bytes_sent
                   = current_frame_state_.bytes_sent + sent]
    OBVIOUS
  <2> QED BY <2>1, <2>2 DEF FrameStates
<1>3. AfterSend(sent) =
        IF state.bytes_sent = Total(state)
        THEN [state |-> nullopt, queue |-> Tail(frame_queue_),
              br |-> return_buffer(br_, state.frame.bid)]
        ELSE [state |-> state, queue |-> frame_queue_, br |-> br_]
  BY DEF AfterSend
<1>4. frame_queue_ # <<>>
  BY NulloptFacts DEF TypeInv, CurrentIsOldest
<1> HIDE DEF state
<1>5. Total(state) = Total(current_frame_state_)
  BY <1>2 DEF Total
<1> QED BY <1>1, <1>2, <1>3, <1>4, <1>5

\* After kick_send_ at the end of a READ handler.
LEMMA ReadKickProgress ==
    ASSUME TypeInv, SendInv, Progress, Handles("READ"), NEW queue \in Seq(Frames),
           kick_send_(queue, current_frame_state_, send_in_progress_),
           run_result' = "None"
    PROVE  Progress'
<1>0. /\ send_in_progress_ \in BOOLEAN /\ sending \in BOOLEAN
      /\ current_frame_state_ \in FrameStates \cup {nullopt}
      /\ mem \in [Bids -> Nat] /\ Running /\ SendSerialized
  BY HandledCqe DEF TypeInv, TypeOK, SendInv
<1>1. /\ \A i \in SendCqes' : i + 1 \in SendCqes /\ cq'[i] = cq[i + 1]
      /\ \A i \in SendCqes : i - 1 \in SendCqes' /\ cq'[i - 1] = cq[i]
  BY SendsMove
<1>2. CASE send_in_progress_ \/ queue = <<>>
  <2>1. /\ send_in_progress_' = send_in_progress_ /\ sending' = sending
        /\ current_frame_state_' = current_frame_state_
    BY <1>2, Zenon DEF kick_send_
  <2>2. \A i \in SendCqes' :
          ok(cq'[i]) => /\ cq'[i].result >= 1
                        /\ current_frame_state_'.bytes_sent + cq'[i].result
                              <= Total(current_frame_state_')
    BY <1>1, <2>1 DEF Progress
  <2>3. /\ send_in_progress_' => current_frame_state_' # nullopt
        /\ current_frame_state_' # nullopt
             => current_frame_state_'.bytes_sent < Total(current_frame_state_')
        /\ sending' => current_frame_state_'.segments = Segments(current_frame_state_')
    BY <2>1 DEF Progress
  <2> QED BY <2>2, <2>3 DEF Progress, ok, Total
<1>3. CASE ~(send_in_progress_ \/ queue = <<>>)
  <2>1. send_in_progress_ = FALSE /\ queue # <<>>
    BY <1>0, <1>3
  <2>2. /\ current_frame_state_' \in FrameStates
        /\ current_frame_state_'.bytes_sent < Total(current_frame_state_')
        /\ current_frame_state_'.segments = Segments(current_frame_state_')
    BY <1>0, <2>1, KickFrame DEF Progress
  <2>3. SendCqes' = {}
    BY <1>0, <1>1, <2>1 DEF SendSerialized
  <2>4. current_frame_state_' # nullopt
    BY <2>2, NulloptFacts
  <2> QED BY <2>2, <2>3, <2>4 DEF Progress, Total
<1> QED BY <1>2, <1>3

\* Every step keeps Progress.
LEMMA NextProgress == TypeInv /\ SendInv /\ ProgressInv /\ [Next]_vars => ProgressInv'
<1> SUFFICES ASSUME TypeInv, SendInv, ProgressInv, [Next]_vars, run_result' = "None"
             PROVE  Progress'
  BY DEF ProgressInv, Running
<1>0. /\ send_in_progress_ \in BOOLEAN /\ sending \in BOOLEAN
      /\ SendSerialized /\ frame_queue_ \in Seq(Frames) /\ mem \in [Bids -> Nat]
      /\ current_frame_state_ \in FrameStates \cup {nullopt}
  BY DEF TypeInv, TypeOK, SendInv
<1>h. ASSUME NEW type, Handles(type) PROVE Progress
  BY <1>h, HandledCqe DEF ProgressInv
<1>1. CASE ReadNoBuffers
  BY <1>0, <1>1, <1>h, ReadKickProgress DEF ReadNoBuffers
<1>2. CASE ReadFailed
  BY <1>2 DEF ReadFailed
<1>3. CASE ReadPacket
  <2> DEFINE frame == [bid |-> Head(cq).bid, size |-> Head(cq).result]
             queue == Append(frame_queue_, frame)
  <2>1. Handles("READ") /\ kick_send_(queue, current_frame_state_, send_in_progress_)
    BY <1>3 DEF ReadPacket
  <2>2. Head(cq) \in ReadCqes
    BY <1>3, HandledCqe, CqeFacts DEF ReadPacket
  <2>3. queue \in Seq(Frames)
    BY <1>0, <2>2, AppendFacts DEF ReadCqes, Frames
  <2> HIDE DEF queue
  <2> QED BY <1>h, <2>1, <2>3, ReadKickProgress
<1>4. CASE ReadRearmFailed
  BY <1>4 DEF ReadRearmFailed
<1>5. CASE ReadNoMemory
  BY <1>5 DEF ReadNoMemory
<1>6. CASE SendFailed
  BY <1>6 DEF SendFailed
<1>7. CASE SendDone
  <2> DEFINE sent == Head(cq).result
             after == AfterSend(sent)
  <2>1. Handles("SEND") /\ kick_send_(after.queue, after.state, FALSE) /\ ok(Head(cq))
    BY <1>7 DEF SendDone, SendFailure
  <2>2. /\ current_frame_state_ \in FrameStates /\ sent \in Nat
        /\ current_frame_state_.bytes_sent + sent <= Total(current_frame_state_)
    BY <1>0, <1>h, <2>1, SendHandled
  <2>3. /\ after.queue \in Seq(Frames) /\ after.state \in FrameStates \cup {nullopt}
    BY <2>2, NulloptFacts, AfterSendType
  <2>4. after.state # nullopt => after.state.bytes_sent < Total(after.state)
    BY <2>2, AfterSendState DEF Total
  <2>5. SendCqes' = {} /\ sending = FALSE
    BY <1>0, <2>1, SendTaken
  <2> HIDE DEF after
  <2>6. CASE after.queue = <<>>
    <3>1. /\ send_in_progress_' = FALSE /\ sending' = sending
          /\ current_frame_state_' = after.state
      BY <2>1, <2>6 DEF kick_send_
    <3> QED BY <2>4, <2>5, <3>1 DEF Progress, Total
  <2>7. CASE after.queue # <<>>
    <3>1. /\ current_frame_state_' \in FrameStates
          /\ current_frame_state_'.bytes_sent < Total(current_frame_state_')
          /\ current_frame_state_'.segments = Segments(current_frame_state_')
      BY <1>0, <2>1, <2>3, <2>4, <2>7, KickFrame
    <3>2. current_frame_state_' # nullopt
      BY <3>1, NulloptFacts
    <3> QED BY <2>5, <3>1, <3>2 DEF Progress, Total
  <2> QED BY <2>6, <2>7
<1>8. CASE SendRearmFailed
  BY <1>8 DEF SendRearmFailed
<1>k. ASSUME NEW cqe \in Cqes, cq' = Append(cq, cqe), cqe.type = "READ",
             KernelStep, UNCHANGED sending
      PROVE  Progress'
  <2>1. SendCqes' = SendCqes /\ \A i \in SendCqes : cq'[i] = cq[i]
    BY <1>k, SendsStay
  <2> QED BY <1>k, <2>1
      DEF KernelStep, own_vars, ProgressInv, Progress, Running, ok, Total, Segments
<1>9. ASSUME NEW size \in 1..mtu, NEW more \in BOOLEAN, KernelRead(size, more)
      PROVE  Progress'
  <2>1. Head(br_) \in Bids
    BY <1>9, TailFacts DEF KernelRead, TypeInv, TypeOK
  <2>2. Cqe("READ", size, Head(br_), more) \in Cqes
    BY <2>1, KernelCqes
  <2> QED BY <1>9, <1>k, <2>2 DEF KernelRead, Cqe
<1>10. CASE KernelReadNoBuffers
  BY <1>10, <1>k, KernelCqes DEF KernelReadNoBuffers, Cqe
<1>11. CASE KernelReadError
  BY <1>11, <1>k, KernelCqes DEF KernelReadError, Cqe
<1>s. ASSUME NEW cqe \in Cqes, cq' = Append(cq, cqe), cqe.type = "SEND",
             KernelStep, sending, sending' = FALSE,
             ok(cqe) => /\ cqe.result >= 1
                        /\ current_frame_state_.bytes_sent + cqe.result
                              <= Total(current_frame_state_)
      PROVE  Progress'
  <2>1. SendCqes = {}
    BY <1>0, <1>s DEF KernelStep, SendSerialized, Running
  <2>2. \A i \in SendCqes' : cq'[i] = cqe
    BY <1>s, <2>1, SendPostedOnce
  <2> QED BY <1>s, <2>2
      DEF KernelStep, own_vars, ProgressInv, Progress, Running, ok, Total, Segments
<1>12. ASSUME NEW n \in 1..(wire_size + mtu), KernelSend(n) PROVE Progress'
  <2>1. /\ current_frame_state_ \in FrameStates
        /\ current_frame_state_.bytes_sent < Total(current_frame_state_)
        /\ current_frame_state_.segments = Segments(current_frame_state_)
    <3>1. Progress /\ sending /\ Running
      BY <1>12 DEF KernelSend, KernelStep, ProgressInv, Running
    <3>2. send_in_progress_
      BY <1>0, <3>1 DEF SendSerialized
    <3> QED BY <1>0, <3>1, <3>2 DEF Progress
  <2>2. Len(Iov(current_frame_state_)) =
          Total(current_frame_state_) - current_frame_state_.bytes_sent
    BY <1>0, <2>1, IovIs
  <2>3. current_frame_state_.bytes_sent + n <= Total(current_frame_state_)
    BY <1>12, <2>1, <2>2, FrameNumbers DEF KernelSend
  <2>4. n >= 1
    BY WireSizeAssumption, TransmitterAssumption
  <2> QED BY <1>12, <1>s, <2>3, <2>4, KernelCqes DEF KernelSend, Cqe
<1>13. CASE KernelSendError
  <2>1. ~ok(Cqe("SEND", -EIO, NoBid, FALSE))
    BY DEF ok, Cqe, EIO
  <2> QED BY <1>13, <1>s, <2>1, KernelCqes DEF KernelSendError, Cqe
<1>14. CASE UNCHANGED vars
  BY <1>14 DEF vars, own_vars, kernel_vars, ProgressInv, Progress, Running, SendCqes,
               ok, Total, Segments
<1> QED BY <1>1, <1>2, <1>3, <1>4, <1>5, <1>6, <1>7, <1>8, <1>9, <1>10, <1>11,
           <1>12, <1>13, <1>14 DEF Next, Handle, Kernel

\* The errors no step ends the session with.
InternalErrors ==
    {"InvalidState", "InvalidBid", "InvalidSize", "ReadCqeMissingBid", "SendReturnedZero"}

\* kick_send_ returns none of them.
LEMMA KickNoInternalError ==
    ASSUME NEW queue \in Seq(Frames), NEW state \in FrameStates \cup {nullopt},
           mem \in [Bids -> Nat],
           state # nullopt => state.bytes_sent < Total(state),
           NEW in_progress \in BOOLEAN,
           kick_send_(queue, state, in_progress)
    PROVE  run_result' \notin InternalErrors
<1>1. CASE in_progress \/ queue = <<>>
  BY <1>1 DEF kick_send_, InternalErrors
<1>2. CASE ~(in_progress \/ queue = <<>>)
  <2>1. in_progress = FALSE /\ queue # <<>>
    BY <1>2
  <2>2. run_result' \in {"None", "NotEnoughSqe", "RingSubmitFailed", "NotEnoughMemory"}
    BY <2>1, KickFrame
  <2> QED BY <2>2 DEF InternalErrors
<1> QED BY <1>1, <1>2

\* No step throws one of the errors the code marks as its own fault.
LEMMA NextNoInternalError ==
    TypeInv /\ SendInv /\ ProgressInv /\ NoInternalError /\ [Next]_vars => NoInternalError'
<1> SUFFICES ASSUME TypeInv, SendInv, ProgressInv, run_result \notin InternalErrors,
                    [Next]_vars
             PROVE  run_result' \notin InternalErrors
  BY DEF NoInternalError, InternalErrors
<1>0. /\ send_in_progress_ \in BOOLEAN
      /\ SendSerialized /\ frame_queue_ \in Seq(Frames) /\ mem \in [Bids -> Nat]
      /\ current_frame_state_ \in FrameStates \cup {nullopt}
  BY DEF TypeInv, TypeOK, SendInv
<1>h. ASSUME NEW type, Handles(type)
      PROVE  /\ Progress
             /\ current_frame_state_ # nullopt
                  => current_frame_state_.bytes_sent < Total(current_frame_state_)
  BY <1>h, HandledCqe DEF ProgressInv, Progress
<1>1. CASE ReadNoBuffers
  <2>1. Handles("READ") /\ kick_send_(frame_queue_, current_frame_state_, send_in_progress_)
    BY <1>1 DEF ReadNoBuffers
  <2> QED BY <1>0, <1>h, <2>1, KickNoInternalError
<1>2. CASE ReadFailed
  BY <1>2 DEF ReadFailed, InternalErrors
<1>3. CASE ReadPacket
  <2> DEFINE frame == [bid |-> Head(cq).bid, size |-> Head(cq).result]
             queue == Append(frame_queue_, frame)
  <2>1. Head(cq) \in ReadCqes
    BY <1>3, HandledCqe, CqeFacts DEF ReadPacket
  <2>2. Head(cq).bid # NoBid /\ frame \in Frames
    BY <2>1 DEF ReadCqes, Frames, Bids, NoBid
  <2>3. queue \in Seq(Frames)
    BY <1>0, <2>2, AppendFacts
  <2>4. Handles("READ") /\ kick_send_(queue, current_frame_state_, send_in_progress_)
    BY <1>3, <2>2 DEF ReadPacket
  <2> HIDE DEF queue
  <2> QED BY <1>0, <1>h, <2>3, <2>4, KickNoInternalError
<1>4. CASE ReadRearmFailed
  BY <1>4 DEF ReadRearmFailed, SubmitResults, InternalErrors
<1>5. CASE ReadNoMemory
  BY <1>5 DEF ReadNoMemory, InternalErrors
<1>6. CASE SendFailed
  <2>1. Handles("SEND") /\ run_result' = SendFailure(Head(cq))
    BY <1>6 DEF SendFailed
  <2>2. /\ current_frame_state_ \in FrameStates
        /\ ok(Head(cq)) =>
             /\ Head(cq).result \in Nat /\ Head(cq).result >= 1
             /\ current_frame_state_.bytes_sent + Head(cq).result
                   <= Total(current_frame_state_)
    BY <1>0, <1>h, <2>1, SendHandled
  <2>3. current_frame_state_ # nullopt
    BY <2>2, NulloptFacts
  <2>4. current_frame_state_.bytes_sent \in Nat /\ Total(current_frame_state_) \in Nat
    BY <2>2, FrameNumbers
  <2>5. CASE ok(Head(cq))
    <3>1. SendFailure(Head(cq)) = "None"
      BY <2>2, <2>3, <2>4, <2>5 DEF SendFailure
    <3> QED BY <2>1, <3>1 DEF InternalErrors
  <2>6. CASE ~ok(Head(cq))
    <3>1. Head(cq).result \in Int
      BY <2>1, HandledCqe, CqeFacts
    <3>2. SendFailure(Head(cq)) = "SendFailed"
      BY <2>6, <3>1 DEF SendFailure, ok
    <3> QED BY <2>1, <3>2 DEF InternalErrors
  <2> QED BY <2>5, <2>6
<1>7. CASE SendDone
  <2> DEFINE sent == Head(cq).result
             after == AfterSend(sent)
  <2>1. Handles("SEND") /\ kick_send_(after.queue, after.state, FALSE) /\ ok(Head(cq))
    BY <1>7 DEF SendDone, SendFailure
  <2>2. /\ current_frame_state_ \in FrameStates /\ sent \in Nat
        /\ current_frame_state_.bytes_sent + sent <= Total(current_frame_state_)
    BY <1>0, <1>h, <2>1, SendHandled
  <2>3. /\ after.queue \in Seq(Frames) /\ after.state \in FrameStates \cup {nullopt}
    BY <2>2, NulloptFacts, AfterSendType
  <2>4. after.state # nullopt => after.state.bytes_sent < Total(after.state)
    BY <2>2, AfterSendState DEF Total
  <2> HIDE DEF after
  <2> QED BY <1>0, <2>1, <2>3, <2>4, KickNoInternalError
<1>8. CASE SendRearmFailed
  BY <1>8 DEF SendRearmFailed, SubmitResults, InternalErrors
<1>9. CASE Kernel
  BY <1>9 DEF Kernel, KernelRead, KernelReadNoBuffers, KernelReadError, KernelSend,
              KernelSendError, KernelStep
<1>10. CASE UNCHANGED vars
  BY <1>10 DEF vars
<1> QED BY <1>1, <1>2, <1>3, <1>4, <1>5, <1>6, <1>7, <1>8, <1>9, <1>10 DEF Next, Handle

\* No frame is under way at the start, and nothing has been thrown.
LEMMA InitProgress == Init => ProgressInv /\ NoInternalError
<1> SUFFICES ASSUME Init PROVE ProgressInv /\ NoInternalError
  OBVIOUS
<1>1. /\ cq = <<>> /\ send_in_progress_ = FALSE /\ sending = FALSE
      /\ current_frame_state_ = nullopt /\ run_result = "None"
  BY DEF Init, Created
<1>2. SendCqes = {}
  BY <1>1 DEF SendCqes
<1> QED BY <1>1, <1>2 DEF ProgressInv, Progress, NoInternalError

\* For every buffer count and MTU: a SEND always has a frame with bytes left
\* to send, sendmsg never accounts for more bytes than it was given, and so
\* none of the errors kick_send_ and the handlers keep for broken invariants
\* ever ends the session.
THEOREM NoInternalErrors == Spec => []NoInternalError
<1>1. TypeInv /\ SendInv /\ ProgressInv /\ NoInternalError /\ [Next]_vars
        => TypeInv' /\ SendInv' /\ ProgressInv' /\ NoInternalError'
  BY NextTypeInv, NextSendInv, NextProgress, NextNoInternalError
<1>2. Init => TypeInv /\ SendInv /\ ProgressInv /\ NoInternalError
  BY InitTypeInv, InitRequests, InitProgress
<1> QED BY <1>1, <1>2, PTL DEF Spec

-----------------------------------------------------------------------------
(* The packets in the queue and in the completions *)

\* The numbers the two definitions are about.
LEMMA PacketNumbers ==
    ASSUME TypeInv
    PROVE  /\ Len(frame_queue_) \in Nat /\ DOMAIN frame_queue_ = 1..Len(frame_queue_)
           /\ Len(tun_rx) \in Nat /\ \A p \in 1..Len(tun_rx) : tun_rx[p] \in 1..mtu
           /\ \A bid \in Bids : mem[bid] \in Nat
           /\ \A i \in DOMAIN frame_queue_ : frame_queue_[i].bid \in Bids
           /\ Filled \subseteq Int
           /\ \A i \in Filled : cq[i].bid \in Bids
<1>1. frame_queue_ \in Seq(Frames) /\ tun_rx \in Seq(1..mtu)
  BY DEF TypeInv, TypeOK
<1>2. mem \in [Bids -> Nat] /\ cq \in Seq(Cqes)
  BY DEF TypeInv, TypeOK, Cqes
<1>3. Len(frame_queue_) \in Nat /\ DOMAIN frame_queue_ = 1..Len(frame_queue_)
  BY <1>1
<1>4. Len(tun_rx) \in Nat /\ \A p \in 1..Len(tun_rx) : tun_rx[p] \in 1..mtu
  <2> DEFINE S == 1..mtu
  <2>1. tun_rx \in Seq(S)
    BY <1>1
  <2> HIDE DEF S
  <2>2. Len(tun_rx) \in Nat /\ \A p \in 1..Len(tun_rx) : tun_rx[p] \in S
    BY <2>1
  <2> QED BY <2>2 DEF S
<1>5. ASSUME NEW i \in 1..Len(frame_queue_) PROVE frame_queue_[i].bid \in Bids
  <2>1. frame_queue_[i] \in Frames
    BY <1>1
  <2> QED BY <2>1 DEF Frames
<1>6. ASSUME NEW i \in Filled PROVE i \in Int /\ cq[i].bid \in Bids
  <2>1. i \in 1..Len(cq) /\ cq[i] \in Cqes /\ cq[i].type = "READ" /\ ok(cq[i])
    BY <1>2 DEF Filled
  <2>2. cq[i] \in ReadCqes
    BY <2>1, CqeFacts
  <2> QED BY <1>2, <2>1, <2>2 DEF ReadCqes
<1> QED BY <1>2, <1>3, <1>4, <1>5, <1>6

\* A completion without a packet is taken.
LEMMA TakenHolds ==
    ASSUME TypeInv, NEW done \in Nat, QueueHolds(done), CompletionsHold(done),
           NEW type, Handles(type), type # "READ" \/ ~ok(Head(cq)),
           UNCHANGED frame_queue_
    PROVE  QueueHolds(done)' /\ CompletionsHold(done)'
<1>1. /\ Filled \subseteq Int /\ Filled' \subseteq Int
      /\ \A i \in Filled' : i + 1 \in Filled /\ cq'[i] = cq[i + 1]
      /\ \A i \in Filled : i - 1 \in Filled' /\ cq'[i - 1] = cq[i]
  BY FilledTaken
<1>2. UNCHANGED <<mem, tun_rx>>
  BY DEF Handles
<1>3. QueueHolds(done)'
  BY <1>2 DEF QueueHolds
<1> DEFINE queued == done + Len(frame_queue_)
<1>4. \A i \in Filled' : /\ mem[cq'[i].bid] \in (queued + 1)..Len(tun_rx)
                         /\ cq'[i].result = tun_rx[mem[cq'[i].bid]]
  BY <1>1, SMTT(30) DEF CompletionsHold
<1>5. \A i, j \in Filled' : i < j => mem[cq'[i].bid] < mem[cq'[j].bid]
  <2> SUFFICES ASSUME NEW i \in Filled', NEW j \in Filled', i < j
               PROVE  mem[cq'[i].bid] < mem[cq'[j].bid]
    OBVIOUS
  <2>1. i + 1 \in Filled /\ j + 1 \in Filled /\ i + 1 < j + 1
    BY <1>1
  <2> QED BY <1>1, <2>1 DEF CompletionsHold
<1>6. \A p \in (queued + 1)..Len(tun_rx) : \E i \in Filled' : mem[cq'[i].bid] = p
  <2> SUFFICES ASSUME NEW p \in (queued + 1)..Len(tun_rx)
               PROVE  \E i \in Filled' : mem[cq'[i].bid] = p
    OBVIOUS
  <2>1. PICK i \in Filled : mem[cq[i].bid] = p
    BY DEF CompletionsHold
  <2>2. i - 1 \in Filled' /\ cq'[i - 1] = cq[i]
    BY <1>1
  <2> QED BY <2>1, <2>2
<1>7. CompletionsHold(done)'
  BY <1>2, <1>4, <1>5, <1>6 DEF CompletionsHold
<1> QED BY <1>3, <1>7

\* A packet moves from its completion to the queue: it is the next one.
LEMMA PacketQueued ==
    ASSUME TypeInv, NEW done \in Nat, QueueHolds(done), CompletionsHold(done),
           Handles("READ"), ok(Head(cq)),
           frame_queue_' = Append(frame_queue_,
                                  [bid |-> Head(cq).bid, size |-> Head(cq).result])
    PROVE  QueueHolds(done)' /\ CompletionsHold(done)'
<1> DEFINE frame == [bid |-> Head(cq).bid, size |-> Head(cq).result]
           queued == done + Len(frame_queue_)
<1>1. /\ Filled \subseteq Int /\ Filled' \subseteq Int
      /\ \A i \in Filled' : i + 1 \in Filled /\ cq'[i] = cq[i + 1] /\ i >= 1
      /\ \A i \in Filled : i # 1 => i - 1 \in Filled' /\ cq'[i - 1] = cq[i]
      /\ 1 \in Filled /\ Head(cq) = cq[1]
  BY FilledTaken
<1>2. UNCHANGED <<mem, tun_rx>>
  BY DEF Handles
<1>3. \A i \in Filled : i >= 1
  BY HandledCqe DEF Filled
<1>4. /\ Len(tun_rx) \in Nat /\ queued \in Nat /\ queued = done + Len(frame_queue_)
      /\ \A i \in Filled : mem[cq[i].bid] \in Nat
  BY PacketNumbers
<1> HIDE DEF queued
<1>5. mem[cq[1].bid] = queued + 1
  <2>1. mem[cq[1].bid] \in (queued + 1)..Len(tun_rx)
    BY <1>1, <1>4 DEF CompletionsHold
  <2>2. queued + 1 \in (queued + 1)..Len(tun_rx)
    BY <1>4, <2>1
  <2>3. PICK i \in Filled : mem[cq[i].bid] = queued + 1
    BY <1>4, <2>2 DEF CompletionsHold
  <2>4. i # 1 => mem[cq[1].bid] < mem[cq[i].bid]
    BY <1>1, <1>3 DEF CompletionsHold
  <2> QED BY <1>4, <2>1, <2>3, <2>4
<1>6. frame \in Frames /\ frame.bid = cq[1].bid /\ frame.size = cq[1].result
  <2>1. Head(cq) \in ReadCqes
    BY HandledCqe, CqeFacts
  <2> QED BY <1>1, <2>1 DEF ReadCqes, Frames
<1> HIDE DEF frame
<1>7. /\ DOMAIN frame_queue_ = 1..Len(frame_queue_) /\ Len(frame_queue_) \in Nat
      /\ Len(frame_queue_') = Len(frame_queue_) + 1
      /\ DOMAIN frame_queue_' = 1..(Len(frame_queue_) + 1)
      /\ \A i \in 1..Len(frame_queue_) : frame_queue_'[i] = frame_queue_[i]
      /\ frame_queue_'[Len(frame_queue_) + 1] = frame
  BY <1>6, AppendFacts DEF frame, TypeInv, TypeOK
<1>8. QueueHolds(done)'
  <2> SUFFICES ASSUME NEW i \in DOMAIN frame_queue_'
               PROVE  /\ done + i <= Len(tun_rx)
                      /\ mem[frame_queue_'[i].bid] = done + i
                      /\ frame_queue_'[i].size = tun_rx[done + i]
    BY <1>2 DEF QueueHolds
  <2>1. CASE i \in DOMAIN frame_queue_
    BY <1>7, <2>1 DEF QueueHolds
  <2>2. CASE i = Len(frame_queue_) + 1
    <3>1. done + i = queued + 1
      BY <1>4, <1>7, <2>2
    <3>2. /\ mem[cq[1].bid] \in (queued + 1)..Len(tun_rx)
          /\ cq[1].result = tun_rx[mem[cq[1].bid]]
      BY <1>1, <1>4 DEF CompletionsHold
    <3> QED BY <1>4, <1>5, <1>6, <1>7, <2>2, <3>1, <3>2
  <2> QED BY <1>7, <2>1, <2>2
<1>9. done + Len(frame_queue_') = queued + 1
  BY <1>4, <1>7
<1>10. \A i \in Filled' : /\ mem[cq'[i].bid] \in ((queued + 1) + 1)..Len(tun_rx)
                          /\ cq'[i].result = tun_rx[mem[cq'[i].bid]]
  <2> SUFFICES ASSUME NEW i \in Filled'
               PROVE  /\ mem[cq'[i].bid] \in ((queued + 1) + 1)..Len(tun_rx)
                      /\ cq'[i].result = tun_rx[mem[cq'[i].bid]]
    OBVIOUS
  <2>1. i + 1 \in Filled /\ 1 < i + 1 /\ cq'[i] = cq[i + 1] /\ 1 \in Filled
    BY <1>1
  <2>2. /\ mem[cq[i + 1].bid] \in (queued + 1)..Len(tun_rx)
        /\ cq[i + 1].result = tun_rx[mem[cq[i + 1].bid]]
        /\ mem[cq[1].bid] < mem[cq[i + 1].bid]
    BY <1>4, <2>1 DEF CompletionsHold
  <2> QED BY <1>4, <1>5, <2>1, <2>2
<1>11. \A i, j \in Filled' : i < j => mem[cq'[i].bid] < mem[cq'[j].bid]
  <2> SUFFICES ASSUME NEW i \in Filled', NEW j \in Filled', i < j
               PROVE  mem[cq'[i].bid] < mem[cq'[j].bid]
    OBVIOUS
  <2>1. i + 1 \in Filled /\ j + 1 \in Filled /\ i + 1 < j + 1
    BY <1>1
  <2> QED BY <1>1, <2>1 DEF CompletionsHold
<1>12. \A p \in ((queued + 1) + 1)..Len(tun_rx) : \E i \in Filled' : mem[cq'[i].bid] = p
  <2> SUFFICES ASSUME NEW p \in ((queued + 1) + 1)..Len(tun_rx)
               PROVE  \E i \in Filled' : mem[cq'[i].bid] = p
    OBVIOUS
  <2>1. p \in (queued + 1)..Len(tun_rx) /\ p # queued + 1
    BY <1>4
  <2>2. PICK i \in Filled : mem[cq[i].bid] = p
    BY <1>4, <2>1 DEF CompletionsHold
  <2>3. i - 1 \in Filled' /\ cq'[i - 1] = cq[i]
    BY <1>1, <1>5, <2>1, <2>2
  <2> QED BY <2>2, <2>3
<1>13. CompletionsHold(done)'
  BY <1>2, <1>9, <1>10, <1>11, <1>12 DEF CompletionsHold
<1> QED BY <1>8, <1>13

\* The frame at the head of the queue has been sent: one packet more is done.
LEMMA FrameReturned ==
    ASSUME TypeInv, NEW done \in Nat, QueueHolds(done), CompletionsHold(done),
           Handles("SEND"), frame_queue_ # <<>>, frame_queue_' = Tail(frame_queue_)
    PROVE  QueueHolds(done + 1)' /\ CompletionsHold(done + 1)'
<1>1. /\ Filled \subseteq Int /\ Filled' \subseteq Int
      /\ \A i \in Filled' : i + 1 \in Filled /\ cq'[i] = cq[i + 1]
      /\ \A i \in Filled : i - 1 \in Filled' /\ cq'[i - 1] = cq[i]
  BY FilledTaken
<1>2. UNCHANGED <<mem, tun_rx>>
  BY DEF Handles
<1>3. /\ Len(frame_queue_) \in Nat /\ Len(frame_queue_') = Len(frame_queue_) - 1
      /\ DOMAIN frame_queue_ = 1..Len(frame_queue_)
      /\ DOMAIN frame_queue_' = 1..(Len(frame_queue_) - 1)
      /\ \A i \in 1..(Len(frame_queue_) - 1) : frame_queue_'[i] = frame_queue_[i + 1]
  BY TailFacts DEF TypeInv, TypeOK
<1>4. QueueHolds(done + 1)'
  <2> SUFFICES ASSUME NEW i \in DOMAIN frame_queue_'
               PROVE  /\ (done + 1) + i <= Len(tun_rx)
                      /\ mem[frame_queue_'[i].bid] = (done + 1) + i
                      /\ frame_queue_'[i].size = tun_rx[(done + 1) + i]
    BY <1>2 DEF QueueHolds
  <2>1. /\ i + 1 \in DOMAIN frame_queue_ /\ frame_queue_'[i] = frame_queue_[i + 1]
        /\ (done + 1) + i = done + (i + 1)
    BY <1>3
  <2> QED BY <2>1 DEF QueueHolds
<1>5. (done + 1) + Len(frame_queue_') = done + Len(frame_queue_)
  BY <1>3
<1> DEFINE queued == done + Len(frame_queue_)
<1>6. \A i \in Filled' : /\ mem[cq'[i].bid] \in (queued + 1)..Len(tun_rx)
                         /\ cq'[i].result = tun_rx[mem[cq'[i].bid]]
  BY <1>1, SMTT(30) DEF CompletionsHold
<1>7. \A i, j \in Filled' : i < j => mem[cq'[i].bid] < mem[cq'[j].bid]
  <2> SUFFICES ASSUME NEW i \in Filled', NEW j \in Filled', i < j
               PROVE  mem[cq'[i].bid] < mem[cq'[j].bid]
    OBVIOUS
  <2>1. i + 1 \in Filled /\ j + 1 \in Filled /\ i + 1 < j + 1
    BY <1>1
  <2> QED BY <1>1, <2>1 DEF CompletionsHold
<1>8. \A p \in (queued + 1)..Len(tun_rx) : \E i \in Filled' : mem[cq'[i].bid] = p
  <2> SUFFICES ASSUME NEW p \in (queued + 1)..Len(tun_rx)
               PROVE  \E i \in Filled' : mem[cq'[i].bid] = p
    OBVIOUS
  <2>1. PICK i \in Filled : mem[cq[i].bid] = p
    BY DEF CompletionsHold
  <2>2. i - 1 \in Filled' /\ cq'[i - 1] = cq[i]
    BY <1>1
  <2> QED BY <2>1, <2>2
<1>9. CompletionsHold(done + 1)'
  BY <1>2, <1>5, <1>6, <1>7, <1>8 DEF CompletionsHold
<1> QED BY <1>4, <1>9

\* The kernel fills a free buffer: no queued or completed packet is in it.
LEMMA PacketRead ==
    ASSUME TypeInv, Owned, NEW done \in 0..Len(tun_rx),
           QueueHolds(done), CompletionsHold(done),
           NEW size \in 1..mtu, NEW more \in BOOLEAN, KernelRead(size, more)
    PROVE  /\ QueueHolds(done)' /\ CompletionsHold(done)'
           /\ \A i \in DOMAIN frame_queue_ :
                 mem'[frame_queue_[i].bid] = mem[frame_queue_[i].bid]
<1> DEFINE bid == Head(br_)
           cqe == Cqe("READ", size, bid, more)
           queued == done + Len(frame_queue_)
<1>1. bid \in Bids /\ 1 \in DOMAIN br_ /\ bid = br_[1]
  BY TailFacts DEF TypeInv, TypeOK, KernelRead
<1>2. /\ mem' = [mem EXCEPT ![bid] = Len(tun_rx) + 1] /\ mem \in [Bids -> Nat]
      /\ tun_rx' = Append(tun_rx, size) /\ tun_rx \in Seq(1..mtu)
      /\ cq' = Append(cq, cqe) /\ frame_queue_' = frame_queue_
  BY DEF KernelRead, KernelStep, own_vars, TypeInv, TypeOK
<1>3. /\ cqe \in Cqes /\ cqe.type = "READ" /\ ok(cqe)
      /\ cqe.bid = bid /\ cqe.result = size
  <2>1. cqe \in Cqes
    BY <1>1, KernelCqes
  <2>2. size >= 0
    BY TransmitterAssumption
  <2> QED BY <2>1, <2>2 DEF Cqe, ok
<1> HIDE DEF cqe
<1>4. /\ Len(cq) \in Nat /\ Filled \subseteq 1..Len(cq)
      /\ Filled' = Filled \cup {Len(cq) + 1}
      /\ \A i \in Filled : cq'[i] = cq[i]
      /\ cq'[Len(cq) + 1] = cqe
  BY <1>2, <1>3, FilledPosted
<1>5. /\ Len(tun_rx) \in Nat /\ Len(tun_rx') = Len(tun_rx) + 1
      /\ \A p \in 1..Len(tun_rx) : tun_rx'[p] = tun_rx[p]
      /\ tun_rx'[Len(tun_rx) + 1] = size
  BY <1>2, AppendFacts
<1>6. /\ Len(frame_queue_) \in Nat /\ DOMAIN frame_queue_ = 1..Len(frame_queue_)
      /\ \A i \in DOMAIN frame_queue_ : frame_queue_[i].bid \in Bids
      /\ \A i \in Filled : cq[i].bid \in Bids
  BY PacketNumbers
<1>7. /\ \A i \in DOMAIN frame_queue_ : frame_queue_[i].bid # bid
      /\ \A i \in Filled : cq[i].bid # bid
  BY <1>1 DEF Owned, FreeNotQueued, FreeNotFilled
<1>8. /\ mem'[bid] = Len(tun_rx) + 1
      /\ \A i \in DOMAIN frame_queue_ :
            mem'[frame_queue_[i].bid] = mem[frame_queue_[i].bid]
      /\ \A i \in Filled : mem'[cq[i].bid] = mem[cq[i].bid]
  BY <1>1, <1>2, <1>6, <1>7
<1> HIDE DEF bid
<1>9. QueueHolds(done)'
  <2> SUFFICES ASSUME NEW i \in DOMAIN frame_queue_
               PROVE  /\ done + i <= Len(tun_rx')
                      /\ mem'[frame_queue_[i].bid] = done + i
                      /\ frame_queue_[i].size = tun_rx'[done + i]
    BY <1>2 DEF QueueHolds
  <2>1. /\ done + i <= Len(tun_rx) /\ mem[frame_queue_[i].bid] = done + i
        /\ frame_queue_[i].size = tun_rx[done + i]
    BY DEF QueueHolds
  <2>2. done + i \in 1..Len(tun_rx)
    BY <1>6, <2>1
  <2> QED BY <1>5, <1>8, <2>1, <2>2
<1>10. queued \in Nat /\ queued <= Len(tun_rx)
  <2>1. CASE Len(frame_queue_) = 0
    BY <1>5, <2>1
  <2>2. CASE Len(frame_queue_) # 0
    <3>1. Len(frame_queue_) \in DOMAIN frame_queue_
      BY <1>6, <2>2
    <3> QED BY <1>5, <1>6, <3>1 DEF QueueHolds
  <2> QED BY <2>1, <2>2
<1>11. queued = done + Len(frame_queue_')
  BY <1>2
<1>12. \A i \in Filled : /\ mem[cq[i].bid] \in (queued + 1)..Len(tun_rx)
                         /\ cq[i].result = tun_rx[mem[cq[i].bid]]
  BY DEF CompletionsHold
<1>13. \A i, j \in Filled : i < j => mem[cq[i].bid] < mem[cq[j].bid]
  BY DEF CompletionsHold
<1>14. \A p \in (queued + 1)..Len(tun_rx) : \E i \in Filled : mem[cq[i].bid] = p
  BY DEF CompletionsHold
<1> HIDE DEF queued
<1>15. \A i \in Filled' : /\ mem'[cq'[i].bid] \in (queued + 1)..Len(tun_rx')
                          /\ cq'[i].result = tun_rx'[mem'[cq'[i].bid]]
  <2> SUFFICES ASSUME NEW i \in Filled'
               PROVE  /\ mem'[cq'[i].bid] \in (queued + 1)..Len(tun_rx')
                      /\ cq'[i].result = tun_rx'[mem'[cq'[i].bid]]
    OBVIOUS
  <2>1. CASE i \in Filled
    <3>1. /\ mem'[cq'[i].bid] = mem[cq[i].bid] /\ cq'[i] = cq[i]
          /\ mem[cq[i].bid] \in (queued + 1)..Len(tun_rx)
          /\ cq[i].result = tun_rx[mem[cq[i].bid]]
      BY <1>4, <1>8, <1>12, <2>1
    <3>2. mem[cq[i].bid] \in 1..Len(tun_rx)
      BY <1>10, <3>1
    <3> QED BY <1>5, <1>10, <3>1, <3>2
  <2>2. CASE i = Len(cq) + 1
    BY <1>3, <1>4, <1>5, <1>8, <1>10, <2>2
  <2> QED BY <1>4, <2>1, <2>2
<1>16. \A i, j \in Filled' : i < j => mem'[cq'[i].bid] < mem'[cq'[j].bid]
  <2> SUFFICES ASSUME NEW i \in Filled', NEW j \in Filled', i < j
               PROVE  mem'[cq'[i].bid] < mem'[cq'[j].bid]
    OBVIOUS
  <2>1. i \in Filled
    BY <1>4
  <2>2. CASE j \in Filled
    BY <1>4, <1>8, <1>13, <2>1, <2>2
  <2>3. CASE j = Len(cq) + 1
    <3>1. mem'[cq'[i].bid] = mem[cq[i].bid] /\ mem[cq[i].bid] \in (queued + 1)..Len(tun_rx)
      BY <1>4, <1>8, <1>12, <2>1
    <3> QED BY <1>3, <1>4, <1>5, <1>8, <1>10, <2>3, <3>1
  <2> QED BY <1>4, <2>2, <2>3
<1>17. \A p \in (queued + 1)..Len(tun_rx') : \E i \in Filled' : mem'[cq'[i].bid] = p
  <2> SUFFICES ASSUME NEW p \in (queued + 1)..Len(tun_rx')
               PROVE  \E i \in Filled' : mem'[cq'[i].bid] = p
    OBVIOUS
  <2>1. CASE p = Len(tun_rx) + 1
    BY <1>3, <1>4, <1>8, <2>1
  <2>2. CASE p # Len(tun_rx) + 1
    <3>1. p \in (queued + 1)..Len(tun_rx)
      BY <1>5, <1>10, <2>2
    <3> QED BY <1>4, <1>8, <1>14, <3>1
  <2> QED BY <2>1, <2>2
<1>18. CompletionsHold(done)'
  BY <1>11, <1>15, <1>16, <1>17 DEF CompletionsHold
<1> QED BY <1>8, <1>9, <1>18

-----------------------------------------------------------------------------
(* The bytes on the wire *)

\* The streams WireHolds speaks of.
LEMMA StreamNumbers ==
    ASSUME TypeInv, NEW done \in 0..Len(tun_rx)
    PROVE  /\ Stream(done) \in Seq(Bytes)
           /\ \A frame \in Frames :
                 /\ FrameBytes(done + 1, frame.size) \in Seq(Bytes)
                 /\ Len(FrameBytes(done + 1, frame.size)) = wire_size + frame.size
<1>1. tun_rx \in Seq(1..mtu) /\ done \in Nat /\ done <= Len(tun_rx)
  BY DEF TypeInv, TypeOK
<1>2. SubSeq(tun_rx, 1, done) \in Seq(PacketSizes) /\ 1 \in PacketSizes
  <2>1. tun_rx \in Seq(PacketSizes)
    BY <1>1, SizesType
  <2> QED BY <1>1, <2>1, PrefixFacts DEF PacketSizes
<1>3. Stream(done) \in Seq(Bytes)
  BY <1>2, StreamAppend DEF Stream
<1>4. ASSUME NEW frame \in Frames
      PROVE  /\ FrameBytes(done + 1, frame.size) \in Seq(Bytes)
             /\ Len(FrameBytes(done + 1, frame.size)) = wire_size + frame.size
  <2>1. frame.size \in 1..mtu /\ done + 1 \in Nat
    BY <1>1 DEF Frames
  <2>2. frame.size \in PacketSizes
    BY <2>1, SizesType
  <2> QED BY <2>1, <2>2, FrameBytesType
<1> QED BY <1>3, <1>4

\* After kick_send_ from a state in which the wire holds what was sent.
LEMMA KickWire ==
    ASSUME TypeInv, NEW queue \in Seq(Frames),
           NEW state \in FrameStates \cup {nullopt},
           state # nullopt => state.bytes_sent < Total(state),
           state # nullopt => state.header = create_frame_header_(state.frame),
           kick_send_(queue, state, FALSE), run_result' = "None",
           UNCHANGED <<mem, tun_rx, wire>>, SendCqes' = {},
           NEW done \in 0..Len(tun_rx),
           state = nullopt => wire = Stream(done),
           state # nullopt =>
             wire = Stream(done)
                      \o SubSeq(FrameBytes(done + 1, state.frame.size), 1, state.bytes_sent)
    PROVE  HeaderHolds' /\ WireHolds(done)'
<1>0. mem \in [Bids -> Nat]
  BY DEF TypeInv, TypeOK
<1>1. CASE queue = <<>>
  <2>1. current_frame_state_' = state
    BY <1>1 DEF kick_send_
  <2>2. HeaderHolds'
    BY <2>1 DEF HeaderHolds, create_frame_header_, Payload
  <2>3. WireHolds(done)'
    BY <2>1 DEF WireHolds, Stream, Begun
  <2> QED BY <2>2, <2>3
<1>2. CASE queue # <<>>
  <2>1. /\ current_frame_state_' \in FrameStates
        /\ state # nullopt =>
             /\ current_frame_state_'.bytes_sent = state.bytes_sent
             /\ current_frame_state_'.frame = state.frame
             /\ current_frame_state_'.header = state.header
        /\ state = nullopt =>
             /\ current_frame_state_'.bytes_sent = 0
             /\ current_frame_state_'.frame = Head(queue)
             /\ current_frame_state_'.header = create_frame_header_(Head(queue))
    BY <1>0, <1>2, KickFrame
  <2>2. current_frame_state_'.header = create_frame_header_(current_frame_state_'.frame)
    BY <2>1
  <2>3. HeaderHolds'
    BY <2>2 DEF HeaderHolds, create_frame_header_, Payload
  <2>4. wire = Stream(done) \o SubSeq(FrameBytes(done + 1, current_frame_state_'.frame.size),
                                      1, current_frame_state_'.bytes_sent)
    <3>1. CASE state # nullopt
      BY <2>1, <3>1
    <3>2. CASE state = nullopt
      <4> DEFINE frame == FrameBytes(done + 1, Head(queue).size)
      <4>1. Head(queue) \in Frames
        BY <1>2, TailFacts
      <4>2. Stream(done) \in Seq(Bytes) /\ frame \in Seq(Bytes)
        BY <4>1, StreamNumbers
      <4> HIDE DEF frame
      <4>3. SubSeq(frame, 1, 0) = <<>>
        BY <4>2
      <4>4. Stream(done) \o <<>> = Stream(done)
        BY <4>2, ConcatEmptySeq
      <4>5. wire = Stream(done) \o SubSeq(frame, 1, 0)
        BY <3>2, <4>3, <4>4
      <4> QED BY <2>1, <3>2, <4>5 DEF frame
    <3> QED BY <3>1, <3>2
  <2>5. current_frame_state_' # nullopt
    BY <2>1, NulloptFacts
  <2>6. WireHolds(done)'
    BY <2>4, <2>5 DEF WireHolds, Stream, Begun
  <2> QED BY <2>3, <2>6
<1> QED BY <1>1, <1>2

\* A handler of a READ completion: a frame under way goes on, and the first
\* queued one is begun.
LEMMA ReadKickWire ==
    ASSUME TypeInv, SendInv, Progress, HeaderHolds, Handles("READ"),
           NEW done \in 0..Len(tun_rx), WireHolds(done),
           NEW queue \in Seq(Frames),
           kick_send_(queue, current_frame_state_, send_in_progress_),
           run_result' = "None"
    PROVE  HeaderHolds' /\ WireHolds(done)'
<1>0. /\ send_in_progress_ \in BOOLEAN
      /\ current_frame_state_ \in FrameStates \cup {nullopt}
      /\ Running /\ SendSerialized
  BY HandledCqe DEF TypeInv, TypeOK, SendInv
<1>1. /\ \A i \in SendCqes' : i + 1 \in SendCqes /\ cq'[i] = cq[i + 1]
      /\ \A i \in SendCqes : i - 1 \in SendCqes' /\ cq'[i - 1] = cq[i]
  BY SendsMove
<1>2. UNCHANGED <<mem, tun_rx, wire>>
  BY DEF Handles
<1>3. CASE send_in_progress_ \/ queue = <<>>
  <2>1. current_frame_state_' = current_frame_state_
    BY <1>3, Zenon DEF kick_send_
  <2>2. HeaderHolds'
    BY <1>2, <2>1 DEF HeaderHolds, create_frame_header_, Payload
  <2>3. (\A i \in SendCqes' : ~ok(cq'[i])) => (\A i \in SendCqes : ~ok(cq[i]))
    BY <1>1
  <2>4. \A i \in SendCqes' : ok(cq'[i]) =>
           wire = Stream(done) \o Begun(done + 1, current_frame_state_.bytes_sent + cq'[i].result)
    BY <1>1, ZenonT(40) DEF WireHolds
  <2>5. WireHolds(done)'
    BY <1>2, <2>1, <2>3, <2>4 DEF WireHolds, Stream, Begun, ok
  <2> QED BY <2>2, <2>5
<1>4. CASE ~(send_in_progress_ \/ queue = <<>>)
  <2>1. send_in_progress_ = FALSE /\ queue # <<>>
    BY <1>0, <1>4
  <2>2. SendCqes = {} /\ SendCqes' = {}
    BY <1>0, <1>1, <2>1 DEF SendSerialized
  <2>3. current_frame_state_ # nullopt =>
          /\ current_frame_state_.bytes_sent < Total(current_frame_state_)
          /\ current_frame_state_.header = create_frame_header_(current_frame_state_.frame)
    BY DEF Progress, HeaderHolds
  <2>4. /\ current_frame_state_ = nullopt => wire = Stream(done)
        /\ current_frame_state_ # nullopt =>
             wire = Stream(done)
                      \o SubSeq(FrameBytes(done + 1, current_frame_state_.frame.size), 1,
                                current_frame_state_.bytes_sent)
    BY <2>2 DEF WireHolds, Begun
  <2>5. kick_send_(queue, current_frame_state_, FALSE)
    BY <2>1
  <2> QED BY <1>0, <1>2, <2>2, <2>3, <2>4, <2>5, KickWire
<1> QED BY <1>3, <1>4

\* The frame being sent is that of the packet after those done.
LEMMA CurrentIsNext ==
    ASSUME TypeInv, current_frame_state_ \in FrameStates,
           NEW done \in 0..Len(tun_rx), QueueHolds(done)
    PROVE  /\ frame_queue_ # <<>>
           /\ done + 1 \in 1..Len(tun_rx)
           /\ current_frame_state_.frame.size = tun_rx[done + 1]
           /\ mem[current_frame_state_.frame.bid] = done + 1
<1>1. frame_queue_ # <<>> /\ Head(frame_queue_) = current_frame_state_.frame
  BY NulloptFacts DEF TypeInv, CurrentIsOldest
<1>2. frame_queue_ \in Seq(Frames) /\ tun_rx \in Seq(1..mtu)
  BY DEF TypeInv, TypeOK
<1>3. 1 \in DOMAIN frame_queue_ /\ Head(frame_queue_) = frame_queue_[1]
  BY <1>1, <1>2, TailFacts
<1>4. done + 1 <= Len(tun_rx)
  BY <1>3 DEF QueueHolds
<1>5. Len(tun_rx) \in Nat
  BY <1>2
<1> QED BY <1>1, <1>3, <1>4, <1>5 DEF QueueHolds

\* In every state the wire holds a prefix of the stream.
LEMMA InOrderIsPrefix == TypeInv /\ Progress /\ InOrder => WireInOrder
<1> SUFFICES ASSUME TypeInv, Progress, InOrder PROVE WireInOrder
  OBVIOUS
<1>1. PICK done \in 0..Len(tun_rx) : QueueHolds(done) /\ WireHolds(done)
  BY DEF InOrder
<1>2. tun_rx \in Seq(1..mtu) /\ done \in Nat /\ Len(tun_rx) \in Nat
  BY DEF TypeInv, TypeOK
<1>3. Stream(done) \in Seq(Bytes)
  BY StreamNumbers
<1>4. CASE current_frame_state_ = nullopt
  <2>1. wire = Stream(done)
    BY <1>1, <1>4 DEF WireHolds
  <2>2. PICK rest \in Seq(Bytes) : FrameStream(tun_rx) = Stream(done) \o rest
    BY <1>2, StreamBegins, SizesType DEF Stream
  <2> DEFINE stream == Stream(done)
  <2>3. stream \in Seq(Bytes) /\ <<>> \in Seq(Bytes) /\ 0 <= Len(<<>>)
    BY <1>3
  <2> HIDE DEF stream
  <2>4. IsPrefix(stream \o SubSeq(<<>>, 1, 0), (stream \o <<>>) \o rest)
    <3>1. 0 \in Nat
      OBVIOUS
    <3> QED BY <2>3, <3>1, PartIsPrefix
  <2>5. SubSeq(<<>>, 1, 0) = <<>> /\ stream \o <<>> = stream
    BY <2>3, ConcatEmptySeq
  <2>6. IsPrefix(stream, stream \o rest)
    BY <2>4, <2>5
  <2> QED BY <2>1, <2>2, <2>6 DEF stream, WireInOrder, IsStreamPrefix
<1>5. CASE current_frame_state_ # nullopt
  <2> DEFINE frame == FrameBytes(done + 1, current_frame_state_.frame.size)
  <2>1. current_frame_state_ \in FrameStates
    BY <1>5 DEF TypeInv, TypeOK
  <2>2. done + 1 \in 1..Len(tun_rx) /\ current_frame_state_.frame.size = tun_rx[done + 1]
    BY <1>1, <2>1, CurrentIsNext
  <2>3. /\ current_frame_state_.bytes_sent \in Nat
        /\ Total(current_frame_state_) \in Nat
        /\ Total(current_frame_state_) = wire_size + current_frame_state_.frame.size
        /\ current_frame_state_.frame \in Frames
    BY <2>1, FrameNumbers
  <2>4. frame \in Seq(Bytes) /\ Len(frame) = Total(current_frame_state_)
    BY <2>3, StreamNumbers
  <2>5. \E k \in Nat : k <= Len(frame) /\ wire = Stream(done) \o SubSeq(frame, 1, k)
    <3>1. CASE \A i \in SendCqes : ~ok(cq[i])
      <4>1. wire = Stream(done) \o SubSeq(frame, 1, current_frame_state_.bytes_sent)
        BY <1>1, <1>5, <3>1 DEF WireHolds, Begun
      <4>2. current_frame_state_.bytes_sent <= Total(current_frame_state_)
        BY <1>5, <2>3 DEF Progress
      <4> QED BY <2>3, <2>4, <4>1, <4>2
    <3>2. CASE ~ \A i \in SendCqes : ~ok(cq[i])
      <4>1. PICK i \in SendCqes : ok(cq[i])
        BY <3>2
      <4> DEFINE k == current_frame_state_.bytes_sent + cq[i].result
      <4>2. wire = Stream(done) \o SubSeq(frame, 1, k)
        BY <1>1, <4>1 DEF WireHolds, Begun
      <4>3. cq[i].result >= 1 /\ k <= Total(current_frame_state_)
        BY <4>1 DEF Progress
      <4>4. cq[i].result \in Int
        <5>1. cq \in Seq(Cqes) /\ i \in DOMAIN cq
          BY DEF TypeInv, TypeOK, Cqes, SendCqes
        <5>2. cq[i] \in Cqes
          BY <5>1
        <5> QED BY <5>2, CqeFacts
      <4>5. k \in Nat
        BY <2>3, <4>3, <4>4
      <4> QED BY <2>4, <4>2, <4>3, <4>5
    <3> QED BY <3>1, <3>2
  <2>6. PICK k \in Nat : k <= Len(frame) /\ wire = Stream(done) \o SubSeq(frame, 1, k)
    BY <2>5
  <2>7. Stream(done + 1) = Stream(done) \o frame
    <3>1. done + 1 <= Len(tun_rx)
      BY <2>2
    <3> QED BY <1>2, <2>2, <3>1, StreamGrows, SizesType DEF Stream
  <2>8. PICK rest \in Seq(Bytes) : FrameStream(tun_rx) = Stream(done + 1) \o rest
    <3>1. done + 1 \in 0..Len(tun_rx)
      BY <1>2, <2>2
    <3> QED BY <1>2, <3>1, StreamBegins, SizesType DEF Stream
  <2> DEFINE stream == Stream(done)
  <2>9. stream \in Seq(Bytes) /\ k <= Len(frame)
    BY <1>3, <2>6
  <2> HIDE DEF frame, stream
  <2>10. IsPrefix(stream \o SubSeq(frame, 1, k), (stream \o frame) \o rest)
    BY <2>4, <2>9, PartIsPrefix
  <2> QED BY <2>6, <2>7, <2>8, <2>10 DEF stream, WireInOrder, IsStreamPrefix
<1> QED BY <1>4, <1>5

\* A SEND completion is accounted for: the frame is under way, or done.
LEMMA SendDoneInOrder ==
    ASSUME TypeInv, SendInv, Progress, InOrder, SendDone, run_result' = "None"
    PROVE  InOrder'
<1> DEFINE sent == Head(cq).result
           after == AfterSend(sent)
           bytes == current_frame_state_.bytes_sent
           total == Total(current_frame_state_)
<1>0. /\ current_frame_state_ \in FrameStates \cup {nullopt} /\ SendSerialized
      /\ tun_rx \in Seq(1..mtu)
  BY DEF TypeInv, TypeOK, SendInv
<1>1. /\ Handles("SEND") /\ kick_send_(after.queue, after.state, FALSE) /\ ok(Head(cq))
      /\ frame_queue_' = after.queue
  BY DEF SendDone, SendFailure
<1>2. /\ 1 \in SendCqes /\ Head(cq) = cq[1]
      /\ current_frame_state_ \in FrameStates /\ sent \in Nat
      /\ bytes + sent <= total
  BY <1>0, <1>1, SendHandled
<1>3. /\ SendCqes' = {} /\ UNCHANGED <<mem, tun_rx, wire>>
  BY <1>0, <1>1, SendTaken DEF Handles
<1>4. PICK done \in 0..Len(tun_rx) :
         QueueHolds(done) /\ CompletionsHold(done) /\ WireHolds(done)
  BY DEF InOrder
<1>5. /\ frame_queue_ # <<>> /\ done + 1 \in 1..Len(tun_rx)
      /\ current_frame_state_.frame.size = tun_rx[done + 1]
  BY <1>2, <1>4, CurrentIsNext
<1> DEFINE frame == FrameBytes(done + 1, current_frame_state_.frame.size)
<1>6. bytes \in Nat /\ total \in Nat /\ frame \in Seq(Bytes) /\ Len(frame) = total
  BY <1>2, FrameNumbers, StreamNumbers
<1>7. wire = Stream(done) \o SubSeq(frame, 1, bytes + sent)
  BY <1>1, <1>2, <1>4 DEF WireHolds, Begun
<1>8. current_frame_state_.header = create_frame_header_(current_frame_state_.frame)
  BY <1>2, NulloptFacts DEF InOrder, HeaderHolds
<1>9. after.queue \in Seq(Frames) /\ after.state \in FrameStates \cup {nullopt}
  BY <1>2, NulloptFacts, AfterSendType
<1>10. \/ /\ bytes + sent = total /\ after.state = nullopt
          /\ after.queue = Tail(frame_queue_)
       \/ /\ bytes + sent < total /\ after.state \in FrameStates
          /\ after.state.bytes_sent = bytes + sent
          /\ after.state.frame = current_frame_state_.frame
          /\ after.state.header = current_frame_state_.header
          /\ after.queue = frame_queue_
  BY <1>2, AfterSendState
<1> DEFINE queue == after.queue
           state == after.state
<1>11. kick_send_(queue, state, FALSE) /\ queue \in Seq(Frames)
       /\ state \in FrameStates \cup {nullopt} /\ frame_queue_' = queue
  BY <1>1, <1>9
<1>12. CASE bytes + sent = total
  <2>1. state = nullopt /\ queue = Tail(frame_queue_)
    <3>1. ~(bytes + sent < total)
      BY <1>6, <1>12
    <3> QED BY <1>10, <3>1, Zenon
  <2> HIDE DEF state, queue
  <2>2. QueueHolds(done + 1)' /\ CompletionsHold(done + 1)'
    BY <1>1, <1>4, <1>5, <1>11, <2>1, FrameReturned
  <2>3. done + 1 \in 0..Len(tun_rx)
    BY <1>5
  <2>4. wire = Stream(done + 1)
    <3>1. SubSeq(frame, 1, total) = frame
      <4> HIDE DEF frame, total
      <4> QED BY <1>6, SubSeqFull
    <3>2. Stream(done + 1) = Stream(done) \o frame
      <4>1. done + 1 <= Len(tun_rx) /\ done \in Nat
        BY <1>5
      <4> QED BY <1>0, <1>5, <4>1, StreamGrows, SizesType DEF Stream
    <3> QED BY <1>7, <1>12, <3>1, <3>2
  <2>5. HeaderHolds' /\ WireHolds(done + 1)'
    BY <1>3, <1>11, <2>1, <2>3, <2>4, KickWire
  <2>6. done + 1 \in 0..Len(tun_rx')
    BY <1>3, <2>3
  <2> QED BY <2>2, <2>5, <2>6 DEF InOrder
<1>13. CASE bytes + sent < total
  <2>1. /\ state \in FrameStates /\ state.bytes_sent = bytes + sent
        /\ state.frame = current_frame_state_.frame
        /\ state.header = current_frame_state_.header
        /\ queue = frame_queue_
    BY <1>6, <1>10, <1>13
  <2> HIDE DEF state, queue
  <2>2. QueueHolds(done)' /\ CompletionsHold(done)'
    BY <1>1, <1>4, <1>11, <2>1, TakenHolds
  <2>3. state # nullopt /\ state.bytes_sent < Total(state)
    BY <1>13, <2>1, NulloptFacts DEF Total
  <2>4. state.header = create_frame_header_(state.frame)
    BY <1>8, <2>1
  <2>5. wire = Stream(done)
                 \o SubSeq(FrameBytes(done + 1, state.frame.size), 1, state.bytes_sent)
    BY <1>7, <2>1
  <2>6. HeaderHolds' /\ WireHolds(done)'
    BY <1>3, <1>11, <2>3, <2>4, <2>5, KickWire
  <2>7. done \in 0..Len(tun_rx')
    BY <1>3
  <2> QED BY <2>2, <2>6, <2>7 DEF InOrder
<1> QED BY <1>2, <1>6, <1>12, <1>13

\* A completion without a packet is posted.
LEMMA PostedHolds ==
    ASSUME TypeInv, NEW done \in Nat, QueueHolds(done), CompletionsHold(done),
           NEW cqe \in Cqes, cq' = Append(cq, cqe), cqe.type # "READ" \/ ~ok(cqe),
           UNCHANGED <<frame_queue_, mem, tun_rx>>
    PROVE  QueueHolds(done)' /\ CompletionsHold(done)'
<1>1. Filled' = Filled /\ \A i \in Filled : cq'[i] = cq[i]
  BY FilledPosted
<1>2. QueueHolds(done)'
  BY DEF QueueHolds
<1> DEFINE queued == done + Len(frame_queue_)
<1>3. \A i \in Filled' : /\ mem[cq'[i].bid] \in (queued + 1)..Len(tun_rx)
                         /\ cq'[i].result = tun_rx[mem[cq'[i].bid]]
  BY <1>1 DEF CompletionsHold
<1>6. \A p \in (queued + 1)..Len(tun_rx) : \E i \in Filled' : mem[cq'[i].bid] = p
  <2> SUFFICES ASSUME NEW p \in (queued + 1)..Len(tun_rx)
               PROVE  \E i \in Filled' : mem[cq'[i].bid] = p
    OBVIOUS
  <2>1. PICK i \in Filled : mem[cq[i].bid] = p
    BY DEF CompletionsHold
  <2> QED BY <1>1, <2>1
<1>4. \A i, j \in Filled' : i < j => mem[cq'[i].bid] < mem[cq'[j].bid]
  BY <1>1 DEF CompletionsHold
<1>5. CompletionsHold(done)'
  BY <1>3, <1>4, <1>6 DEF CompletionsHold
<1> QED BY <1>2, <1>5

\* A completion of the READ request that brings no packet.
LEMMA ReadErrorInOrder ==
    ASSUME TypeInv, InOrder, KernelStep, UNCHANGED <<mem, tun_rx, wire>>,
           NEW cqe \in Cqes, cq' = Append(cq, cqe), cqe.type = "READ", ~ok(cqe)
    PROVE  InOrder'
<1>1. PICK done \in 0..Len(tun_rx) :
         QueueHolds(done) /\ CompletionsHold(done) /\ WireHolds(done)
  BY DEF InOrder
<1>2. UNCHANGED <<frame_queue_, current_frame_state_>> /\ done \in Nat
  BY <1>1 DEF KernelStep, own_vars, TypeInv, TypeOK
<1>3. QueueHolds(done)' /\ CompletionsHold(done)'
  BY <1>1, <1>2, PostedHolds
<1>4. SendCqes' = SendCqes /\ \A i \in SendCqes : cq'[i] = cq[i]
  BY SendsStay
<1>5. WireHolds(done)'
  BY <1>1, <1>2, <1>4 DEF WireHolds, Stream, Begun, ok
<1>6. HeaderHolds'
  BY <1>2 DEF InOrder, HeaderHolds, create_frame_header_, Payload
<1> QED BY <1>3, <1>5, <1>6 DEF InOrder

\* A packet more leaves the bytes on the wire a part of the stream.
LEMMA PacketReadInOrder ==
    ASSUME TypeInv, Owned, InOrder, NEW size \in 1..mtu, NEW more \in BOOLEAN,
           KernelRead(size, more)
    PROVE  InOrder'
<1>1. PICK done \in 0..Len(tun_rx) :
         QueueHolds(done) /\ CompletionsHold(done) /\ WireHolds(done)
  BY DEF InOrder
<1>2. /\ QueueHolds(done)' /\ CompletionsHold(done)'
      /\ \A i \in DOMAIN frame_queue_ :
            mem'[frame_queue_[i].bid] = mem[frame_queue_[i].bid]
  BY <1>1, PacketRead
<1>3. /\ UNCHANGED <<frame_queue_, current_frame_state_, wire>>
      /\ tun_rx' = Append(tun_rx, size) /\ tun_rx \in Seq(1..mtu)
  BY DEF KernelRead, KernelStep, own_vars, TypeInv, TypeOK
<1>4. SendCqes' = SendCqes /\ \A i \in SendCqes : cq'[i] = cq[i]
  <2>1. Head(br_) \in Bids
    BY TailFacts DEF KernelRead, TypeInv, TypeOK
  <2>2. Cqe("READ", size, Head(br_), more) \in Cqes
    BY <2>1, KernelCqes
  <2>3. Cqe("READ", size, Head(br_), more).type # "SEND"
    BY DEF Cqe
  <2> QED BY <2>2, <2>3, SendsStay DEF KernelRead
<1>5. Stream(done)' = Stream(done)
  <2>1. tun_rx' \in Seq(1..mtu) /\ done \in Nat /\ done <= Len(tun_rx) /\ done <= Len(tun_rx')
        /\ \A p \in 1..done : tun_rx'[p] = tun_rx[p]
    BY <1>3, AppendFacts
  <2> DEFINE x == SubSeq(tun_rx, 1, done)
             y == SubSeq(tun_rx', 1, done)
  <2>2. x \in Seq(1..mtu) /\ Len(x) = done /\ \A p \in 1..done : x[p] = tun_rx[p]
    BY <1>3, <2>1, PrefixFacts
  <2>3. y \in Seq(1..mtu) /\ Len(y) = done /\ \A p \in 1..done : y[p] = tun_rx'[p]
    BY <2>1, PrefixFacts
  <2> HIDE DEF x, y
  <2>4. x = y
    BY <2>1, <2>2, <2>3, SeqEqual
  <2> QED BY <2>4 DEF x, y, Stream
<1>6. WireHolds(done)'
  BY <1>1, <1>3, <1>4, <1>5 DEF WireHolds, Begun, ok
<1>7. HeaderHolds'
  <2> SUFFICES ASSUME current_frame_state_ # nullopt
               PROVE  current_frame_state_.header =
                        create_frame_header_(current_frame_state_.frame)'
    BY <1>3 DEF HeaderHolds, create_frame_header_, Payload
  <2>1. /\ frame_queue_ # <<>> /\ frame_queue_ \in Seq(Frames)
        /\ Head(frame_queue_) = current_frame_state_.frame
    BY DEF TypeInv, TypeOK, CurrentIsOldest
  <2>2. mem'[current_frame_state_.frame.bid] = mem[current_frame_state_.frame.bid]
    <3>1. 1 \in DOMAIN frame_queue_ /\ frame_queue_[1] = current_frame_state_.frame
      BY <2>1, TailFacts
    <3> QED BY <1>2, <3>1
  <2> QED BY <1>3, <2>2 DEF InOrder, HeaderHolds, create_frame_header_, Payload
<1>8. done \in 0..Len(tun_rx')
  BY <1>3, AppendFacts
<1> QED BY <1>2, <1>6, <1>7, <1>8 DEF InOrder

\* sendmsg takes the next bytes of the frame of the oldest packet.
LEMMA BytesSentInOrder ==
    ASSUME TypeInv, SendSerialized, Progress, InOrder, Running,
           NEW n \in 1..(wire_size + mtu), KernelSend(n)
    PROVE  InOrder'
<1> DEFINE bytes == current_frame_state_.bytes_sent
           total == Total(current_frame_state_)
           cqe == Cqe("SEND", n, NoBid, FALSE)
<1>0. /\ send_in_progress_ \in BOOLEAN /\ mem \in [Bids -> Nat]
      /\ current_frame_state_ \in FrameStates \cup {nullopt}
  BY DEF TypeInv, TypeOK
<1>1. /\ sending /\ cq' = Append(cq, cqe) /\ n <= Len(Iov(current_frame_state_))
      /\ wire' = wire \o SubSeq(Iov(current_frame_state_), 1, n)
      /\ UNCHANGED <<frame_queue_, current_frame_state_, mem, tun_rx>>
  BY DEF KernelSend, KernelStep, own_vars
<1>2. /\ SendCqes = {} /\ current_frame_state_ \in FrameStates
      /\ bytes < total /\ current_frame_state_.segments = Segments(current_frame_state_)
  <2>1. send_in_progress_ /\ SendCqes = {}
    BY <1>0, <1>1 DEF SendSerialized
  <2> QED BY <1>0, <1>1, <2>1 DEF Progress
<1>3. cqe \in Cqes /\ cqe.type = "SEND" /\ cqe.result = n /\ n \in Nat
  BY KernelCqes, WireSizeAssumption, TransmitterAssumption DEF Cqe
<1> HIDE DEF cqe
<1>4. \A i \in SendCqes' : cq'[i] = cqe
  BY <1>1, <1>2, <1>3, SendPostedOnce
<1>5. PICK done \in 0..Len(tun_rx) :
         QueueHolds(done) /\ CompletionsHold(done) /\ WireHolds(done)
  BY DEF InOrder
<1>6. mem[current_frame_state_.frame.bid] = done + 1 /\ done \in Nat /\ done + 1 \in Nat
  BY <1>2, <1>5, CurrentIsNext DEF TypeInv, TypeOK
<1> DEFINE size == current_frame_state_.frame.size
           frame == FrameBytes(done + 1, size)
           stream == Stream(done)
<1>7. /\ bytes \in Nat /\ total \in Nat /\ frame \in Seq(Bytes) /\ Len(frame) = total
      /\ stream \in Seq(Bytes) /\ size \in 1..mtu
  BY <1>2, FrameNumbers, StreamNumbers
<1>8. /\ Len(Iov(current_frame_state_)) = total - bytes
      /\ Iov(current_frame_state_) = SubSeq(frame, bytes + 1, total)
  <2>1. current_frame_state_.header =
          FrameHeader(size, crc32c([k \in 1..size |-> PayloadByte(done + 1, k)]))
    BY <1>2, <1>6, NulloptFacts DEF InOrder, HeaderHolds, create_frame_header_, Payload
  <2>2. frame = FrameOf(current_frame_state_.header, done + 1, size)
    <3>1. size \in PacketSizes
      BY <1>7, SizesType
    <3> QED BY <1>6, <1>7, <2>1, <3>1, FrameBytesType
  <2>3. LET whole == FrameOf(current_frame_state_.header,
                             mem[current_frame_state_.frame.bid], size)
        IN  /\ Len(Iov(current_frame_state_)) = total - bytes
            /\ Iov(current_frame_state_) = SubSeq(whole, bytes + 1, total)
    BY <1>0, <1>2, IovIs
  <2> QED BY <1>6, <2>2, <2>3
<1>9. wire = stream \o SubSeq(frame, 1, bytes)
  <2>1. current_frame_state_ # nullopt
    BY <1>2, NulloptFacts
  <2> QED BY <1>2, <1>5, <2>1 DEF WireHolds, Begun
<1> HIDE DEF bytes, total, frame, stream
<1>10. bytes + n <= Len(frame)
  BY <1>1, <1>3, <1>7, <1>8
<1>11. wire' = stream \o SubSeq(frame, 1, bytes + n)
  <2> DEFINE x == SubSeq(frame, 1, bytes)
             y == SubSeq(SubSeq(frame, bytes + 1, total), 1, n)
  <2>1. x \o y = SubSeq(frame, 1, bytes + n)
    BY <1>3, <1>7, <1>10, PartsJoin
  <2>2. x \in Seq(Bytes)
    <3>1. bytes <= Len(frame)
      BY <1>2, <1>7
    <3> QED BY <1>7, <3>1, PrefixFacts
  <2>3. y \in Seq(Bytes)
    <3> DEFINE rest == SubSeq(frame, bytes + 1, total)
    <3>1. rest \in Seq(Bytes) /\ Len(rest) = total - bytes
      BY <1>2, <1>7
    <3> HIDE DEF rest
    <3>2. n <= Len(rest)
      BY <1>1, <1>8, <3>1
    <3>3. SubSeq(rest, 1, n) \in Seq(Bytes)
      BY <1>3, <3>1, <3>2, PrefixFacts
    <3> QED BY <3>3 DEF rest
  <2>4. wire' = (stream \o x) \o y
    BY <1>1, <1>8, <1>9
  <2> HIDE DEF x, y
  <2>5. (stream \o x) \o y = stream \o (x \o y)
    BY <1>7, <2>2, <2>3, SMTT(30)
  <2> QED BY <2>1, <2>4, <2>5
<1>12. WireHolds(done)'
  <2>1. current_frame_state_ # nullopt
    BY <1>2, NulloptFacts
  <2>2. SendCqes' # {} /\ ok(cqe)
    BY <1>1, <1>2, <1>3, SendPostedOnce DEF ok
  <2>3. \A i \in SendCqes' : cq'[i].result = n /\ ok(cq'[i])
    BY <1>3, <1>4, <2>2
  <2> QED BY <1>1, <1>11, <2>1, <2>2, <2>3
      DEF WireHolds, Stream, Begun, ok, bytes, frame, stream
<1>13. QueueHolds(done)' /\ CompletionsHold(done)'
  BY <1>1, <1>3, <1>5, <1>6, PostedHolds
<1>14. HeaderHolds'
  BY <1>1 DEF InOrder, HeaderHolds, create_frame_header_, Payload
<1> QED BY <1>1, <1>5, <1>12, <1>13, <1>14 DEF InOrder

\* The SEND request fails: what was sent before stays on the wire.
LEMMA SendErrorInOrder ==
    ASSUME TypeInv, SendSerialized, InOrder, Running, KernelSendError
    PROVE  InOrder'
<1> DEFINE cqe == Cqe("SEND", -EIO, NoBid, FALSE)
<1>1. cqe \in Cqes /\ cqe.type = "SEND" /\ ~ok(cqe)
  BY KernelCqes DEF Cqe, ok, EIO
<1>2. /\ sending /\ cq' = Append(cq, cqe)
      /\ UNCHANGED <<frame_queue_, current_frame_state_, mem, tun_rx, wire>>
  BY DEF KernelSendError, KernelStep, own_vars
<1> HIDE DEF cqe
<1>3. SendCqes = {}
  BY <1>2 DEF SendSerialized
<1>4. \A i \in SendCqes' : ~ok(cq'[i])
  BY <1>1, <1>2, <1>3, SendPostedOnce
<1>5. PICK done \in 0..Len(tun_rx) :
         QueueHolds(done) /\ CompletionsHold(done) /\ WireHolds(done)
  BY DEF InOrder
<1>6. done \in Nat
  BY <1>5 DEF TypeInv, TypeOK
<1>7. QueueHolds(done)' /\ CompletionsHold(done)'
  BY <1>1, <1>2, <1>5, <1>6, PostedHolds
<1>8. WireHolds(done)'
  BY <1>2, <1>3, <1>4, <1>5 DEF WireHolds, Stream, Begun, ok
<1>9. HeaderHolds'
  BY <1>2 DEF InOrder, HeaderHolds, create_frame_header_, Payload
<1> QED BY <1>2, <1>5, <1>7, <1>8, <1>9 DEF InOrder

\* What the order rests on, proved above.
WireSteps == TypeInv /\ SendInv /\ BufferOwnership /\ ProgressInv

\* Every step that leaves the session running keeps the order.
LEMMA NextInOrder ==
    ASSUME WireSteps, Running, InOrder, [Next]_vars, run_result' = "None"
    PROVE  InOrder'
<1>0. /\ TypeInv /\ SendInv /\ SendSerialized /\ Progress /\ Owned
      /\ frame_queue_ \in Seq(Frames)
  BY OwnershipParts DEF WireSteps, SendInv, ProgressInv, TypeInv, TypeOK
<1>1. PICK done \in 0..Len(tun_rx) :
         QueueHolds(done) /\ CompletionsHold(done) /\ WireHolds(done)
  BY DEF InOrder
<1>2. done \in Nat /\ HeaderHolds
  BY <1>0, <1>1 DEF TypeInv, TypeOK, InOrder
<1>t. ASSUME Handles("READ") PROVE done \in 0..Len(tun_rx')
  BY <1>t DEF Handles
<1>3. CASE ReadNoBuffers
  <2>1. /\ Handles("READ") /\ frame_queue_' = frame_queue_
        /\ kick_send_(frame_queue_, current_frame_state_, send_in_progress_)
        /\ error(Head(cq)) = ENOBUFS
    BY <1>3 DEF ReadNoBuffers, OutOfBuffers
  <2>0. ~ok(Head(cq))
    BY <2>1 DEF error, ENOBUFS
  <2>2. QueueHolds(done)' /\ CompletionsHold(done)'
    BY <1>0, <1>1, <1>2, <2>0, <2>1, TakenHolds
  <2>3. HeaderHolds' /\ WireHolds(done)'
    BY <1>0, <1>1, <1>2, <2>1, ReadKickWire
  <2> QED BY <1>t, <2>1, <2>2, <2>3 DEF InOrder
<1>4. CASE ReadFailed
  BY <1>4 DEF ReadFailed
<1>5. CASE ReadPacket
  <2> DEFINE frame == [bid |-> Head(cq).bid, size |-> Head(cq).result]
             queue == Append(frame_queue_, frame)
  <2>1. /\ Handles("READ") /\ ok(Head(cq)) /\ frame_queue_' = queue
        /\ kick_send_(queue, current_frame_state_, send_in_progress_)
    BY <1>5 DEF ReadPacket
  <2>2. QueueHolds(done)' /\ CompletionsHold(done)'
    BY <1>0, <1>1, <1>2, <2>1, PacketQueued
  <2>3. queue \in Seq(Frames)
    <3>1. Head(cq) \in ReadCqes
      BY <1>0, <2>1, HandledCqe, CqeFacts
    <3> QED BY <1>0, <3>1, AppendFacts DEF ReadCqes, Frames
  <2> HIDE DEF queue
  <2>4. HeaderHolds' /\ WireHolds(done)'
    BY <1>0, <1>1, <1>2, <2>1, <2>3, ReadKickWire
  <2> QED BY <1>t, <2>1, <2>2, <2>4 DEF InOrder
<1>6. CASE ReadRearmFailed
  BY <1>6 DEF ReadRearmFailed
<1>7. CASE ReadNoMemory
  BY <1>7 DEF ReadNoMemory
<1>8. CASE SendFailed
  BY <1>8 DEF SendFailed
<1>9. CASE SendDone
  BY <1>0, <1>9, SendDoneInOrder
<1>10. CASE SendRearmFailed
  BY <1>10 DEF SendRearmFailed
<1>11. ASSUME NEW size \in 1..mtu, NEW more \in BOOLEAN, KernelRead(size, more)
       PROVE  InOrder'
  BY <1>0, <1>11, PacketReadInOrder
<1>12. CASE KernelReadNoBuffers
  <2> DEFINE cqe == Cqe("READ", -ENOBUFS, NoBid, FALSE)
  <2>1. cqe \in Cqes /\ cqe.type = "READ" /\ ~ok(cqe)
    BY KernelCqes DEF Cqe, ok, ENOBUFS
  <2>2. KernelStep /\ cq' = Append(cq, cqe) /\ UNCHANGED <<mem, tun_rx, wire>>
    BY <1>12 DEF KernelReadNoBuffers
  <2> HIDE DEF cqe
  <2> QED BY <1>0, <2>1, <2>2, ReadErrorInOrder
<1>13. CASE KernelReadError
  <2> DEFINE cqe == Cqe("READ", -EIO, NoBid, FALSE)
  <2>1. cqe \in Cqes /\ cqe.type = "READ" /\ ~ok(cqe)
    BY KernelCqes DEF Cqe, ok, EIO
  <2>2. KernelStep /\ cq' = Append(cq, cqe) /\ UNCHANGED <<mem, tun_rx, wire>>
    BY <1>13 DEF KernelReadError
  <2> HIDE DEF cqe
  <2> QED BY <1>0, <2>1, <2>2, ReadErrorInOrder
<1>14. ASSUME NEW n \in 1..(wire_size + mtu), KernelSend(n) PROVE InOrder'
  BY <1>0, <1>14, BytesSentInOrder
<1>15. CASE KernelSendError
  BY <1>0, <1>15, SendErrorInOrder
<1>16. CASE UNCHANGED vars
  <2>1. UNCHANGED <<own_vars, mem, cq, tun_rx, wire>>
    BY <1>16 DEF vars, kernel_vars
  <2>2. UNCHANGED <<frame_queue_, current_frame_state_>>
    BY <2>1 DEF own_vars
  <2>3. QueueHolds(done)' /\ CompletionsHold(done)' /\ WireHolds(done)'
    BY <1>1, <2>1, <2>2
       DEF QueueHolds, CompletionsHold, WireHolds, Stream, Begun, Filled, SendCqes, ok
  <2>4. HeaderHolds'
    BY <1>2, <2>1, <2>2 DEF HeaderHolds, create_frame_header_, Payload
  <2> QED BY <2>1, <2>3, <2>4 DEF InOrder
<1> QED BY <1>3, <1>4, <1>5, <1>6, <1>7, <1>8, <1>9, <1>10, <1>11, <1>12, <1>13,
           <1>14, <1>15, <1>16 DEF Next, Handle, Kernel

\* No step writes to the wire and ends the session.
LEMMA EndingStep ==
    ASSUME [Next]_vars, run_result' # "None"
    PROVE  UNCHANGED <<wire, tun_rx>>
<1>1. CASE Handle
  BY <1>1 DEF Handle, Handles, ReadNoBuffers, ReadFailed, ReadPacket, ReadRearmFailed,
              ReadNoMemory, SendFailed, SendDone, SendRearmFailed
<1>2. CASE Kernel
  BY <1>2 DEF Kernel, KernelRead, KernelReadNoBuffers, KernelReadError, KernelSend,
              KernelSendError, KernelStep
<1>3. CASE UNCHANGED vars
  BY <1>3 DEF vars, kernel_vars
<1> QED BY <1>1, <1>2, <1>3 DEF Next

\* A session that has ended stays ended.
LEMMA EndedStays ==
    ASSUME [Next]_vars, run_result # "None" PROVE run_result' # "None"
<1>1. CASE Handle
  BY <1>1 DEF Handle, Handles, ReadNoBuffers, ReadFailed, ReadPacket, ReadRearmFailed,
              ReadNoMemory, SendFailed, SendDone, SendRearmFailed
<1>2. CASE Kernel
  BY <1>2 DEF Kernel, KernelRead, KernelReadNoBuffers, KernelReadError, KernelSend,
              KernelSendError, KernelStep
<1>3. CASE UNCHANGED vars
  BY <1>3 DEF vars
<1> QED BY <1>1, <1>2, <1>3 DEF Next

\* Every step keeps the wire what has been sent of the frames, in order.
LEMMA NextWireInv == WireSteps /\ WireSteps' /\ WireInv /\ [Next]_vars => WireInv'
<1> SUFFICES ASSUME WireSteps, WireSteps', WireInv, [Next]_vars PROVE WireInv'
  OBVIOUS
<1>1. CASE run_result' = "None"
  <2>1. Running
    BY <1>1, EndedStays DEF Running
  <2>2. InOrder'
    BY <1>1, <2>1, NextInOrder DEF WireInv
  <2>3. (TypeInv /\ Progress)'
    BY <1>1 DEF WireSteps, ProgressInv, Running
  <2>4. WireInOrder'
    BY <2>2, <2>3, InOrderIsPrefix, PTL
  <2> QED BY <2>2, <2>4 DEF WireInv
<1>2. CASE run_result' # "None"
  <2>1. WireInOrder'
    BY <1>2, EndingStep DEF WireInv, WireInOrder
  <2> QED BY <1>2, <2>1 DEF WireInv, Running
<1> QED BY <1>1, <1>2

\* The wire is empty at the start.
LEMMA InitWire == Init => WireInv
<1> SUFFICES ASSUME Init PROVE WireInv
  OBVIOUS
<1>1. /\ cq = <<>> /\ tun_rx = <<>> /\ wire = <<>> /\ frame_queue_ = <<>>
      /\ current_frame_state_ = nullopt
  BY DEF Init, Created
<1>2. TypeInv /\ Progress
  BY InitTypeInv, InitProgress DEF Init, Created, ProgressInv, Running
<1>3. Stream(0) = <<>>
  <2>1. SubSeq(tun_rx, 1, 0) = <<>>
    BY <1>1
  <2>2. [p \in DOMAIN <<>> |-> FrameBytes(p, <<>>[p])] = <<>>
    OBVIOUS
  <2> QED BY <2>1, <2>2, FlattenEmpty DEF Stream, FrameStream
<1>4. 0 \in 0..Len(tun_rx) /\ Len(tun_rx) = 0 /\ Len(frame_queue_) = 0
  BY <1>1
<1>5. Filled = {} /\ SendCqes = {} /\ DOMAIN frame_queue_ = {}
  BY <1>1 DEF Filled, SendCqes
<1>6. QueueHolds(0) /\ CompletionsHold(0) /\ WireHolds(0) /\ HeaderHolds
  BY <1>1, <1>3, <1>4, <1>5 DEF QueueHolds, CompletionsHold, WireHolds, HeaderHolds
<1>7. InOrder
  BY <1>4, <1>6 DEF InOrder
<1> QED BY <1>2, <1>7, InOrderIsPrefix DEF WireInv

\* For every buffer count, MTU and header size: what handle_send_cqe_ and
\* sendmsg put on the wire is, byte for byte, the frames of the packets read
\* from the TUN device, in order, up to some point.
THEOREM WireIsStream == Spec => []WireInOrder
<1>1. Init => WireSteps /\ WireInv
  BY InitTypeInv, InitRequests, InitOwnership, InitProgress, InitWire DEF WireSteps
<1>2. WireSteps /\ WireSteps' /\ WireInv /\ [Next]_vars => WireInv'
  BY NextWireInv
<1>3. WireInv => WireInOrder
  BY DEF WireInv
<1>4. WireSteps /\ [Next]_vars => WireSteps'
  BY NextTypeInv, NextSendInv, NextOwnership, NextProgress DEF WireSteps
<1> QED BY <1>1, <1>2, <1>3, <1>4, PTL DEF Spec


-----------------------------------------------------------------------------
(* What the other side of the stream sees *)

\* Bytes are added to the wire, none is taken back.
LEMMA SendExtends ==
    ASSUME TypeInv, SendSerialized, Progress, Running, wire \in Seq(Bytes),
           NEW n \in 1..(wire_size + mtu), KernelSend(n)
    PROVE  wire' \in Seq(Bytes) /\ Extends(wire, wire')
<1> DEFINE state == current_frame_state_
           frame == FrameOf(state.header, mem[state.frame.bid], state.frame.size)
           more == SubSeq(Iov(state), 1, n)
<1>1. /\ sending /\ n <= Len(Iov(state)) /\ n \in Nat
      /\ wire' = wire \o more
  BY WireSizeAssumption, TransmitterAssumption DEF KernelSend
<1>2. /\ send_in_progress_ \in BOOLEAN /\ mem \in [Bids -> Nat]
      /\ state \in FrameStates \cup {nullopt}
  BY DEF TypeInv, TypeOK
<1>3. /\ state \in FrameStates /\ state.bytes_sent < Total(state)
      /\ state.segments = Segments(state)
  <2>1. send_in_progress_
    BY <1>1, <1>2 DEF SendSerialized
  <2> QED BY <1>1, <1>2, <2>1 DEF Progress
<1>4. Iov(state) \in Seq(Bytes)
  <2>1. Iov(state) = SubSeq(frame, state.bytes_sent + 1, Total(state))
    BY <1>2, <1>3, IovIs
  <2>2. frame \in Seq(Bytes) /\ Len(frame) = wire_size + state.frame.size
    <3> HIDE DEF state
    <3>1. state.header \in [magic : {TRUE}, size : 1..mtu, crc : Nat \X Nat]
      BY <1>3 DEF FrameStates
    <3>2. state.header \in Headers
      BY <3>1, SizesType DEF Headers
    <3>3. mem[state.frame.bid] \in Nat
      BY <1>2, <1>3, FrameNumbers
    <3>4. state.frame.size \in Nat
      BY <1>3, FrameNumbers, TransmitterAssumption
    <3> QED BY <3>2, <3>3, <3>4, FrameOfType
  <2>3. /\ state.bytes_sent \in Nat /\ Total(state) \in Nat
        /\ state.bytes_sent <= Total(state) /\ Total(state) <= Len(frame)
    BY <1>2, <1>3, <2>2, FrameNumbers, WireSizeAssumption DEF Total
  <2> HIDE DEF frame
  <2> QED BY <2>1, <2>2, <2>3, SliceFacts, SMTT(30)
<1> HIDE DEF state, frame
<1>5. more \in Seq(Bytes)
  BY <1>1, <1>4, PrefixFacts
<1> HIDE DEF more
<1>6. Joined(wire, more) \in Seq(Bytes) /\ Extends(wire, Joined(wire, more))
  BY <1>5, ConcatExtends
<1> QED BY <1>1, <1>6 DEF Joined

\* No other step touches the wire.
LEMMA WireGrows ==
    WireSteps /\ wire \in Seq(Bytes) /\ [Next]_vars
      => wire' \in Seq(Bytes) /\ Extends(wire, wire')
<1> SUFFICES ASSUME WireSteps, wire \in Seq(Bytes), [Next]_vars
             PROVE  wire' \in Seq(Bytes) /\ Extends(wire, wire')
  OBVIOUS
<1>1. ASSUME NEW n \in 1..(wire_size + mtu), KernelSend(n)
      PROVE  wire' \in Seq(Bytes) /\ Extends(wire, wire')
  <2>1. Running
    BY <1>1 DEF KernelSend, KernelStep, Running
  <2>2. TypeInv /\ SendSerialized /\ Progress
    BY <2>1 DEF WireSteps, SendInv, ProgressInv
  <2> QED BY <1>1, <2>1, <2>2, SendExtends
<1>2. ASSUME wire' = wire PROVE wire' \in Seq(Bytes) /\ Extends(wire, wire')
  <2>1. Len(wire) \in Nat
    OBVIOUS
  <2> QED BY <1>2, <2>1 DEF Extends
<1>3. CASE Handle
  <2>1. wire' = wire
    BY <1>3 DEF Handle, Handles, ReadNoBuffers, ReadFailed, ReadPacket, ReadRearmFailed,
                ReadNoMemory, SendFailed, SendDone, SendRearmFailed
  <2> QED BY <1>2, <2>1
<1>4. CASE UNCHANGED vars
  <2>1. wire' = wire
    BY <1>4 DEF vars, kernel_vars
  <2> QED BY <1>2, <2>1
<1>5. CASE KernelReadNoBuffers \/ KernelReadError \/ KernelSendError
  <2>1. wire' = wire
    BY <1>5 DEF KernelReadNoBuffers, KernelReadError, KernelSendError
  <2> QED BY <1>2, <2>1
<1>6. ASSUME NEW size \in 1..mtu, NEW more \in BOOLEAN, KernelRead(size, more)
      PROVE  wire' \in Seq(Bytes) /\ Extends(wire, wire')
  <2>1. wire' = wire
    BY <1>6 DEF KernelRead
  <2> QED BY <1>2, <2>1
<1> QED BY <1>1, <1>3, <1>4, <1>5, <1>6 DEF Next, Kernel

\* A packet enters.
Accepts ==
    /\ Len(tun_rx) < MaxPackets /\ run_result' = run_result
    /\ \E size \in 1..mtu : tun_rx' = Append(tun_rx, size)

\* Packets enter one by one, and the session does not end in the same step.
LEMMA PacketsEnter == [Next]_vars => UNCHANGED tun_rx \/ Accepts
<1> SUFFICES ASSUME [Next]_vars PROVE UNCHANGED tun_rx \/ Accepts
  OBVIOUS
<1>1. CASE Handle
  BY <1>1 DEF Handle, Handles, ReadNoBuffers, ReadFailed, ReadPacket, ReadRearmFailed,
              ReadNoMemory, SendFailed, SendDone, SendRearmFailed
<1>2. CASE UNCHANGED vars
  BY <1>2 DEF vars, kernel_vars
<1>3. CASE \/ KernelReadNoBuffers \/ KernelReadError \/ KernelSendError
           \/ \E n \in 1..(wire_size + mtu) : KernelSend(n)
  BY <1>3 DEF KernelReadNoBuffers, KernelReadError, KernelSendError, KernelSend
<1>4. ASSUME NEW size \in 1..mtu, NEW more \in BOOLEAN, KernelRead(size, more) PROVE Accepts
  BY <1>4 DEF KernelRead, KernelStep, Accepts
<1> QED BY <1>1, <1>2, <1>3, <1>4 DEF Next, Kernel

=============================================================================
