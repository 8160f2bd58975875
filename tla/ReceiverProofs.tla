--------------------------- MODULE ReceiverProofs ---------------------------
(***************************************************************************)
(* Proofs about the receiver, for every buffer group, MTU, header size and *)
(* set of streams: the types and the bounds of the parser's counters, the  *)
(* two requests, the exact reference counts and the ownership of buffers:  *)
(* none is leaked, returned twice or refilled while a frame refers to it,  *)
(* and used_buffers_ counts the held ones.  Then what the stream says:     *)
(* packets are written whole and in the order they were framed, and the    *)
(* session ends with a protocol error only if the stream contains one.     *)
(***************************************************************************)
EXTENDS Receiver, StreamLemmas

-----------------------------------------------------------------------------
(* The invariant *)

RecvCqes == [type : {"RECV"}, result : 1..buffer_size, bid : Bids, more : BOOLEAN]
RecvEndCqes ==
    [type : {"RECV"}, result : {-ENOBUFS, -EIO, 0}, bid : {NoBid}, more : {FALSE}]
WriteCqes == [type : {"WRITE"}, result : Int, bid : {NoBid}, more : {FALSE}]
Cqes == RecvCqes \cup RecvEndCqes \cup WriteCqes

Chunks == [bid : Bids, size : 1..buffer_size, offset : 0..buffer_size]

\* The types without the bounds that take the ownership of buffers to prove.
Types ==
    /\ cooling_down_ \in BOOLEAN /\ write_in_progress_ \in BOOLEAN
    /\ recving \in BOOLEAN /\ writing \in BOOLEAN
    /\ used_buffers_ \in Int
    /\ input_buffer_queue_ \in Seq(Chunks)
    /\ buffer_refcounts_ \in [Bids -> Int]
    /\ state_ \in {"PARSING_HEADER", "PARSING_PAYLOAD"}
    /\ header_ \in [1..wire_size -> Bytes]
    /\ header_progress_ \in 0..(wire_size - 1)
    /\ frame_ \in FrameType
    /\ payload_progress_ \in 0..(mtu - 1)
    /\ output_frame_queue_ \in Seq(FrameType)
    /\ cqe_ \in {idle} \cup RecvCqes \cup WriteCqes
    /\ released \in Nat
    /\ run_result \in Results
    /\ br_ \in Seq(Bids)
    /\ mem \in [Bids -> Seq(Bytes)]
    /\ cq \in Seq(Cqes)
    /\ wire \in Seq(Bytes)
    /\ pos \in 0..Len(wire)
    /\ tun_tx \in Seq(Seq(Bytes))

\* What is left over from the frame being parsed depends on the state.
Parser ==
    /\ state_ = "PARSING_HEADER" => payload_progress_ = 0 /\ frame_ = EmptyFrame
    /\ state_ = "PARSING_PAYLOAD" =>
          /\ header_progress_ = 0
          /\ get_size(header_) \in 1..mtu
          /\ payload_progress_ < get_size(header_)

\* There is at most one chunk to parse, and only in the handler that queued it.
Handling ==
    /\ Len(input_buffer_queue_) <= 1
    /\ cqe_.type # "RECV" => input_buffer_queue_ = <<>>
    /\ cqe_.type # "WRITE" => released = 0
    /\ cqe_.type = "WRITE" => released <= Len(Head(output_frame_queue_).bid)

\* Chunks, completions and segments lie in the bytes their buffer holds.
FitsIn(frame, memory) ==
    /\ Len(frame.bid) = Len(frame.segments)
    /\ \A i \in DOMAIN frame.segments :
          LET segment == frame.segments[i]
          IN  /\ frame.bid[i] = segment.base
              /\ segment.from + segment.len <= Len(memory[segment.base])

Fits(frame) == FitsIn(frame, mem)

Fitting ==
    /\ Fits(frame_)
    /\ \A i \in DOMAIN output_frame_queue_ : Fits(output_frame_queue_[i])
    /\ \A i \in DOMAIN input_buffer_queue_ :
          LET input == input_buffer_queue_[i]
          IN  input.offset < input.size /\ input.size <= Len(mem[input.bid])
    /\ \A i \in Filled : cq[i].result <= Len(mem[cq[i].bid])

\* Positions of the WRITE completion.
WriteDones == {i \in DOMAIN cq : cq[i].type = "WRITE"}

\* The WRITE request is single, and it is about the oldest frame.
Writing ==
    /\ write_in_progress_ = (writing \/ WriteDones # {})
    /\ ~(writing /\ WriteDones # {})
    /\ \A i, j \in WriteDones : i = j
    /\ write_in_progress_ => output_frame_queue_ # <<>>
    /\ cqe_ = idle /\ output_frame_queue_ # <<>> => write_in_progress_
    /\ cqe_.type = "WRITE" => output_frame_queue_ # <<>> /\ ~write_in_progress_

Shape == Parser /\ Handling /\ Fitting /\ Writing

ShapeInv == Types /\ (Running => Shape)

-----------------------------------------------------------------------------
(* Facts about the operators *)

\* The fields of a header lie in it, and have their types.
LEMMA HeaderFacts ==
    ASSUME NEW header \in [1..wire_size -> Bytes]
    PROVE  /\ is_magic_valid(header) \in BOOLEAN
           /\ get_size(header) \in Nat
           /\ get_crc(header) \in Nat \X Nat
<1>1. /\ FieldAt(0) \in 1..wire_size /\ FieldAt(8) \in 1..wire_size
      /\ FieldAt(12) \in 1..wire_size
  BY WireSizeAssumption DEF FieldAt
<1>2. ASSUME NEW byte \in Bytes
      PROVE  /\ "magic" \in DOMAIN byte => byte["magic"] \in BOOLEAN
             /\ "size" \in DOMAIN byte => byte["size"] \in Nat
             /\ "crc" \in DOMAIN byte => byte["crc"] \in Nat \X Nat
  BY <1>2 DEF Bytes
<1>3. \A i \in 1..wire_size : header[i] \in Bytes
  OBVIOUS
<1>4. is_magic_valid(header) \in BOOLEAN
  BY <1>1, <1>2, <1>3 DEF is_magic_valid, get_u32_
<1>5. get_size(header) \in Nat
  BY <1>1, <1>2, <1>3 DEF get_size, get_u32_
<1>6. <<0, 0>> \in Nat \X Nat
  OBVIOUS
<1>7. get_crc(header) \in Nat \X Nat
  BY <1>1, <1>2, <1>3, <1>6 DEF get_crc, get_u32_
<1> QED BY <1>4, <1>5, <1>7

\* How much an iteration consumes: something, and no more than there is or than
\* it needs, and all of one of these.
LEMMA TakeFacts ==
    ASSUME NEW input \in Chunks, input.offset < input.size,
           NEW wanted \in Nat \ {0}
    PROVE  /\ Take(input, wanted) \in 1..buffer_size
           /\ Take(input, wanted) <= wanted
           /\ input.offset + Take(input, wanted) <= input.size
           /\ Take(input, wanted) = wanted \/ input.offset + Take(input, wanted) = input.size
<1>1. input.offset \in 0..buffer_size /\ input.size \in 1..buffer_size
  BY DEF Chunks
<1> QED BY <1>1, ReceiverAssumption DEF Take

\* A chunk of the running receiver always has a byte left, and its buffer exists.
LEMMA NoInputFailure ==
    ASSUME NEW input \in Chunks, input.offset < input.size,
           NEW progress \in Int, NEW wanted \in Int, progress < wanted
    PROVE  InputFailure(input, progress, wanted) = "None"
<1>1. /\ input.offset \in 0..buffer_size /\ input.size \in 1..buffer_size
      /\ input.bid \in 0..(BufferCount - 1)
  BY DEF Chunks, Bids
<1> QED BY <1>1, ReceiverAssumption DEF InputFailure, get_buffer

\* An iteration that succeeds consumes the chunk completely.
Finishes(input, take, result) == result = "None" /\ input.offset + take = input.size

\* A chunk of which `take' more bytes are consumed.
Advanced(input, take) ==
    [bid |-> input.bid, size |-> input.size, offset |-> input.offset + take]

\* What the end of an iteration leaves of the chunk, the ring and the counter.
LEMMA ConsumeFacts ==
    ASSUME input_buffer_queue_ \in Seq(Chunks), input_buffer_queue_ # <<>>,
           Len(input_buffer_queue_) <= 1,
           NEW input, input = Head(input_buffer_queue_),
           NEW take \in Nat, input.offset + take <= input.size,
           NEW refcounts \in [Bids -> Int], br_ \in Seq(Bids), used_buffers_ \in Int,
           NEW result, Consume(take, refcounts, result)
    PROVE  /\ run_result' = result
           /\ buffer_refcounts_' = refcounts
           /\ Finishes(input, take, result) => input_buffer_queue_' = <<>>
           /\ ~Finishes(input, take, result) =>
                 input_buffer_queue_' = <<Advanced(input, take)>>
           /\ input_buffer_queue_' \in Seq(Chunks)
           /\ Len(input_buffer_queue_') <= 1
           /\ Finishes(input, take, result) /\ refcounts[input.bid] = 0
                 => br_' = Append(br_, input.bid) /\ used_buffers_' = used_buffers_ - 1
           /\ ~(Finishes(input, take, result) /\ refcounts[input.bid] = 0)
                 => br_' = br_ /\ used_buffers_' = used_buffers_
           /\ br_' \in Seq(Bids) /\ used_buffers_' \in Int
<1> DEFINE rest == Advanced(input, take)
           finishes == Finishes(input, take, result)
           more == [Head(input_buffer_queue_) EXCEPT !.offset = @ + take]
<1>1. input \in Chunks /\ Tail(input_buffer_queue_) = <<>>
  BY TailFacts
<1>2. /\ input.offset \in 0..buffer_size /\ input.size \in 1..buffer_size
      /\ input.bid \in Bids
  BY <1>1 DEF Chunks
<1>3. more = rest
  <2>1. more = [input EXCEPT !.offset = input.offset + take]
    OBVIOUS
  <2> QED BY <1>1, <2>1 DEF Chunks, Advanced
<1>4. rest \in Chunks
  BY <1>2, ReceiverAssumption DEF Chunks, Advanced
<1>5. finishes <=> (result = "None" /\ Exhausted(more))
  BY <1>3 DEF Exhausted, Finishes, Advanced
<1>6. /\ run_result' = result
      /\ buffer_refcounts_' = refcounts
      /\ input_buffer_queue_' = IF result = "None" /\ Exhausted(more)
                                THEN Tail(input_buffer_queue_)
                                ELSE <<more>> \o Tail(input_buffer_queue_)
      /\ br_' = IF (result = "None" /\ Exhausted(more)) /\ refcounts[more.bid] = 0
                THEN return_buffer(br_, more.bid) ELSE br_
      /\ used_buffers_' = used_buffers_ - (IF (result = "None" /\ Exhausted(more))
                                              /\ refcounts[more.bid] = 0 THEN 1 ELSE 0)
  <2> HIDE DEF more
  <2> QED BY DEF Consume, more
<1>7. more.bid = input.bid
  BY <1>3 DEF Advanced
<1> HIDE DEF rest, more, finishes
<1>8. <<rest>> \o <<>> = <<rest>> /\ <<rest>> \in Seq(Chunks) /\ Len(<<rest>>) <= 1
      /\ <<>> \in Seq(Chunks) /\ Len(<<>>) <= 1
  BY <1>4
<1>9. /\ finishes => input_buffer_queue_' = <<>>
      /\ ~finishes => input_buffer_queue_' = <<rest>>
  BY <1>1, <1>3, <1>5, <1>6, <1>8
<1>10. Append(br_, input.bid) \in Seq(Bids)
  BY <1>2, AppendFacts
<1>11. /\ finishes /\ refcounts[input.bid] = 0
            => br_' = Append(br_, input.bid) /\ used_buffers_' = used_buffers_ - 1
       /\ ~(finishes /\ refcounts[input.bid] = 0)
            => br_' = br_ /\ used_buffers_' = used_buffers_
  BY <1>5, <1>6, <1>7 DEF return_buffer
<1>12. br_' \in Seq(Bids) /\ used_buffers_' \in Int
  <2>1. used_buffers_ - 1 \in Int
    OBVIOUS
  <2>2. CASE finishes /\ refcounts[input.bid] = 0
    BY <1>10, <1>11, <2>1, <2>2, Zenon
  <2>3. CASE ~(finishes /\ refcounts[input.bid] = 0)
    BY <1>11, <2>3, Zenon
  <2> QED BY <2>2, <2>3
<1>13. input_buffer_queue_' \in Seq(Chunks) /\ Len(input_buffer_queue_') <= 1
  <2>1. CASE finishes
    BY <1>8, <1>9, <2>1, Zenon
  <2>2. CASE ~finishes
    BY <1>8, <1>9, <2>2, Zenon
  <2> QED BY <2>1, <2>2
<1> QED BY <1>6, <1>9, <1>11, <1>12, <1>13 DEF rest, finishes

\* The header bytes copied so far stay; the new ones come from the chunk.
LEMMA CopyHeaderType ==
    ASSUME header_ \in [1..wire_size -> Bytes], mem \in [Bids -> Seq(Bytes)],
           header_progress_ \in Nat,
           NEW input \in Chunks, input.size <= Len(mem[input.bid]),
           NEW take \in Nat, input.offset + take <= input.size
    PROVE  CopyHeader(input, take) \in [1..wire_size -> Bytes]
<1>1. /\ mem[input.bid] \in Seq(Bytes) /\ input.offset \in Nat /\ input.size \in Nat
  BY DEF Chunks
<1>2. ASSUME NEW k \in 1..wire_size, k > header_progress_, k <= header_progress_ + take
      PROVE  mem[input.bid][input.offset + (k - header_progress_)] \in Bytes
  <2>1. input.offset + (k - header_progress_) \in 1..Len(mem[input.bid])
    BY <1>1, <1>2
  <2> QED BY <1>1, <2>1
<1> QED BY <1>2 DEF CopyHeader

\* Bytes a frame points to.
LEMMA IovType ==
    ASSUME mem \in [Bids -> Seq(Bytes)], NEW frame \in FrameType, Fits(frame)
    PROVE  Iov(frame.segments) \in Seq(Bytes)
<1> DEFINE pieces == [i \in DOMAIN frame.segments |-> SegmentBytes(frame.segments[i])]
<1>1. frame.segments \in Seq(Segments)
  BY DEF FrameType
<1>2. ASSUME NEW i \in DOMAIN frame.segments
      PROVE  SegmentBytes(frame.segments[i]) \in Seq(Bytes)
  <2> DEFINE segment == frame.segments[i]
  <2>3. segment \in Segments /\ segment.from + segment.len <= Len(mem[segment.base])
    BY <1>1, <1>2 DEF Fits, FitsIn
  <2>1. /\ segment.base \in Bids /\ segment.from \in Nat /\ segment.len \in Nat
        /\ segment.from + segment.len <= Len(mem[segment.base])
    BY <2>3, ReceiverAssumption DEF Segments
  <2>2. mem[segment.base] \in Seq(Bytes)
    BY <2>1
  <2> HIDE DEF segment
  <2>4. SubSeq(mem[segment.base], segment.from + 1, segment.from + segment.len) \in Seq(Bytes)
    BY <2>1, <2>2
  <2> QED BY <2>4 DEF SegmentBytes, segment
<1>3. pieces \in Seq(Seq(Bytes))
  <2>1. Len(frame.segments) \in Nat /\ DOMAIN frame.segments = 1..Len(frame.segments)
    BY <1>1
  <2>2. pieces \in [1..Len(frame.segments) -> Seq(Bytes)]
    BY <1>2, <2>1
  <2> QED BY <2>1, <2>2, FunctionIsSeq
<1> HIDE DEF pieces
<1>4. FlattenSeq(pieces) \in Seq(Bytes)
  BY <1>3, FlattenType
<1> QED BY <1>4 DEF Iov, pieces

\* The class of a completion follows from its type and its result.
LEMMA CqeFacts ==
    ASSUME NEW cqe \in Cqes
    PROVE  /\ cqe.type = "RECV" /\ ok(cqe) /\ cqe.result # 0
                 => cqe \in RecvCqes /\ cqe.bid \in Bids
           /\ cqe.type = "RECV" /\ cqe.bid # NoBid => cqe \in RecvCqes
           /\ cqe.type = "RECV" /\ (~ok(cqe) \/ cqe.result = 0)
                 => cqe \in RecvEndCqes /\ ~cqe.more
           /\ cqe.type = "WRITE" => cqe \in WriteCqes
           /\ cqe.result \in Int /\ cqe.more \in BOOLEAN
           /\ cqe.bid \in Bids \cup {NoBid}
           /\ cqe.type \in {"RECV", "WRITE"}
<1>1. CASE cqe \in RecvCqes
  <2>1. cqe.type = "RECV" /\ cqe.result \in 1..buffer_size /\ cqe.bid \in Bids
        /\ cqe.more \in BOOLEAN
    BY <1>1 DEF RecvCqes
  <2>2. cqe.result > 0 /\ cqe.result \in Int
    BY <2>1, ReceiverAssumption
  <2> QED BY <1>1, <2>1, <2>2 DEF ok
<1>2. CASE cqe \in RecvEndCqes
  <2>1. cqe.type = "RECV" /\ cqe.result \in {-105, -5, 0} /\ cqe.bid = NoBid /\ cqe.more = FALSE
    BY <1>2 DEF RecvEndCqes, ENOBUFS, EIO
  <2>2. cqe.result <= 0 /\ cqe.result \in Int /\ (cqe.result = 0 \/ ~ok(cqe))
    BY <2>1 DEF ok
  <2> QED BY <1>2, <2>1, <2>2 DEF ok
<1>3. CASE cqe \in WriteCqes
  BY <1>3 DEF WriteCqes
<1> QED BY <1>1, <1>2, <1>3 DEF Cqes

\* What kick_write_ leaves.
LEMMA KickWriteType ==
    ASSUME NEW queue, NEW in_progress \in BOOLEAN, writing \in BOOLEAN,
           kick_write_(queue, in_progress)
    PROVE  /\ cqe_' = idle
           /\ write_in_progress_' \in BOOLEAN /\ writing' \in BOOLEAN
           /\ run_result' \in {"None", "NotEnoughSqe", "RingSubmitFailed"}
<1>1. CASE in_progress \/ queue = <<>>
  BY <1>1 DEF kick_write_, Running
<1>2. CASE ~(in_progress \/ queue = <<>>)
  <2>1. PICK result \in SubmitResults(IoErrors) :
          /\ write_in_progress_' = (result = "None")
          /\ writing' = (result = "None")
          /\ run_result' = result
    BY <1>2, Zenon DEF kick_write_
  <2>2. result \in {"None", "NotEnoughSqe", "RingSubmitFailed"}
    BY <2>1 DEF SubmitResults
  <2>3. cqe_' = idle
    BY DEF kick_write_
  <2> QED BY <2>1, <2>2, <2>3
<1> QED BY <1>1, <1>2

-----------------------------------------------------------------------------
(* The iterations of the parser *)

Input == Head(input_buffer_queue_)

HeaderTake == Take(Input, wire_size - header_progress_)
HeaderComplete == header_progress_ + HeaderTake = wire_size
HeaderResult ==
    IF HeaderComplete THEN HeaderFailure(CopyHeader(Input, HeaderTake)) ELSE "None"

PayloadWanted == get_size(header_) - payload_progress_
PayloadTake == Take(Input, PayloadWanted)
PayloadComplete == PayloadTake = PayloadWanted
PayloadFrame == AddSegment(Input, PayloadTake)
PayloadResult == IF PayloadComplete THEN PayloadFailure(PayloadFrame) ELSE "None"

\* The chunk an iteration works on.
LEMMA InputFacts ==
    ASSUME ShapeInv, Running, input_buffer_queue_ # <<>>
    PROVE  /\ Input \in Chunks /\ Input.bid \in Bids
           /\ Input.offset \in Nat /\ Input.size \in Nat
           /\ Input.offset \in 0..buffer_size
           /\ Input.offset < Input.size /\ Input.size <= Len(mem[Input.bid])
           /\ input_buffer_queue_ \in Seq(Chunks) /\ Len(input_buffer_queue_) = 1
           /\ Tail(input_buffer_queue_) = <<>> /\ DOMAIN input_buffer_queue_ = {1}
           /\ Input = input_buffer_queue_[1]
           /\ cqe_.type = "RECV"
<1>1. /\ input_buffer_queue_ \in Seq(Chunks) /\ Len(input_buffer_queue_) <= 1
      /\ cqe_.type = "RECV"
  BY DEF ShapeInv, Types, Shape, Handling
<1>2. /\ Len(input_buffer_queue_) = 1 /\ Tail(input_buffer_queue_) = <<>>
      /\ Input \in Chunks /\ Input = input_buffer_queue_[1]
      /\ DOMAIN input_buffer_queue_ = {1}
  <2>1. /\ Len(input_buffer_queue_) \in Nat /\ Len(input_buffer_queue_) >= 1
        /\ Tail(input_buffer_queue_) \in Seq(Chunks)
        /\ Len(Tail(input_buffer_queue_)) = Len(input_buffer_queue_) - 1
        /\ DOMAIN input_buffer_queue_ = 1..Len(input_buffer_queue_)
        /\ Input = input_buffer_queue_[1] /\ Input \in Chunks
    BY <1>1, TailFacts DEF Input
  <2>2. Len(input_buffer_queue_) = 1 /\ Len(Tail(input_buffer_queue_)) = 0
    BY <1>1, <2>1
  <2>3. Tail(input_buffer_queue_) = <<>>
    BY <2>1, <2>2, EmptyFacts
  <2>4. 1..1 = {1}
    OBVIOUS
  <2> QED BY <2>1, <2>2, <2>3, <2>4
<1>3. Input.offset < Input.size /\ Input.size <= Len(mem[Input.bid])
  BY <1>2 DEF ShapeInv, Shape, Fitting
<1>4. Input.bid \in Bids /\ Input.offset \in 0..buffer_size /\ Input.size \in 1..buffer_size
  BY <1>2 DEF Chunks
<1>5. Input.offset \in Nat /\ Input.size \in Nat
  BY <1>4, ReceiverAssumption
<1> QED BY <1>1, <1>2, <1>3, <1>4, <1>5

\* What an iteration on the header does.
LEMMA HeaderStep ==
    ASSUME ShapeInv, ParseHeader
    PROVE  /\ Running /\ input_buffer_queue_ # <<>> /\ state_ = "PARSING_HEADER"
           /\ HeaderTake \in 1..buffer_size /\ HeaderTake \in Nat
           /\ header_progress_ + HeaderTake <= wire_size
           /\ Input.offset + HeaderTake <= Input.size
           /\ HeaderComplete \/ Input.offset + HeaderTake = Input.size
           /\ header_' = CopyHeader(Input, HeaderTake)
           /\ header_' \in [1..wire_size -> Bytes]
           /\ header_progress_' = IF HeaderComplete THEN 0 ELSE header_progress_ + HeaderTake
           /\ state_' = IF HeaderComplete /\ HeaderResult = "None"
                        THEN "PARSING_PAYLOAD" ELSE "PARSING_HEADER"
           /\ Consume(HeaderTake, buffer_refcounts_, HeaderResult)
           /\ UNCHANGED <<frame_, payload_progress_, output_frame_queue_, cooling_down_,
                          write_in_progress_, handler_vars, mem, recving, writing, cq,
                          wire, pos, tun_tx>>
<1>1. Running /\ input_buffer_queue_ # <<>> /\ state_ = "PARSING_HEADER"
  BY DEF ParseHeader, Parses, Running
<1>2. header_progress_ \in 0..(wire_size - 1) /\ header_ \in [1..wire_size -> Bytes]
      /\ mem \in [Bids -> Seq(Bytes)]
  BY DEF ShapeInv, Types
<1>3. /\ Input \in Chunks /\ Input.offset < Input.size /\ Input.size <= Len(mem[Input.bid])
      /\ Input.offset \in Nat /\ Input.size \in Nat
  BY <1>1, InputFacts
<1>4. /\ wire_size \in Nat /\ header_progress_ \in Nat /\ header_progress_ < wire_size
      /\ wire_size - header_progress_ \in Nat \ {0}
  BY <1>2, WireSizeAssumption
<1>5. InputFailure(Input, header_progress_, wire_size) = "None"
  BY <1>3, <1>4, NoInputFailure
<1>6. /\ HeaderTake \in 1..buffer_size /\ HeaderTake <= wire_size - header_progress_
      /\ Input.offset + HeaderTake <= Input.size
      /\ HeaderTake = wire_size - header_progress_ \/ Input.offset + HeaderTake = Input.size
  BY <1>3, <1>4, TakeFacts DEF HeaderTake
<1>7. HeaderTake \in Nat
  BY <1>6, ReceiverAssumption
<1>8. header_progress_ + HeaderTake <= wire_size
      /\ (HeaderComplete \/ Input.offset + HeaderTake = Input.size)
  BY <1>4, <1>6, <1>7 DEF HeaderComplete
<1>9. /\ header_' = CopyHeader(Input, HeaderTake)
      /\ header_progress_' = HeaderProgress(HeaderTake)
      /\ state_' = IF HeaderComplete /\ HeaderResult = "None"
                   THEN "PARSING_PAYLOAD" ELSE "PARSING_HEADER"
      /\ Consume(HeaderTake, buffer_refcounts_, HeaderResult)
  BY <1>5, Zenon DEF ParseHeader, HeaderTake, HeaderComplete, HeaderResult, Input
<1>10. header_' \in [1..wire_size -> Bytes]
  BY <1>2, <1>3, <1>4, <1>6, <1>7, <1>9, CopyHeaderType
<1>11. header_progress_' = IF HeaderComplete THEN 0 ELSE header_progress_ + HeaderTake
  BY <1>9 DEF HeaderProgress, HeaderComplete
<1>12. UNCHANGED <<frame_, payload_progress_, output_frame_queue_, cooling_down_,
                   write_in_progress_, handler_vars, mem, recving, writing, cq,
                   wire, pos, tun_tx>>
  BY DEF ParseHeader, Parses
<1> QED BY <1>1, <1>6, <1>7, <1>8, <1>9, <1>10, <1>11, <1>12

\* What an iteration on the payload does.
LEMMA PayloadStep ==
    ASSUME ShapeInv, ParsePayload
    PROVE  /\ Running /\ input_buffer_queue_ # <<>> /\ state_ = "PARSING_PAYLOAD"
           /\ PayloadTake \in 1..buffer_size /\ PayloadTake \in Nat
           /\ PayloadWanted \in 1..mtu /\ PayloadTake <= PayloadWanted
           /\ Input.offset + PayloadTake <= Input.size
           /\ PayloadComplete \/ Input.offset + PayloadTake = Input.size
           /\ Referenced(Input.bid) \in [Bids -> Int]
           /\ Consume(PayloadTake, Referenced(Input.bid), PayloadResult)
           /\ PayloadComplete /\ PayloadResult = "None" =>
                /\ output_frame_queue_' = Append(output_frame_queue_, PayloadFrame)
                /\ frame_' = EmptyFrame
                /\ payload_progress_' = 0
                /\ state_' = "PARSING_HEADER"
           /\ ~(PayloadComplete /\ PayloadResult = "None") =>
                /\ frame_' = PayloadFrame
                /\ payload_progress_' = IF PayloadComplete THEN 0
                                        ELSE payload_progress_ + PayloadTake
                /\ UNCHANGED <<output_frame_queue_, state_>>
           /\ UNCHANGED <<header_, header_progress_, cooling_down_,
                          write_in_progress_, handler_vars, mem, recving, writing, cq,
                          wire, pos, tun_tx>>
<1>1. Running /\ input_buffer_queue_ # <<>> /\ state_ = "PARSING_PAYLOAD"
  BY DEF ParsePayload, Parses, Running
<1>2. /\ get_size(header_) \in 1..mtu /\ payload_progress_ < get_size(header_)
      /\ payload_progress_ \in 0..(mtu - 1)
      /\ buffer_refcounts_ \in [Bids -> Int]
  BY <1>1 DEF ShapeInv, Types, Shape, Parser
<1>3. /\ Input \in Chunks /\ Input.offset < Input.size /\ Input.bid \in Bids
  BY <1>1, InputFacts
<1>4. /\ PayloadWanted \in 1..mtu /\ PayloadWanted \in Nat \ {0}
      /\ payload_progress_ \in Int /\ get_size(header_) \in Int
  BY <1>2, ReceiverAssumption DEF PayloadWanted
<1>5. InputFailure(Input, payload_progress_, get_size(header_)) = "None"
  BY <1>2, <1>3, <1>4, NoInputFailure
<1>6. /\ PayloadTake \in 1..buffer_size /\ PayloadTake <= PayloadWanted
      /\ Input.offset + PayloadTake <= Input.size
      /\ PayloadTake = PayloadWanted \/ Input.offset + PayloadTake = Input.size
  BY <1>3, <1>4, TakeFacts DEF PayloadTake
<1>7. PayloadTake \in Nat
  BY <1>6, ReceiverAssumption
<1>8. PayloadComplete \/ Input.offset + PayloadTake = Input.size
  BY <1>6 DEF PayloadComplete
<1>9. /\ Consume(PayloadTake, Referenced(Input.bid), PayloadResult)
      /\ IF PayloadComplete /\ PayloadResult = "None"
         THEN /\ output_frame_queue_' = Append(output_frame_queue_, PayloadFrame)
              /\ frame_' = EmptyFrame
              /\ payload_progress_' = 0
              /\ state_' = "PARSING_HEADER"
         ELSE /\ frame_' = PayloadFrame
              /\ payload_progress_' = IF PayloadComplete THEN 0
                                      ELSE payload_progress_ + PayloadTake
              /\ UNCHANGED <<output_frame_queue_, state_>>
  BY <1>5, Zenon DEF ParsePayload, PayloadTake, PayloadWanted, PayloadComplete,
     PayloadResult, PayloadFrame, Input
<1>10. Referenced(Input.bid) \in [Bids -> Int]
  BY <1>2, <1>3 DEF Referenced
<1>12. UNCHANGED <<header_, header_progress_, cooling_down_,
                   write_in_progress_, handler_vars, mem, recving, writing, cq,
                   wire, pos, tun_tx>>
  BY DEF ParsePayload, Parses
<1> QED BY <1>1, <1>4, <1>6, <1>7, <1>8, <1>9, <1>10, <1>12

\* The frame being parsed with one segment more.
LEMMA PayloadFrameFacts ==
    ASSUME ShapeInv, ParsePayload
    PROVE  /\ PayloadFrame \in FrameType /\ Fits(PayloadFrame)
           /\ PayloadFrame.bid = Append(frame_.bid, Input.bid)
<1> DEFINE segment == [base |-> Input.bid, from |-> Input.offset, len |-> PayloadTake]
<1>1. /\ Input.bid \in Bids /\ Input.offset \in 0..buffer_size
      /\ Input.size <= Len(mem[Input.bid])
      /\ Input.offset \in Nat /\ Input.size \in Nat
  BY PayloadStep, InputFacts
<1>2. /\ PayloadTake \in 1..buffer_size /\ PayloadTake \in Nat
      /\ Input.offset + PayloadTake <= Input.size
  BY PayloadStep
<1>3. /\ frame_.bid \in Seq(Bids) /\ frame_.segments \in Seq(Segments)
      /\ Fits(frame_) /\ mem \in [Bids -> Seq(Bytes)]
  BY PayloadStep DEF ShapeInv, Types, Shape, Fitting, FrameType
<1>4. segment \in Segments
  BY <1>1, <1>2 DEF Segments
<1>5. segment.base = Input.bid /\ segment.from + segment.len <= Len(mem[segment.base])
  <2>1. Len(mem[Input.bid]) \in Nat
    BY <1>1, <1>3
  <2> QED BY <1>1, <1>2, <2>1
<1>6. PayloadFrame = [bid |-> Append(frame_.bid, Input.bid),
                      segments |-> Append(frame_.segments, segment)]
  BY DEF PayloadFrame, AddSegment
<1> HIDE DEF segment
<1> DEFINE bids == Append(frame_.bid, Input.bid)
           segments == Append(frame_.segments, segment)
<1>7. /\ bids \in Seq(Bids) /\ Len(bids) = Len(frame_.bid) + 1
      /\ \A i \in 1..Len(frame_.bid) : bids[i] = frame_.bid[i]
      /\ bids[Len(frame_.bid) + 1] = Input.bid
  BY <1>1, <1>3, AppendFacts
<1>8. /\ segments \in Seq(Segments) /\ Len(segments) = Len(frame_.segments) + 1
      /\ DOMAIN segments = 1..(Len(frame_.segments) + 1)
      /\ DOMAIN frame_.segments = 1..Len(frame_.segments)
      /\ Len(frame_.segments) \in Nat
      /\ \A i \in 1..Len(frame_.segments) : segments[i] = frame_.segments[i]
      /\ segments[Len(frame_.segments) + 1] = segment
  BY <1>3, <1>4, AppendFacts
<1> HIDE DEF bids, segments
<1>9. PayloadFrame.bid = bids /\ PayloadFrame.segments = segments
  BY <1>6 DEF bids, segments
<1>10. Len(frame_.bid) = Len(frame_.segments)
  BY <1>3 DEF Fits, FitsIn
<1>11. ASSUME NEW i \in DOMAIN segments
       PROVE  /\ bids[i] = segments[i].base
              /\ segments[i].from + segments[i].len <= Len(mem[segments[i].base])
  <2>1. CASE i = Len(frame_.segments) + 1
    BY <1>5, <1>7, <1>8, <1>10, <2>1
  <2>2. CASE i # Len(frame_.segments) + 1
    <3>1. i \in 1..Len(frame_.segments)
      BY <1>8, <1>11, <2>2
    <3>2. bids[i] = frame_.bid[i] /\ segments[i] = frame_.segments[i]
      BY <1>7, <1>8, <1>10, <3>1
    <3>3. /\ frame_.bid[i] = frame_.segments[i].base
          /\ frame_.segments[i].from + frame_.segments[i].len
               <= Len(mem[frame_.segments[i].base])
      BY <1>3, <1>8, <3>1 DEF Fits, FitsIn
    <3> QED BY <3>2, <3>3
  <2> QED BY <2>1, <2>2
<1>12. Fits(PayloadFrame)
  <2>1. Len(bids) = Len(segments)
    BY <1>7, <1>8, <1>10
  <2> QED BY <1>9, <1>11, <2>1, Zenon DEF Fits, FitsIn
<1>13. PayloadFrame \in FrameType
  BY <1>6, <1>7, <1>8 DEF FrameType, bids, segments
<1> QED BY <1>9, <1>12, <1>13 DEF bids

-----------------------------------------------------------------------------
(* Types *)

\* The types hold at the start.
LEMMA InitTypes == Init => Types
<1> SUFFICES ASSUME Init PROVE Types
  OBVIOUS
<1>1. br_ \in Seq(Bids)
  <2>1. create_buffer_group(BufferCount) \in [1..BufferCount -> Bids]
    BY ReceiverAssumption DEF create_buffer_group, Bids
  <2> QED BY <2>1, ReceiverAssumption, FunctionIsSeq DEF Init, Created
<1>2. header_ \in [1..wire_size -> Bytes]
  <2>1. header_ = [k \in 1..wire_size |-> [magic |-> TRUE, size |-> 0, crc |-> <<0, 0>>, at |-> k]]
    BY DEF Init, Created, HeaderBytes, HeaderByte, FrameHeader
  <2>2. \A k \in 1..wire_size :
           [magic |-> TRUE, size |-> 0, crc |-> <<0, 0>>, at |-> k] \in Bytes
    BY DEF Bytes
  <2> QED BY <2>1, <2>2
<1>3. /\ frame_ \in FrameType /\ output_frame_queue_ \in Seq(FrameType)
      /\ input_buffer_queue_ \in Seq(Chunks) /\ cq \in Seq(Cqes)
      /\ tun_tx \in Seq(Seq(Bytes)) /\ buffer_refcounts_ \in [Bids -> Int]
      /\ mem \in [Bids -> Seq(Bytes)]
  BY DEF Init, Created, EmptyFrame, FrameType
<1>4. wire \in Seq(Bytes) /\ pos \in 0..Len(wire)
  BY ReceiverAssumption DEF Init, Created
<1>5. header_progress_ \in 0..(wire_size - 1) /\ payload_progress_ \in 0..(mtu - 1)
      /\ released \in Nat /\ used_buffers_ \in Int
  BY ReceiverAssumption, WireSizeAssumption DEF Init, Created
<1>6. run_result \in Results
  BY DEF Init, Created, Results
<1> QED BY <1>1, <1>2, <1>3, <1>4, <1>5, <1>6 DEF Types, Init, Created

\* The oldest completion and the rest, when a handler takes it.
LEMMA HandlesFacts ==
    ASSUME Types, NEW type, Handles(type)
    PROVE  /\ Running /\ cqe_ = idle /\ cq # <<>>
           /\ Head(cq) \in Cqes /\ Head(cq).type = type
           /\ cq' = Tail(cq) /\ cq' \in Seq(Cqes)
           /\ UNCHANGED <<mem, wire, pos, tun_tx>>
  BY TailFacts DEF Handles, Types, Running

\* A frame of the oldest queued ones.
LEMMA HeadFacts ==
    ASSUME Types, output_frame_queue_ # <<>>
    PROVE  /\ Head(output_frame_queue_) \in FrameType
           /\ Head(output_frame_queue_) = output_frame_queue_[1]
           /\ Tail(output_frame_queue_) \in Seq(FrameType)
           /\ Head(output_frame_queue_).bid \in Seq(Bids)
           /\ Len(Head(output_frame_queue_).bid) \in Nat
           /\ \A i \in 1..Len(Head(output_frame_queue_).bid) :
                 Head(output_frame_queue_).bid[i] \in Bids
           /\ 1 \in DOMAIN output_frame_queue_
<1>1. output_frame_queue_ \in Seq(FrameType)
  BY DEF Types
<1>2. /\ Head(output_frame_queue_) \in FrameType
      /\ Head(output_frame_queue_) = output_frame_queue_[1]
      /\ Tail(output_frame_queue_) \in Seq(FrameType)
      /\ 1 \in DOMAIN output_frame_queue_
  BY <1>1, TailFacts
<1>3. Head(output_frame_queue_).bid \in Seq(Bids)
  BY <1>2 DEF FrameType
<1> QED BY <1>2, <1>3

\* The buffers' bytes after a chunk arrived: typed, with the chunk in front and
\* no buffer shorter than before.
LEMMA KernelRecvFacts ==
    ASSUME Types, NEW n \in 1..buffer_size, NEW more \in BOOLEAN, KernelRecv(n, more)
    PROVE  /\ Running /\ br_ # <<>> /\ Head(br_) \in Bids /\ Head(br_) = br_[1]
           /\ br_' = Tail(br_) /\ br_' \in Seq(Bids)
           /\ n \in Nat /\ pos \in Nat /\ pos' = pos + n /\ pos' \in 0..Len(wire)
           /\ mem' \in [Bids -> Seq(Bytes)]
           /\ \A bid \in Bids : Len(mem'[bid]) >= Len(mem[bid])
           /\ \A bid \in Bids : bid # Head(br_) => mem'[bid] = mem[bid]
           /\ n <= Len(mem'[Head(br_)])
           /\ SubSeq(mem'[Head(br_)], 1, n) = SubSeq(wire, pos + 1, pos + n)
           /\ recving /\ recving' = more
           /\ Cqe("RECV", n, Head(br_), more) \in RecvCqes
           /\ cq' = Append(cq, Cqe("RECV", n, Head(br_), more)) /\ cq' \in Seq(Cqes)
           /\ UNCHANGED <<own_vars, handler_vars, run_result, wire, writing, tun_tx>>
<1> DEFINE bid == Head(br_)
           old == mem[bid]
           chunk == SubSeq(wire, pos + 1, pos + n)
           rest == SubSeq(old, n + 1, Len(old))
           new == chunk \o rest
<1>1. Running /\ br_ # <<>> /\ bid \in Bids /\ bid = br_[1] /\ br_' = Tail(br_) /\ br_' \in Seq(Bids)
  BY TailFacts DEF KernelRecv, KernelStep, Types, Running
<1>2. /\ n \in Nat /\ pos \in Nat /\ pos + n <= Len(wire) /\ Len(wire) \in Nat
      /\ pos' = pos + n /\ wire \in Seq(Bytes)
  BY ReceiverAssumption DEF KernelRecv, Types
<1>3. old \in Seq(Bytes) /\ Len(old) \in Nat
  BY <1>1 DEF Types
<1>4. chunk \in Seq(Bytes) /\ Len(chunk) = n
  BY <1>2
<1>5. rest \in Seq(Bytes) /\ Len(rest) = IF n < Len(old) THEN Len(old) - n ELSE 0
  <2> HIDE DEF old
  <2> QED BY <1>2, <1>3
<1>6. mem' = [mem EXCEPT ![bid] = new]
  BY DEF KernelRecv
<1> HIDE DEF old, chunk, rest, bid
<1>7. new \in Seq(Bytes) /\ Len(new) = n + Len(rest) /\ SubSeq(new, 1, n) = chunk
  <2>1. new \in Seq(Bytes) /\ Len(new) = n + Len(rest)
    <3>1. chunk \in Seq(Bytes) /\ rest \in Seq(Bytes) /\ Len(chunk) = n
      BY <1>4, <1>5
    <3> QED BY <3>1
  <2>2. \A i \in 1..n : new[i] = chunk[i]
    BY <1>2, <1>4, <1>5
  <2> HIDE DEF new
  <2>3. n <= Len(new)
    BY <1>2, <1>5, <1>3, <2>1
  <2>4. SubSeq(new, 1, n) \in Seq(Bytes) /\ Len(SubSeq(new, 1, n)) = n
        /\ \A i \in 1..n : SubSeq(new, 1, n)[i] = new[i]
    BY <1>2, <2>1, <2>3, PrefixFacts
  <2>5. SubSeq(new, 1, n) = chunk
    BY <1>4, <2>2, <2>4, SeqEqual
  <2> QED BY <2>1, <2>5
<1> HIDE DEF new
<1>8. n <= Len(new) /\ Len(new) >= Len(old)
  BY <1>2, <1>3, <1>5, <1>7
<1>9. mem \in [Bids -> Seq(Bytes)] /\ mem' \in [Bids -> Seq(Bytes)] /\ mem'[bid] = new
      /\ \A b \in Bids : b # bid => mem'[b] = mem[b]
  BY <1>1, <1>6, <1>7 DEF Types
<1>10. \A b \in Bids : Len(mem'[b]) >= Len(mem[b])
  <2> SUFFICES ASSUME NEW b \in Bids PROVE Len(mem'[b]) >= Len(mem[b])
    OBVIOUS
  <2>1. CASE b = bid
    BY <1>8, <1>9, <2>1 DEF old
  <2>2. CASE b # bid
    <3>1. Len(mem[b]) \in Nat
      BY <1>9
    <3> QED BY <1>9, <2>2, <3>1
  <2> QED BY <2>1, <2>2
<1>11. pos' \in 0..Len(wire)
  BY <1>2
<1>12. Cqe("RECV", n, bid, more) \in RecvCqes
  BY <1>1 DEF Cqe, RecvCqes
<1>13. cq' = Append(cq, Cqe("RECV", n, bid, more)) /\ cq' \in Seq(Cqes)
  <2>1. cq' = Append(cq, Cqe("RECV", n, bid, more))
    BY DEF KernelRecv, bid
  <2>2. cq \in Seq(Cqes) /\ Cqe("RECV", n, bid, more) \in Cqes
    BY <1>12 DEF Types, Cqes
  <2> QED BY <2>1, <2>2, AppendFacts
<1>14. /\ recving /\ recving' = more
       /\ UNCHANGED <<own_vars, handler_vars, run_result, wire, writing, tun_tx>>
  BY DEF KernelRecv, KernelStep
<1> QED BY <1>1, <1>2, <1>7, <1>8, <1>9, <1>10, <1>11, <1>12, <1>13, <1>14 DEF bid, chunk

\* The RECV request ends without a chunk.
LEMMA EndRecvFacts ==
    ASSUME Types, NEW result \in {-ENOBUFS, -EIO, 0}, EndRecv(result)
    PROVE  /\ Running /\ recving /\ recving' = FALSE
           /\ Cqe("RECV", result, NoBid, FALSE) \in RecvEndCqes
           /\ cq' = Append(cq, Cqe("RECV", result, NoBid, FALSE)) /\ cq' \in Seq(Cqes)
           /\ UNCHANGED <<own_vars, handler_vars, run_result, wire, br_, mem, writing,
                          pos, tun_tx>>
<1>1. Cqe("RECV", result, NoBid, FALSE) \in RecvEndCqes
  BY DEF Cqe, RecvEndCqes
<1>2. cq' = Append(cq, Cqe("RECV", result, NoBid, FALSE))
  BY DEF EndRecv
<1>3. cq \in Seq(Cqes) /\ Cqe("RECV", result, NoBid, FALSE) \in Cqes
  BY <1>1 DEF Types, Cqes
<1>4. cq' \in Seq(Cqes)
  BY <1>2, <1>3, AppendFacts
<1> QED BY <1>1, <1>2, <1>4 DEF EndRecv, KernelStep, Running

\* The TUN device completes the WRITE of the oldest frame.
LEMMA KernelWriteFacts ==
    ASSUME ShapeInv, KernelWrite \/ KernelWriteError
    PROVE  /\ Running /\ writing /\ writing' = FALSE
           /\ output_frame_queue_ # <<>>
           /\ Iov(Head(output_frame_queue_).segments) \in Seq(Bytes)
           /\ \E result \in Int :
                /\ cq' = Append(cq, Cqe("WRITE", result, NoBid, FALSE))
                /\ cq' \in Seq(Cqes)
                /\ \/ /\ tun_tx' = Append(tun_tx, Iov(Head(output_frame_queue_).segments))
                      /\ result = Len(Iov(Head(output_frame_queue_).segments))
                   \/ tun_tx' = tun_tx /\ result < 0
           /\ tun_tx' \in Seq(Seq(Bytes))
           /\ UNCHANGED <<own_vars, handler_vars, run_result, wire, br_, mem, recving, pos>>
<1> DEFINE segments == Head(output_frame_queue_).segments
<1>1. Running /\ writing /\ writing' = FALSE
  BY DEF KernelWrite, KernelWriteError, KernelStep, Running
<1>2. output_frame_queue_ # <<>>
  BY <1>1 DEF ShapeInv, Shape, Writing
<1>3. segments = Head(output_frame_queue_).segments /\ Iov(segments) \in Seq(Bytes)
  <2>1. /\ Head(output_frame_queue_) \in FrameType /\ 1 \in DOMAIN output_frame_queue_
        /\ Head(output_frame_queue_) = output_frame_queue_[1]
    BY <1>2, HeadFacts DEF ShapeInv
  <2>2. Fits(Head(output_frame_queue_)) /\ mem \in [Bids -> Seq(Bytes)]
    BY <1>1, <2>1 DEF ShapeInv, Shape, Fitting, Types
  <2> QED BY <2>1, <2>2, IovType
<1>4. UNCHANGED <<own_vars, handler_vars, run_result, wire, br_, mem, recving, pos>>
  BY DEF KernelWrite, KernelWriteError, KernelStep
<1> HIDE DEF segments
<1>5. /\ tun_tx' \in Seq(Seq(Bytes))
      /\ \E result \in Int :
            /\ cq' = Append(cq, Cqe("WRITE", result, NoBid, FALSE))
            /\ \/ tun_tx' = Append(tun_tx, Iov(segments)) /\ result = Len(Iov(segments))
               \/ tun_tx' = tun_tx /\ result < 0
  <2>1. tun_tx \in Seq(Seq(Bytes)) /\ Append(tun_tx, Iov(segments)) \in Seq(Seq(Bytes))
        /\ Len(Iov(segments)) \in Int
    BY <1>3 DEF ShapeInv, Types
  <2>2. -EINVAL \in Int /\ -EIO \in Int /\ -EINVAL < 0 /\ -EIO < 0
    BY DEF EINVAL, EIO
  <2>3. \/ /\ tun_tx' = Append(tun_tx, Iov(segments))
           /\ cq' = Append(cq, Cqe("WRITE", Len(Iov(segments)), NoBid, FALSE))
        \/ tun_tx' = tun_tx /\ cq' = Append(cq, Cqe("WRITE", -EINVAL, NoBid, FALSE))
        \/ tun_tx' = tun_tx /\ cq' = Append(cq, Cqe("WRITE", -EIO, NoBid, FALSE))
    BY Zenon DEF KernelWrite, KernelWriteError, segments
  <2> QED BY <2>1, <2>2, <2>3
<1>6. ASSUME NEW result \in Int PROVE Append(cq, Cqe("WRITE", result, NoBid, FALSE)) \in Seq(Cqes)
  <2>1. Cqe("WRITE", result, NoBid, FALSE) \in Cqes
    BY DEF Cqe, WriteCqes, Cqes
  <2> QED BY <2>1, AppendFacts DEF ShapeInv, Types
<1> QED BY <1>1, <1>2, <1>3, <1>4, <1>5, <1>6, Zenon DEF segments

\* Every step keeps the types; the framing facts are needed where a step computes
\* with lengths.
LEMMA NextTypes == ShapeInv /\ [Next]_vars => Types'
<1> SUFFICES ASSUME ShapeInv, [Next]_vars PROVE Types'
  OBVIOUS
<1>0. Types
  BY DEF ShapeInv
<1>s. \A q \in SubmitResults(IoErrors) : q \in Results
  BY DEF SubmitResults, Results
<1>h. ASSUME NEW type, Handles(type)
      PROVE  /\ cq' \in Seq(Cqes) /\ Head(cq) \in Cqes /\ Head(cq).type = type
             /\ UNCHANGED <<mem, wire, pos, tun_tx>>
  BY <1>0, <1>h, HandlesFacts
<1>k. ASSUME NEW queue, NEW in_progress \in BOOLEAN, kick_write_(queue, in_progress)
      PROVE  /\ cqe_' = idle /\ run_result' \in Results
             /\ write_in_progress_' \in BOOLEAN /\ writing' \in BOOLEAN
  BY <1>0, <1>k, KickWriteType DEF Types, Results
<1>1. CASE RecvNoBuffers
  <2>1. /\ cqe_' = idle /\ run_result' \in Results
        /\ write_in_progress_' \in BOOLEAN /\ writing' \in BOOLEAN
    BY <1>0, <1>1, <1>k DEF RecvNoBuffers, Types
  <2>2. cq' \in Seq(Cqes) /\ UNCHANGED <<mem, wire, pos, tun_tx>>
    BY <1>1, <1>h DEF RecvNoBuffers
  <2> QED BY <1>0, <1>1, <2>1, <2>2 DEF RecvNoBuffers, Types, parser_vars
<1>2. CASE RecvFailed
  <2>1. cq' \in Seq(Cqes) /\ UNCHANGED <<mem, wire, pos, tun_tx>>
    BY <1>2, <1>h DEF RecvFailed
  <2>2. run_result' \in Results
    BY <1>2 DEF RecvFailed, RecvFailures, Results
  <2>3. used_buffers_' \in Int
    BY <1>0, <1>2 DEF RecvFailed, Types
  <2> QED BY <1>0, <1>2, <2>1, <2>2, <2>3 DEF RecvFailed, Types, parser_vars, handler_vars
<1>3. CASE RecvChunk
  <2> DEFINE chunk == [bid |-> Head(cq).bid, size |-> Head(cq).result, offset |-> 0]
  <2>1. /\ cq' \in Seq(Cqes) /\ UNCHANGED <<mem, wire, pos, tun_tx>>
        /\ Head(cq) \in RecvCqes
    BY <1>3, <1>h, CqeFacts DEF RecvChunk
  <2>2. chunk \in Chunks
    BY <2>1, ReceiverAssumption DEF RecvCqes, Chunks
  <2>3. used_buffers_' \in Int /\ cqe_' \in RecvCqes
    BY <1>0, <1>3, <2>1 DEF RecvChunk, Types
  <2> HIDE DEF chunk
  <2>4. Append(input_buffer_queue_, chunk) \in Seq(Chunks)
    BY <1>0, <2>2, AppendFacts DEF Types
  <2>5. input_buffer_queue_' \in Seq(Chunks)
    BY <1>3, <2>4 DEF RecvChunk, chunk
  <2> QED BY <1>0, <1>3, <2>1, <2>3, <2>5 DEF RecvChunk, Types, parser_vars
<1>4. CASE ParseHeader
  <2>1. input_buffer_queue_ \in Seq(Chunks) /\ Len(input_buffer_queue_) <= 1
        /\ buffer_refcounts_ \in [Bids -> Int] /\ br_ \in Seq(Bids) /\ used_buffers_ \in Int
        /\ header_progress_ \in 0..(wire_size - 1)
    BY <1>0, <1>4, HeaderStep DEF ShapeInv, Shape, Handling, Types
  <2>2. /\ run_result' = HeaderResult /\ buffer_refcounts_' = buffer_refcounts_
        /\ input_buffer_queue_' \in Seq(Chunks) /\ br_' \in Seq(Bids) /\ used_buffers_' \in Int
    BY <1>4, <2>1, HeaderStep, ConsumeFacts DEF Input
  <2>3. HeaderResult \in Results
    BY DEF HeaderResult, HeaderFailure, Results
  <2>4. header_progress_' \in 0..(wire_size - 1)
    BY <1>4, <2>1, HeaderStep, WireSizeAssumption DEF HeaderComplete
  <2>5. header_' \in [1..wire_size -> Bytes]
        /\ state_' \in {"PARSING_HEADER", "PARSING_PAYLOAD"}
        /\ UNCHANGED <<frame_, payload_progress_, output_frame_queue_, cooling_down_,
                       write_in_progress_, handler_vars, mem, recving, writing, cq,
                       wire, pos, tun_tx>>
    BY <1>4, HeaderStep
  <2> QED BY <1>0, <2>2, <2>3, <2>4, <2>5 DEF Types, handler_vars
<1>5. CASE ParsePayload
  <2>1. input_buffer_queue_ \in Seq(Chunks) /\ Len(input_buffer_queue_) <= 1
        /\ buffer_refcounts_ \in [Bids -> Int] /\ br_ \in Seq(Bids) /\ used_buffers_ \in Int
    BY <1>0, <1>5, PayloadStep DEF ShapeInv, Shape, Handling, Types
  <2>2. /\ run_result' = PayloadResult /\ buffer_refcounts_' = Referenced(Input.bid)
        /\ input_buffer_queue_' \in Seq(Chunks) /\ br_' \in Seq(Bids) /\ used_buffers_' \in Int
    BY <1>5, <2>1, PayloadStep, ConsumeFacts DEF Input
  <2>3. PayloadResult \in Results /\ Referenced(Input.bid) \in [Bids -> Int]
    BY <1>5, PayloadStep DEF PayloadResult, PayloadFailure, Results
  <2>4. payload_progress_' \in 0..(mtu - 1)
    <3>1. /\ get_size(header_) \in 1..mtu /\ payload_progress_ < get_size(header_)
          /\ payload_progress_ \in 0..(mtu - 1)
      BY <1>0, <1>5, PayloadStep DEF ShapeInv, Shape, Parser, Types
    <3>2. PayloadTake \in Nat /\ PayloadTake <= get_size(header_) - payload_progress_
      BY <1>5, PayloadStep DEF PayloadWanted
    <3>3. 0 \in 0..(mtu - 1)
      BY ReceiverAssumption
    <3>4. CASE PayloadComplete
      BY <1>5, <3>3, <3>4, PayloadStep
    <3>5. CASE ~PayloadComplete
      <4>1. payload_progress_' = payload_progress_ + PayloadTake
        BY <1>5, <3>5, PayloadStep
      <4>2. payload_progress_ + PayloadTake < get_size(header_)
        BY <3>1, <3>2, <3>5, ReceiverAssumption DEF PayloadComplete, PayloadWanted
      <4> QED BY <3>1, <3>2, <4>1, <4>2, ReceiverAssumption
    <3> QED BY <3>4, <3>5
  <2>5. output_frame_queue_' \in Seq(FrameType) /\ frame_' \in FrameType
        /\ state_' \in {"PARSING_HEADER", "PARSING_PAYLOAD"}
    <3>1. PayloadFrame \in FrameType /\ EmptyFrame \in FrameType
          /\ output_frame_queue_ \in Seq(FrameType)
      BY <1>0, <1>5, PayloadFrameFacts DEF Types, EmptyFrame, FrameType
    <3>2. Append(output_frame_queue_, PayloadFrame) \in Seq(FrameType)
      BY <3>1, AppendFacts
    <3>3. CASE PayloadComplete /\ PayloadResult = "None"
      BY <1>5, <3>1, <3>2, <3>3, PayloadStep
    <3>4. CASE ~(PayloadComplete /\ PayloadResult = "None")
      BY <1>5, <3>1, <3>4, PayloadStep
    <3> QED BY <3>3, <3>4
  <2>6. UNCHANGED <<header_, header_progress_, cooling_down_, write_in_progress_,
                    handler_vars, mem, recving, writing, cq, wire, pos, tun_tx>>
    BY <1>5, PayloadStep
  <2> QED BY <1>0, <2>2, <2>3, <2>4, <2>5, <2>6 DEF Types, handler_vars
<1>6. CASE ParseNoMemory
  <2>1. buffer_refcounts_' \in [Bids -> Int]
    <3>1. Input.bid \in Bids
      BY <1>6, InputFacts DEF ParseNoMemory, Parses, Running
    <3> QED BY <1>0, <1>6, <3>1 DEF ParseNoMemory, Referenced, Types, Input
  <2> QED BY <1>0, <1>6, <2>1 DEF ParseNoMemory, Parses, Types, Results, parser_vars, handler_vars
<1>7. CASE RecvDone
  <2>1. /\ cqe_' = idle /\ run_result' \in Results
        /\ write_in_progress_' \in BOOLEAN /\ writing' \in BOOLEAN
    BY <1>0, <1>7, <1>k DEF RecvDone, Types
  <2>2. recving' \in BOOLEAN
    BY <1>0, <1>7 DEF RecvDone, Types
  <2> QED BY <1>0, <1>7, <2>1, <2>2 DEF RecvDone, Parsed, Types, parser_vars
<1>8. CASE RecvRearmFailed
  BY <1>0, <1>8, <1>s DEF RecvRearmFailed, Parsed, Types, parser_vars
<1>9. CASE WriteCompleted
  <2>1. /\ cq' \in Seq(Cqes) /\ UNCHANGED <<mem, wire, pos, tun_tx>>
        /\ Head(cq) \in WriteCqes
    BY <1>9, <1>h, CqeFacts DEF WriteCompleted
  <2>2. cqe_' \in {idle} \cup WriteCqes /\ run_result' \in Results
    BY <1>9, <2>1 DEF WriteCompleted, WriteFailure, Results
  <2> QED BY <1>0, <1>9, <2>1, <2>2 DEF WriteCompleted, Types, parser_vars
<1>10. CASE ReleaseBuffer
  <2> DEFINE bid == Head(output_frame_queue_).bid[released + 1]
             refcounts == [buffer_refcounts_ EXCEPT ![bid] = @ - 1]
  <2>1. /\ buffer_refcounts_' = refcounts
        /\ br_' = IF LastReference(refcounts, bid) THEN return_buffer(br_, bid) ELSE br_
        /\ used_buffers_' = used_buffers_ - (IF LastReference(refcounts, bid) THEN 1 ELSE 0)
    BY <1>10 DEF ReleaseBuffer
  <2>2. bid \in Bids
    <3>1. output_frame_queue_ # <<>>
      BY <1>10 DEF ShapeInv, Shape, Writing, ReleaseBuffer, Releases, Running
    <3>2. released \in Nat /\ released < Len(Head(output_frame_queue_).bid)
      BY <1>0, <1>10 DEF ReleaseBuffer, Types
    <3>3. Len(Head(output_frame_queue_).bid) \in Nat
      BY <1>0, <3>1, HeadFacts
    <3>4. released + 1 \in 1..Len(Head(output_frame_queue_).bid)
      BY <3>2, <3>3
    <3> QED BY <1>0, <3>1, <3>4, HeadFacts
  <2>3. refcounts \in [Bids -> Int]
    BY <1>0, <2>2 DEF Types
  <2> HIDE DEF bid, refcounts
  <2>4. return_buffer(br_, bid) \in Seq(Bids)
    BY <1>0, <2>2, AppendFacts DEF Types, return_buffer
  <2>5. br_' \in Seq(Bids) /\ used_buffers_' \in Int
    BY <1>0, <2>1, <2>4 DEF Types
  <2>6. released' \in Nat
    BY <1>0, <1>10 DEF ReleaseBuffer, Types
  <2> QED BY <1>0, <1>10, <2>1, <2>3, <2>5, <2>6 DEF ReleaseBuffer, Releases, Types, parser_vars
<1>11. CASE WriteDone
  <2>1. /\ cqe_' = idle /\ run_result' \in Results
        /\ write_in_progress_' \in BOOLEAN /\ writing' \in BOOLEAN
    BY <1>0, <1>11, <1>k DEF WriteDone
  <2>2. Tail(output_frame_queue_) \in Seq(FrameType)
    BY <1>0, <1>11, HeadFacts DEF WriteDone, Released, Releases, ShapeInv, Shape, Writing, Running
  <2>3. recving' \in BOOLEAN /\ cooling_down_' \in BOOLEAN
    BY <1>0, <1>11 DEF WriteDone, CooledDown, Types
  <2> QED BY <1>0, <1>11, <2>1, <2>2, <2>3 DEF WriteDone, Released, Releases, Types, parser_vars
<1>12. CASE WriteRearmFailed
  <2>2. Tail(output_frame_queue_) \in Seq(FrameType)
    BY <1>0, <1>12, HeadFacts DEF WriteRearmFailed, Released, Releases, ShapeInv, Shape, Writing, Running
  <2> QED BY <1>0, <1>12, <1>s, <2>2 DEF WriteRearmFailed, Released, Releases, Types, parser_vars
<1>13. CASE \E n \in 1..buffer_size, more \in BOOLEAN : KernelRecv(n, more)
  <2>1. PICK n \in 1..buffer_size, more \in BOOLEAN : KernelRecv(n, more)
    BY <1>13
  <2>2. /\ br_' \in Seq(Bids) /\ pos' \in 0..Len(wire) /\ mem' \in [Bids -> Seq(Bytes)]
        /\ cq' \in Seq(Cqes) /\ recving' = more
        /\ UNCHANGED <<own_vars, handler_vars, run_result, wire, writing, tun_tx>>
    BY <1>0, <2>1, KernelRecvFacts
  <2> QED BY <1>0, <2>2 DEF Types, own_vars, parser_vars, handler_vars
<1>14. CASE KernelRecvNoBuffers \/ KernelRecvError \/ KernelPeerClosed
  <2>1. PICK result \in {-ENOBUFS, -EIO, 0} : EndRecv(result)
    BY <1>14 DEF KernelRecvNoBuffers, KernelRecvError, KernelPeerClosed
  <2>2. /\ cq' \in Seq(Cqes) /\ recving' = FALSE
        /\ UNCHANGED <<own_vars, handler_vars, run_result, wire, br_, mem, writing,
                       pos, tun_tx>>
    BY <1>0, <2>1, EndRecvFacts
  <2> QED BY <1>0, <2>2 DEF Types, own_vars, parser_vars, handler_vars
<1>15. CASE KernelWrite \/ KernelWriteError
  <2>1. /\ cq' \in Seq(Cqes) /\ writing' = FALSE /\ tun_tx' \in Seq(Seq(Bytes))
        /\ UNCHANGED <<own_vars, handler_vars, run_result, wire, br_, mem, recving, pos>>
    BY <1>15, KernelWriteFacts
  <2> QED BY <1>0, <2>1 DEF Types, own_vars, parser_vars, handler_vars
<1>16. CASE UNCHANGED vars
  BY <1>0, <1>16 DEF vars, own_vars, parser_vars, handler_vars, kernel_vars, Types
<1> QED
  BY <1>1, <1>2, <1>3, <1>4, <1>5, <1>6, <1>7, <1>8, <1>9, <1>10, <1>11, <1>12, <1>13,
     <1>14, <1>15, <1>16 DEF Next, Handle, Kernel

-----------------------------------------------------------------------------
(* The parser, the handlers, the buffers' bytes and the WRITE *)

\* What an iteration leaves when the session goes on.
LEMMA ParseResults ==
    ASSUME ShapeInv, Running'
    PROVE  /\ ParseHeader => HeaderResult = "None"
           /\ ParsePayload => PayloadResult = "None"
           /\ ~ParseNoMemory /\ ~RecvFailed /\ ~RecvRearmFailed /\ ~WriteRearmFailed
<1>1. ASSUME ParseHeader PROVE HeaderResult = "None"
  BY <1>1, HeaderStep DEF Consume, Running
<1>2. ASSUME ParsePayload PROVE PayloadResult = "None"
  BY <1>2, PayloadStep DEF Consume, Running
<1>3. ~ParseNoMemory /\ ~RecvFailed /\ ~RecvRearmFailed /\ ~WriteRearmFailed
  BY DEF ParseNoMemory, RecvFailed, RecvFailures, RecvRearmFailed, WriteRearmFailed, Running
<1> QED BY <1>1, <1>2, <1>3

\* Every step keeps what the parser says of its offset and its element.
LEMMA NextParser == ShapeInv /\ [Next]_vars /\ Running' => Parser'
<1> SUFFICES ASSUME ShapeInv, [Next]_vars, Running' PROVE Parser'
  OBVIOUS
<1>1. CASE ParseHeader
  <2>1. HeaderResult = "None" /\ Parser
    BY <1>1, HeaderStep, ParseResults DEF ShapeInv, Shape
  <2>2. payload_progress_' = 0 /\ frame_' = EmptyFrame
    BY <1>1, <2>1, HeaderStep DEF Parser
  <2>3. CASE HeaderComplete
    <3>1. state_' = "PARSING_PAYLOAD" /\ header_progress_' = 0
      BY <1>1, <2>1, <2>3, HeaderStep
    <3>2. get_size(header_') \in Nat
      BY <1>1, HeaderStep, HeaderFacts
    <3>3. ~(get_size(header_') = 0 \/ get_size(header_') > mtu)
      <4>1. HeaderFailure(header_') = "None"
        BY <1>1, <2>1, <2>3, HeaderStep DEF HeaderResult
      <4> QED BY <4>1, Zenon DEF HeaderFailure
    <3>4. get_size(header_') \in 1..mtu /\ 0 < get_size(header_')
      BY <3>2, <3>3, ReceiverAssumption
    <3> QED BY <2>2, <3>1, <3>4 DEF Parser
  <2>4. CASE ~HeaderComplete
    <3>1. state_' = "PARSING_HEADER"
      BY <1>1, <2>4, HeaderStep
    <3> QED BY <2>2, <3>1 DEF Parser
  <2> QED BY <2>3, <2>4
<1>2. CASE ParsePayload
  <2>1. PayloadResult = "None" /\ Parser /\ Types
    BY <1>2, PayloadStep, ParseResults DEF ShapeInv, Shape
  <2>2. CASE PayloadComplete
    BY <1>2, <2>1, <2>2, PayloadStep DEF Parser
  <2>3. CASE ~PayloadComplete
    <3>1. /\ payload_progress_' = payload_progress_ + PayloadTake
          /\ UNCHANGED <<state_, header_, header_progress_>>
          /\ PayloadTake <= PayloadWanted /\ PayloadTake \in Nat /\ PayloadWanted \in 1..mtu
          /\ state_ = "PARSING_PAYLOAD"
      BY <1>2, <2>3, PayloadStep
    <3>2. /\ header_progress_ = 0 /\ get_size(header_) \in 1..mtu
          /\ payload_progress_ \in 0..(mtu - 1)
      BY <2>1, <3>1 DEF Parser, Types
    <3>3. payload_progress_' < get_size(header_)
      BY <2>3, <3>1, <3>2, ReceiverAssumption DEF PayloadComplete, PayloadWanted
    <3> QED BY <3>1, <3>2, <3>3 DEF Parser
  <2> QED BY <2>2, <2>3
<1>3. CASE UNCHANGED parser_vars /\ Running
  BY <1>3 DEF ShapeInv, Shape, Parser, parser_vars
<1>4. CASE RecvNoBuffers \/ RecvChunk \/ RecvDone \/ WriteCompleted
  BY <1>3, <1>4 DEF RecvNoBuffers, RecvChunk, RecvDone, Parsed, WriteCompleted, Handles, Running
<1>5. CASE ReleaseBuffer \/ WriteDone
  BY <1>3, <1>5 DEF ReleaseBuffer, WriteDone, Released, Releases, Running
<1>6. CASE Kernel
  BY <1>3, <1>6 DEF Kernel, KernelRecv, KernelRecvNoBuffers, KernelRecvError, KernelPeerClosed,
     EndRecv, KernelWrite, KernelWriteError, KernelStep, own_vars, Running
<1>7. CASE UNCHANGED vars
  BY <1>3, <1>7 DEF vars, own_vars, Running
<1> QED BY <1>1, <1>2, <1>4, <1>5, <1>6, <1>7, ParseResults DEF Next, Handle

\* Every step keeps what the handler of a completion has in hand.
LEMMA NextHandling == ShapeInv /\ [Next]_vars /\ Running' => Handling'
<1> SUFFICES ASSUME ShapeInv, [Next]_vars, Running' PROVE Handling'
  OBVIOUS
<1>0. Types /\ Types'
  BY NextTypes DEF ShapeInv
<1>i. idle.type = "NONE"
  BY DEF idle, Cqe
<1>h. ASSUME NEW type, Handles(type)
      PROVE  input_buffer_queue_ = <<>> /\ released = 0 /\ cqe_ = idle /\ Running
  BY <1>h, <1>i DEF Handles, ShapeInv, Shape, Handling, Running
<1>1. CASE RecvNoBuffers
  <2>1. cqe_' = idle /\ UNCHANGED <<input_buffer_queue_, released>>
    BY <1>1 DEF RecvNoBuffers, kick_write_
  <2> QED BY <1>h, <1>1, <1>i, <2>1 DEF Handling, RecvNoBuffers
<1>2. CASE RecvChunk
  <2>1. input_buffer_queue_ = <<>> /\ released = 0
    BY <1>h, <1>2 DEF RecvChunk
  <2>2. cqe_' = Head(cq) /\ Head(cq).type = "RECV" /\ released' = released
    BY <1>2 DEF RecvChunk, Handles
  <2>3. Len(input_buffer_queue_') <= 1
    <3> DEFINE chunk == [bid |-> Head(cq).bid, size |-> Head(cq).result, offset |-> 0]
    <3>1. input_buffer_queue_' = Append(input_buffer_queue_, chunk)
      BY <1>2 DEF RecvChunk
    <3> HIDE DEF chunk
    <3>2. input_buffer_queue_' = <<chunk>>
      BY <2>1, <3>1
    <3> QED BY <3>2
  <2> QED BY <2>1, <2>2, <2>3 DEF Handling
<1>3. CASE ParseHeader \/ ParsePayload
  <2>1. Len(input_buffer_queue_') <= 1
    <3>1. /\ input_buffer_queue_ \in Seq(Chunks) /\ Len(input_buffer_queue_) <= 1
          /\ input_buffer_queue_ # <<>>
          /\ buffer_refcounts_ \in [Bids -> Int] /\ br_ \in Seq(Bids) /\ used_buffers_ \in Int
      BY <1>0, <1>3, HeaderStep, PayloadStep DEF ShapeInv, Shape, Handling, Types
    <3>2. CASE ParseHeader
      BY <3>1, <3>2, HeaderStep, ConsumeFacts DEF Input
    <3>3. CASE ParsePayload
      BY <3>1, <3>3, PayloadStep, ConsumeFacts DEF Input
    <3> QED BY <1>3, <3>2, <3>3
  <2>2. cqe_.type = "RECV" /\ released = 0 /\ UNCHANGED <<cqe_, released>>
    BY <1>3, HeaderStep, PayloadStep, InputFacts DEF handler_vars, ShapeInv, Shape, Handling
  <2> QED BY <2>1, <2>2 DEF Handling
<1>4. CASE RecvDone
  <2>1. /\ cqe_' = idle /\ UNCHANGED <<input_buffer_queue_, released>>
        /\ input_buffer_queue_ = <<>> /\ released = 0
    BY <1>4 DEF RecvDone, Parsed, kick_write_, ShapeInv, Shape, Handling, Running
  <2> QED BY <1>i, <2>1 DEF Handling
<1>5. CASE WriteCompleted
  <2>1. /\ input_buffer_queue_' = <<>> /\ released' = 0
        /\ output_frame_queue_' = output_frame_queue_
    BY <1>h, <1>5 DEF WriteCompleted
  <2>2. output_frame_queue_ # <<>>
    BY <1>5 DEF WriteCompleted, WriteFailure, Running
  <2>3. 0 <= Len(Head(output_frame_queue_).bid)
    BY <1>0, <2>2, HeadFacts
  <2> QED BY <2>1, <2>3 DEF Handling
<1>6. CASE ReleaseBuffer
  <2>1. /\ cqe_.type = "WRITE" /\ input_buffer_queue_ = <<>>
        /\ UNCHANGED <<cqe_, input_buffer_queue_, output_frame_queue_>>
        /\ released' = released + 1 /\ released < Len(Head(output_frame_queue_).bid)
        /\ output_frame_queue_ # <<>>
    BY <1>6 DEF ReleaseBuffer, Releases, ShapeInv, Shape, Handling, Writing, Running
  <2>2. Len(Head(output_frame_queue_).bid) \in Nat /\ released \in Nat
    BY <1>0, <2>1, HeadFacts DEF Types
  <2> QED BY <2>1, <2>2 DEF Handling
<1>7. CASE WriteDone
  <2>1. /\ cqe_' = idle /\ input_buffer_queue_ = <<>> /\ UNCHANGED input_buffer_queue_
        /\ released' = 0
    BY <1>7 DEF WriteDone, Released, Releases, kick_write_, ShapeInv, Shape, Handling, Running
  <2> QED BY <1>i, <2>1 DEF Handling
<1>8. CASE UNCHANGED <<own_vars, handler_vars>> /\ Running
  BY <1>8 DEF ShapeInv, Shape, Handling, own_vars, handler_vars
<1>9. CASE Kernel
  BY <1>8, <1>9 DEF Kernel, KernelRecv, KernelRecvNoBuffers, KernelRecvError, KernelPeerClosed,
     EndRecv, KernelWrite, KernelWriteError, KernelStep, Running
<1>10. CASE UNCHANGED vars
  BY <1>8, <1>10 DEF vars, Running
<1> QED
  BY <1>1, <1>2, <1>3, <1>4, <1>5, <1>6, <1>7, <1>9, <1>10, ParseResults DEF Next, Handle

\* What fits in buffers still fits when no buffer shrinks.
LEMMA FitsStays ==
    ASSUME mem \in [Bids -> Seq(Bytes)], mem' \in [Bids -> Seq(Bytes)],
           \A bid \in Bids : Len(mem'[bid]) >= Len(mem[bid]),
           NEW frame \in FrameType, FitsIn(frame, mem)
    PROVE  FitsIn(frame, mem')
<1>1. ASSUME NEW i \in DOMAIN frame.segments
      PROVE  /\ frame.bid[i] = frame.segments[i].base
             /\ frame.segments[i].from + frame.segments[i].len
                  <= Len(mem'[frame.segments[i].base])
  <2>1. /\ frame.bid[i] = frame.segments[i].base
        /\ frame.segments[i].from + frame.segments[i].len <= Len(mem[frame.segments[i].base])
    BY <1>1 DEF Fits, FitsIn
  <2>2. frame.segments[i] \in Segments
    BY <1>1 DEF FrameType
  <2>3. /\ frame.segments[i].base \in Bids
        /\ frame.segments[i].from + frame.segments[i].len \in Int
    BY <2>2, ReceiverAssumption DEF Segments
  <2>4. /\ Len(mem[frame.segments[i].base]) \in Int /\ Len(mem'[frame.segments[i].base]) \in Int
        /\ Len(mem'[frame.segments[i].base]) >= Len(mem[frame.segments[i].base])
    BY <2>3
  <2> QED BY <2>1, <2>3, <2>4
<1>2. Len(frame.bid) = Len(frame.segments)
  BY DEF Fits, FitsIn
<1> QED BY <1>1, <1>2, Zenon DEF Fits, FitsIn

\* Only a new chunk changes a buffer, and it does not shrink it.
LEMMA BuffersGrow ==
    ASSUME ShapeInv, [Next]_vars
    PROVE  /\ mem \in [Bids -> Seq(Bytes)] /\ mem' \in [Bids -> Seq(Bytes)]
           /\ \A bid \in Bids : Len(mem'[bid]) >= Len(mem[bid])
           /\ (~\E n \in 1..buffer_size, more \in BOOLEAN : KernelRecv(n, more))
                => UNCHANGED mem
<1>1. CASE \E n \in 1..buffer_size, more \in BOOLEAN : KernelRecv(n, more)
  BY <1>1, KernelRecvFacts DEF ShapeInv, Types
<1>2. CASE ~\E n \in 1..buffer_size, more \in BOOLEAN : KernelRecv(n, more)
  <2>1. UNCHANGED mem
    <3>1. CASE Handle
      BY <3>1 DEF Handle, RecvNoBuffers, RecvFailed, RecvChunk, ParseHeader, ParsePayload,
         ParseNoMemory, RecvDone, RecvRearmFailed, WriteCompleted, ReleaseBuffer, WriteDone,
         WriteRearmFailed, Handles, Parses, Parsed, Released, Releases
    <3>2. CASE Kernel
      BY <1>2, <3>2 DEF Kernel, KernelRecvNoBuffers, KernelRecvError, KernelPeerClosed,
         EndRecv, KernelWrite, KernelWriteError, KernelStep
    <3>3. CASE UNCHANGED vars
      BY <3>3 DEF vars, kernel_vars
    <3> QED BY <3>1, <3>2, <3>3 DEF Next
  <2>2. mem \in [Bids -> Seq(Bytes)]
    BY DEF ShapeInv, Types
  <2>3. \A bid \in Bids : Len(mem[bid]) \in Nat
    BY <2>2
  <2> QED BY <2>1, <2>2, <2>3
<1> QED BY <1>1, <1>2

\* The frames' segments lie in the buffers' bytes.
FramesFit ==
    /\ Fits(frame_)
    /\ \A i \in DOMAIN output_frame_queue_ : Fits(output_frame_queue_[i])

\* Every step keeps the frames within the parts their header announced.
LEMMA NextFramesFit == ShapeInv /\ [Next]_vars /\ Running' => FramesFit'
<1> SUFFICES ASSUME ShapeInv, [Next]_vars, Running' PROVE FramesFit'
  OBVIOUS
<1>0. /\ mem \in [Bids -> Seq(Bytes)] /\ mem' \in [Bids -> Seq(Bytes)]
      /\ \A bid \in Bids : Len(mem'[bid]) >= Len(mem[bid])
  BY BuffersGrow
<1>1. /\ frame_ \in FrameType /\ output_frame_queue_ \in Seq(FrameType)
  BY DEF ShapeInv, Types
<1>2. ASSUME Running
      PROVE  /\ FitsIn(frame_, mem')
             /\ \A i \in DOMAIN output_frame_queue_ : FitsIn(output_frame_queue_[i], mem')
  <2>1. FitsIn(frame_, mem) /\ \A i \in DOMAIN output_frame_queue_ : FitsIn(output_frame_queue_[i], mem)
    BY <1>2 DEF ShapeInv, Shape, Fitting, Fits
  <2>2. \A i \in DOMAIN output_frame_queue_ : output_frame_queue_[i] \in FrameType
    BY <1>1
  <2>3. FitsIn(frame_, mem')
    BY <1>0, <1>1, <2>1, FitsStays
  <2>4. \A i \in DOMAIN output_frame_queue_ : FitsIn(output_frame_queue_[i], mem')
    BY <1>0, <2>1, <2>2, FitsStays
  <2> QED BY <2>3, <2>4
<1>3. CASE ParsePayload
  <2>1. Running /\ PayloadFrame \in FrameType /\ FitsIn(PayloadFrame, mem)
    BY <1>3, PayloadFrameFacts, PayloadStep DEF Fits
  <2>2. FitsIn(PayloadFrame, mem')
    BY <1>0, <2>1, FitsStays
  <2>3. CASE PayloadComplete /\ PayloadResult = "None"
    <3>1. output_frame_queue_' = Append(output_frame_queue_, PayloadFrame) /\ frame_' = EmptyFrame
      BY <1>3, <2>3, PayloadStep
    <3>2. FitsIn(EmptyFrame, mem')
      BY DEF FitsIn, EmptyFrame
    <3>3. ASSUME NEW i \in DOMAIN output_frame_queue_'
          PROVE  FitsIn(output_frame_queue_'[i], mem')
      <4>1. /\ Len(output_frame_queue_) \in Nat
            /\ DOMAIN output_frame_queue_ = 1..Len(output_frame_queue_)
            /\ DOMAIN output_frame_queue_' = 1..(Len(output_frame_queue_) + 1)
            /\ \A k \in 1..Len(output_frame_queue_) : output_frame_queue_'[k] = output_frame_queue_[k]
            /\ output_frame_queue_'[Len(output_frame_queue_) + 1] = PayloadFrame
        BY <1>1, <2>1, <3>1, AppendFacts
      <4>2. CASE i = Len(output_frame_queue_) + 1
        BY <2>2, <4>1, <4>2
      <4>3. CASE i # Len(output_frame_queue_) + 1
        <5>1. i \in 1..Len(output_frame_queue_)
          BY <3>3, <4>1, <4>3
        <5> QED BY <1>2, <2>1, <4>1, <5>1
      <4> QED BY <4>2, <4>3
    <3> QED BY <3>1, <3>2, <3>3 DEF FramesFit, Fits
  <2>4. CASE ~(PayloadComplete /\ PayloadResult = "None")
    <3>1. output_frame_queue_' = output_frame_queue_ /\ frame_' = PayloadFrame
      BY <1>3, <2>4, PayloadStep
    <3> QED BY <1>2, <2>1, <2>2, <3>1 DEF FramesFit, Fits
  <2> QED BY <2>3, <2>4
<1>4. CASE WriteDone
  <2>1. /\ Running /\ frame_' = frame_ /\ output_frame_queue_' = Tail(output_frame_queue_)
        /\ output_frame_queue_ # <<>>
    BY <1>4 DEF WriteDone, Released, Releases, Running, ShapeInv, Shape, Writing, parser_vars
  <2>2. ASSUME NEW i \in DOMAIN output_frame_queue_'
        PROVE  FitsIn(output_frame_queue_'[i], mem')
    <3>1. /\ DOMAIN output_frame_queue_ = 1..Len(output_frame_queue_)
          /\ DOMAIN output_frame_queue_' = 1..(Len(output_frame_queue_) - 1)
          /\ Len(output_frame_queue_) \in Nat
          /\ \A k \in 1..(Len(output_frame_queue_) - 1) :
                output_frame_queue_'[k] = output_frame_queue_[k + 1]
      BY <1>1, <2>1, TailFacts
    <3>2. i + 1 \in DOMAIN output_frame_queue_ /\ output_frame_queue_'[i] = output_frame_queue_[i + 1]
      BY <2>2, <3>1
    <3> QED BY <1>2, <2>1, <3>2
  <2> QED BY <1>2, <2>1, <2>2 DEF FramesFit, Fits
<1>5. CASE UNCHANGED <<frame_, output_frame_queue_>> /\ Running
  BY <1>2, <1>5 DEF FramesFit, Fits
<1>6. CASE RecvNoBuffers \/ RecvChunk \/ ParseHeader \/ RecvDone \/ WriteCompleted \/ ReleaseBuffer
  <2>1. CASE ParseHeader
    BY <1>5, <2>1, HeaderStep
  <2>2. CASE RecvNoBuffers \/ RecvChunk \/ RecvDone \/ WriteCompleted \/ ReleaseBuffer
    BY <1>5, <2>2 DEF RecvNoBuffers, RecvChunk, RecvDone, Parsed, WriteCompleted, Handles,
       ReleaseBuffer, Releases, Running, parser_vars
  <2> QED BY <1>6, <2>1, <2>2
<1>7. CASE Kernel
  BY <1>5, <1>7 DEF Kernel, KernelRecv, KernelRecvNoBuffers, KernelRecvError, KernelPeerClosed,
     EndRecv, KernelWrite, KernelWriteError, KernelStep, own_vars, parser_vars, Running
<1>8. CASE UNCHANGED vars
  BY <1>5, <1>8 DEF vars, own_vars, parser_vars, Running
<1> QED BY <1>3, <1>4, <1>6, <1>7, <1>8, ParseResults DEF Next, Handle

\* Whether a completion brings a chunk, and whether it ends the RECV request.
Brings(cqe) == cqe.type = "RECV" /\ cqe.bid # NoBid
EndsRecv(cqe) == cqe.type = "RECV" /\ ~cqe.more

\* The completions of each kind after one more was posted ...
LEMMA PostedFacts ==
    ASSUME Types, NEW cqe \in Cqes, cq' = Append(cq, cqe)
    PROVE  /\ Len(cq) \in Nat /\ DOMAIN cq = 1..Len(cq) /\ DOMAIN cq' = 1..(Len(cq) + 1)
           /\ \A i \in 1..Len(cq) : cq'[i] = cq[i]
           /\ cq'[Len(cq) + 1] = cqe
           /\ Filled' = Filled \cup (IF Brings(cqe) THEN {Len(cq) + 1} ELSE {})
           /\ RecvEnds' = RecvEnds \cup (IF EndsRecv(cqe) THEN {Len(cq) + 1} ELSE {})
           /\ WriteDones' = WriteDones \cup (IF cqe.type = "WRITE" THEN {Len(cq) + 1} ELSE {})
           /\ Len(cq) + 1 \notin Filled /\ Len(cq) + 1 \notin RecvEnds
           /\ Len(cq) + 1 \notin WriteDones
<1>1. /\ Len(cq) \in Nat /\ DOMAIN cq = 1..Len(cq) /\ DOMAIN cq' = 1..(Len(cq) + 1)
      /\ \A i \in 1..Len(cq) : cq'[i] = cq[i]
      /\ cq'[Len(cq) + 1] = cqe
  BY AppendFacts DEF Types
<1>2. Filled' = Filled \cup (IF Brings(cqe) THEN {Len(cq) + 1} ELSE {})
  BY <1>1 DEF Filled, Brings
<1>3. RecvEnds' = RecvEnds \cup (IF EndsRecv(cqe) THEN {Len(cq) + 1} ELSE {})
  BY <1>1 DEF RecvEnds, EndsRecv
<1>4. WriteDones' = WriteDones \cup (IF cqe.type = "WRITE" THEN {Len(cq) + 1} ELSE {})
  BY <1>1 DEF WriteDones
<1>5. Len(cq) + 1 \notin Filled /\ Len(cq) + 1 \notin RecvEnds /\ Len(cq) + 1 \notin WriteDones
  BY <1>1 DEF Filled, RecvEnds, WriteDones
<1> QED BY <1>1, <1>2, <1>3, <1>4, <1>5

\* ... and after the oldest was taken.
LEMMA TakenFacts ==
    ASSUME Types, cq # <<>>, cq' = Tail(cq)
    PROVE  /\ Len(cq) \in Nat /\ Len(cq) >= 1
           /\ DOMAIN cq = 1..Len(cq) /\ DOMAIN cq' = 1..(Len(cq) - 1)
           /\ \A i \in 1..(Len(cq) - 1) : cq'[i] = cq[i + 1] /\ i + 1 \in DOMAIN cq
           /\ Head(cq) = cq[1] /\ Head(cq) \in Cqes
           /\ Filled' = {i \in 1..(Len(cq) - 1) : i + 1 \in Filled}
           /\ RecvEnds' = {i \in 1..(Len(cq) - 1) : i + 1 \in RecvEnds}
           /\ WriteDones' = {i \in 1..(Len(cq) - 1) : i + 1 \in WriteDones}
           /\ 1 \in Filled <=> Brings(Head(cq))
           /\ 1 \in RecvEnds <=> EndsRecv(Head(cq))
           /\ 1 \in WriteDones <=> Head(cq).type = "WRITE"
<1>1. /\ Len(cq) \in Nat /\ Len(cq) >= 1
      /\ DOMAIN cq = 1..Len(cq) /\ DOMAIN cq' = 1..(Len(cq) - 1)
      /\ \A i \in 1..(Len(cq) - 1) : cq'[i] = cq[i + 1] /\ i + 1 \in DOMAIN cq
      /\ Head(cq) = cq[1] /\ Head(cq) \in Cqes
  BY TailFacts DEF Types
<1>2. Filled' = {i \in 1..(Len(cq) - 1) : i + 1 \in Filled}
  BY <1>1 DEF Filled
<1>3. RecvEnds' = {i \in 1..(Len(cq) - 1) : i + 1 \in RecvEnds}
  BY <1>1 DEF RecvEnds
<1>4. WriteDones' = {i \in 1..(Len(cq) - 1) : i + 1 \in WriteDones}
  BY <1>1 DEF WriteDones
<1>5. 1 \in DOMAIN cq
  BY <1>1
<1>6. /\ 1 \in Filled <=> Brings(Head(cq))
      /\ 1 \in RecvEnds <=> EndsRecv(Head(cq))
      /\ 1 \in WriteDones <=> Head(cq).type = "WRITE"
  BY <1>1, <1>5 DEF Filled, RecvEnds, WriteDones, Brings, EndsRecv
<1> QED BY <1>1, <1>2, <1>3, <1>4, <1>6

\* A chunk not handled yet lies in its buffer's bytes.
FillsFit == \A i \in Filled : cq[i].result <= Len(mem[cq[i].bid])

\* Every step keeps the buffers within their size.
LEMMA NextFillsFit == ShapeInv /\ [Next]_vars /\ Running' => FillsFit'
<1> SUFFICES ASSUME ShapeInv, [Next]_vars, Running', NEW i \in Filled'
             PROVE  cq'[i].result <= Len(mem'[cq'[i].bid])
  BY DEF FillsFit
<1>0. /\ mem \in [Bids -> Seq(Bytes)] /\ mem' \in [Bids -> Seq(Bytes)]
      /\ \A bid \in Bids : Len(mem'[bid]) >= Len(mem[bid])
  BY BuffersGrow
<1>1. Types /\ cq \in Seq(Cqes)
  BY DEF ShapeInv, Types
<1>2. ASSUME Running, NEW k \in Filled
      PROVE  cq[k].result <= Len(mem'[cq[k].bid])
  <2>1. cq[k].result <= Len(mem[cq[k].bid])
    BY <1>2 DEF ShapeInv, Shape, Fitting
  <2>2. cq[k] \in Cqes /\ cq[k].type = "RECV" /\ cq[k].bid # NoBid
    BY <1>1, <1>2 DEF Filled
  <2>3. cq[k] \in RecvCqes
    BY <2>2, CqeFacts
  <2>4. cq[k].bid \in Bids /\ cq[k].result \in Int
    BY <2>3, ReceiverAssumption DEF RecvCqes
  <2>5. Len(mem[cq[k].bid]) \in Int /\ Len(mem'[cq[k].bid]) \in Int
        /\ Len(mem'[cq[k].bid]) >= Len(mem[cq[k].bid])
    BY <1>0, <2>4
  <2> QED BY <2>1, <2>4, <2>5
<1>3. ASSUME NEW type, Handles(type)
      PROVE  cq'[i].result <= Len(mem'[cq'[i].bid])
  <2>1. Running /\ cq # <<>> /\ cq' = Tail(cq)
    BY <1>1, <1>3, HandlesFacts
  <2>2. i + 1 \in Filled /\ cq'[i] = cq[i + 1]
    BY <1>1, <2>1, TakenFacts
  <2> QED BY <1>2, <2>1, <2>2
<1>4. CASE UNCHANGED cq /\ Running
  BY <1>2, <1>4 DEF Filled
<1>5. CASE RecvNoBuffers \/ RecvChunk \/ WriteCompleted
  BY <1>3, <1>5 DEF RecvNoBuffers, RecvChunk, WriteCompleted
<1>6. CASE ParseHeader \/ ParsePayload \/ RecvDone \/ ReleaseBuffer \/ WriteDone
  BY <1>4, <1>6 DEF ParseHeader, ParsePayload, Parses, RecvDone, Parsed, ReleaseBuffer,
     WriteDone, Released, Releases, Running
<1>7. CASE \E n \in 1..buffer_size, more \in BOOLEAN : KernelRecv(n, more)
  <2>1. PICK n \in 1..buffer_size, more \in BOOLEAN : KernelRecv(n, more)
    BY <1>7
  <2> DEFINE cqe == Cqe("RECV", n, Head(br_), more)
  <2>2. cqe \in RecvCqes /\ cq' = Append(cq, cqe) /\ n <= Len(mem'[Head(br_)]) /\ Running
    BY <1>1, <2>1, KernelRecvFacts
  <2>3. cqe.result = n /\ cqe.bid = Head(br_) /\ cqe \in Cqes
    BY <2>2 DEF Cqe, Cqes
  <2> HIDE DEF cqe
  <2>4. CASE i = Len(cq) + 1
    <3>1. cq'[i] = cqe
      BY <1>1, <2>2, <2>3, <2>4, PostedFacts
    <3> QED BY <2>2, <2>3, <3>1
  <2>5. CASE i # Len(cq) + 1
    <3>1. i \in Filled
      BY <1>1, <2>2, <2>3, <2>5, PostedFacts
    <3>2. cq'[i] = cq[i]
      BY <1>1, <2>2, <2>3, <3>1, PostedFacts DEF Filled
    <3> QED BY <1>2, <2>2, <3>1, <3>2
  <2> QED BY <2>4, <2>5
<1>8. ASSUME NEW cqe \in Cqes, cq' = Append(cq, cqe), ~Brings(cqe), Running
      PROVE  cq'[i].result <= Len(mem'[cq'[i].bid])
  <2>1. i \in Filled
    BY <1>1, <1>8, PostedFacts
  <2>2. cq'[i] = cq[i]
    BY <1>1, <1>8, <2>1, PostedFacts DEF Filled
  <2> QED BY <1>2, <1>8, <2>1, <2>2
<1>9. CASE KernelRecvNoBuffers \/ KernelRecvError \/ KernelPeerClosed
  <2>1. PICK result \in {-ENOBUFS, -EIO, 0} : EndRecv(result)
    BY <1>9 DEF KernelRecvNoBuffers, KernelRecvError, KernelPeerClosed
  <2> DEFINE cqe == Cqe("RECV", result, NoBid, FALSE)
  <2>2. cqe \in RecvEndCqes /\ cq' = Append(cq, cqe) /\ Running
    BY <1>1, <2>1, EndRecvFacts
  <2>3. cqe \in Cqes /\ ~Brings(cqe)
    BY <2>2 DEF Cqes, Brings, RecvEndCqes
  <2> HIDE DEF cqe
  <2> QED BY <1>8, <2>2, <2>3
<1>10. CASE KernelWrite \/ KernelWriteError
  <2>1. PICK result \in Int : cq' = Append(cq, Cqe("WRITE", result, NoBid, FALSE))
    BY <1>10, KernelWriteFacts
  <2> DEFINE cqe == Cqe("WRITE", result, NoBid, FALSE)
  <2>2. cqe \in Cqes /\ ~Brings(cqe) /\ cq' = Append(cq, cqe) /\ Running
    BY <1>10, <2>1, KernelWriteFacts DEF Cqe, Cqes, WriteCqes, Brings
  <2> HIDE DEF cqe
  <2> QED BY <1>8, <2>2
<1>11. CASE UNCHANGED vars
  BY <1>4, <1>11 DEF vars, kernel_vars, Running
<1> QED
  BY <1>5, <1>6, <1>7, <1>9, <1>10, <1>11, ParseResults DEF Next, Handle, Kernel

\* The chunk that is parsed lies in its buffer's bytes, and has some left.
ChunksFit ==
    \A i \in DOMAIN input_buffer_queue_ :
        LET input == input_buffer_queue_[i]
        IN  input.offset < input.size /\ input.size <= Len(mem[input.bid])

\* Every step keeps the chunks within the bytes of their buffers.
LEMMA NextChunksFit == ShapeInv /\ [Next]_vars /\ Running' => ChunksFit'
<1> SUFFICES ASSUME ShapeInv, [Next]_vars, Running' PROVE ChunksFit'
  OBVIOUS
<1>0. /\ mem \in [Bids -> Seq(Bytes)] /\ mem' \in [Bids -> Seq(Bytes)]
      /\ \A bid \in Bids : Len(mem'[bid]) >= Len(mem[bid])
  BY BuffersGrow
<1>1. Types
  BY DEF ShapeInv
<1>2. ASSUME NEW chunk \in Chunks, input_buffer_queue_' = <<chunk>>,
             chunk.offset < chunk.size, chunk.size <= Len(mem'[chunk.bid])
      PROVE  ChunksFit'
  <2>1. \A i \in DOMAIN <<chunk>> : <<chunk>>[i] = chunk
    OBVIOUS
  <2> QED BY <1>2, <2>1 DEF ChunksFit
<1>3. ASSUME input_buffer_queue_' = <<>> PROVE ChunksFit'
  BY <1>3 DEF ChunksFit
<1>4. CASE input_buffer_queue_ = <<>> /\ UNCHANGED input_buffer_queue_
  BY <1>3, <1>4
<1>5. CASE ParseHeader \/ ParsePayload
  <2>1. /\ Running /\ input_buffer_queue_ # <<>> /\ UNCHANGED mem
    BY <1>5, HeaderStep, PayloadStep
  <2>2. /\ Input \in Chunks /\ Input.offset < Input.size /\ Input.size <= Len(mem[Input.bid])
        /\ Input.offset \in Nat /\ Input.size \in Nat
        /\ input_buffer_queue_ \in Seq(Chunks)
    BY <2>1, InputFacts
  <2>6. Len(input_buffer_queue_) <= 1
    BY <2>1 DEF ShapeInv, Shape, Handling
  <2>3. PICK take \in Nat :
          /\ Input.offset + take <= Input.size
          /\ Input.offset + take = Input.size => input_buffer_queue_' = <<>>
          /\ Input.offset + take # Input.size => input_buffer_queue_' = <<Advanced(Input, take)>>
    <3>1. buffer_refcounts_ \in [Bids -> Int] /\ br_ \in Seq(Bids) /\ used_buffers_ \in Int
      BY <1>1 DEF Types
    <3>2. CASE ParseHeader
      <4>1. HeaderTake \in Nat /\ Input.offset + HeaderTake <= Input.size /\ HeaderResult = "None"
            /\ Consume(HeaderTake, buffer_refcounts_, HeaderResult)
        BY <3>2, HeaderStep, ParseResults
      <4>2. /\ Finishes(Input, HeaderTake, HeaderResult) => input_buffer_queue_' = <<>>
            /\ ~Finishes(Input, HeaderTake, HeaderResult) =>
                  input_buffer_queue_' = <<Advanced(Input, HeaderTake)>>
        BY <2>1, <2>2, <2>6, <3>1, <4>1, ConsumeFacts DEF Input
      <4> QED BY <4>1, <4>2 DEF Finishes
    <3>3. CASE ParsePayload
      <4>1. PayloadTake \in Nat /\ Input.offset + PayloadTake <= Input.size /\ PayloadResult = "None"
            /\ Consume(PayloadTake, Referenced(Input.bid), PayloadResult)
            /\ Referenced(Input.bid) \in [Bids -> Int]
        BY <3>3, PayloadStep, ParseResults
      <4>2. /\ Finishes(Input, PayloadTake, PayloadResult) => input_buffer_queue_' = <<>>
            /\ ~Finishes(Input, PayloadTake, PayloadResult) =>
                  input_buffer_queue_' = <<Advanced(Input, PayloadTake)>>
        BY <2>1, <2>2, <2>6, <3>1, <4>1, ConsumeFacts DEF Input
      <4> QED BY <4>1, <4>2 DEF Finishes
    <3> QED BY <1>5, <3>2, <3>3
  <2>4. CASE Input.offset + take = Input.size
    BY <1>3, <2>3, <2>4
  <2>5. CASE Input.offset + take # Input.size
    <3> DEFINE chunk == Advanced(Input, take)
    <3>1. /\ chunk.offset = Input.offset + take /\ chunk.size = Input.size
          /\ chunk.bid = Input.bid
      BY DEF Advanced
    <3>2. chunk \in Chunks
      <4>1. Input.size \in 1..buffer_size /\ Input.bid \in Bids
        BY <2>2 DEF Chunks
      <4> QED BY <2>2, <2>3, <4>1, ReceiverAssumption DEF Advanced, Chunks
    <3> HIDE DEF chunk
    <3>3. chunk.offset < chunk.size /\ chunk.size <= Len(mem'[chunk.bid])
      BY <2>1, <2>2, <2>3, <2>5, <3>1
    <3> QED BY <1>2, <2>3, <2>5, <3>2, <3>3 DEF chunk
  <2> QED BY <2>4, <2>5
<1>6. CASE RecvChunk
  <2> DEFINE chunk == [bid |-> Head(cq).bid, size |-> Head(cq).result, offset |-> 0]
  <2>1. /\ Handles("RECV") /\ Head(cq).result # 0 /\ ok(Head(cq)) /\ Head(cq).bid # NoBid
        /\ input_buffer_queue_' = Append(input_buffer_queue_, chunk)
    BY <1>6 DEF RecvChunk
  <2>2. /\ Running /\ cqe_ = idle /\ Head(cq) \in Cqes /\ Head(cq).type = "RECV"
        /\ cq # <<>> /\ cq' = Tail(cq)
    BY <1>1, <2>1, HandlesFacts
  <2>3. Head(cq) \in RecvCqes
    BY <2>1, <2>2, CqeFacts
  <2>4. 1 \in Filled /\ Head(cq) = cq[1]
    BY <1>1, <2>1, <2>2, TakenFacts DEF Brings
  <2>5. Head(cq).result <= Len(mem[Head(cq).bid])
    BY <2>2, <2>4 DEF ShapeInv, Shape, Fitting
  <2>6. /\ Head(cq).result \in Int /\ Head(cq).result > 0 /\ Head(cq).bid \in Bids
    BY <2>3, ReceiverAssumption DEF RecvCqes
  <2>7. Head(cq).result <= Len(mem'[Head(cq).bid])
    <3>1. /\ Len(mem[Head(cq).bid]) \in Int /\ Len(mem'[Head(cq).bid]) \in Int
          /\ Len(mem'[Head(cq).bid]) >= Len(mem[Head(cq).bid])
      BY <1>0, <2>6
    <3> QED BY <2>5, <2>6, <3>1
  <2>8. chunk \in Chunks
    BY <2>3, ReceiverAssumption DEF RecvCqes, Chunks
  <2>9. chunk.offset = 0 /\ chunk.size = Head(cq).result /\ chunk.bid = Head(cq).bid
    OBVIOUS
  <2>10. input_buffer_queue_ = <<>>
    BY <2>2 DEF ShapeInv, Shape, Handling, idle, Cqe
  <2> HIDE DEF chunk
  <2>11. input_buffer_queue_' = <<chunk>>
    BY <2>1, <2>10
  <2> QED BY <1>2, <2>6, <2>7, <2>8, <2>9, <2>11
<1>7. CASE RecvNoBuffers \/ WriteCompleted
  <2>1. \E type : Handles(type)
    BY <1>7 DEF RecvNoBuffers, WriteCompleted
  <2>2. Running /\ cqe_ = idle
    BY <1>1, <2>1, HandlesFacts
  <2>3. input_buffer_queue_ = <<>>
    BY <2>2 DEF ShapeInv, Shape, Handling, idle, Cqe
  <2> QED BY <1>4, <1>7, <2>3 DEF RecvNoBuffers, WriteCompleted
<1>8. CASE RecvDone
  BY <1>4, <1>8 DEF RecvDone, Parsed
<1>9. CASE ReleaseBuffer \/ WriteDone
  <2>1. Running /\ cqe_.type = "WRITE" /\ UNCHANGED input_buffer_queue_
    BY <1>9 DEF ReleaseBuffer, WriteDone, Released, Releases, Running
  <2> QED BY <1>4, <2>1 DEF ShapeInv, Shape, Handling
<1>10. CASE UNCHANGED input_buffer_queue_ /\ Running
  <2>1. CASE input_buffer_queue_ = <<>>
    BY <1>4, <1>10, <2>1
  <2>2. CASE input_buffer_queue_ # <<>>
    <3>1. /\ DOMAIN input_buffer_queue_ = {1} /\ Input = input_buffer_queue_[1]
          /\ Input \in Chunks /\ Input.bid \in Bids /\ Input.offset < Input.size
          /\ Input.size <= Len(mem[Input.bid]) /\ Input.size \in Nat
      BY <1>10, <2>2, InputFacts
    <3>2. Input.size <= Len(mem'[Input.bid])
      <4>1. /\ Len(mem[Input.bid]) \in Int /\ Len(mem'[Input.bid]) \in Int
            /\ Len(mem'[Input.bid]) >= Len(mem[Input.bid])
        BY <1>0, <3>1
      <4> QED BY <3>1, <4>1
    <3> QED BY <1>10, <3>1, <3>2 DEF ChunksFit
  <2> QED BY <2>1, <2>2
<1>11. CASE Kernel
  BY <1>10, <1>11 DEF Kernel, KernelRecv, KernelRecvNoBuffers, KernelRecvError, KernelPeerClosed,
     EndRecv, KernelWrite, KernelWriteError, KernelStep, own_vars, Running
<1>12. CASE UNCHANGED vars
  BY <1>10, <1>12 DEF vars, own_vars, Running
<1> QED
  BY <1>5, <1>6, <1>7, <1>8, <1>9, <1>11, <1>12, ParseResults DEF Next, Handle

\* Every step keeps what is known of the write that is under way.
LEMMA NextWriting == ShapeInv /\ [Next]_vars /\ Running' => Writing'
<1> SUFFICES ASSUME ShapeInv, [Next]_vars, Running' PROVE Writing'
  OBVIOUS
<1>0. Types
  BY DEF ShapeInv
<1>i. idle.type = "NONE"
  BY DEF idle, Cqe
<1>1. ASSUME Running
      PROVE  /\ write_in_progress_ = (writing \/ WriteDones # {})
             /\ ~(writing /\ WriteDones # {})
             /\ \A i, j \in WriteDones : i = j
             /\ write_in_progress_ => output_frame_queue_ # <<>>
             /\ cqe_ = idle /\ output_frame_queue_ # <<>> => write_in_progress_
             /\ cqe_.type = "WRITE" => output_frame_queue_ # <<>> /\ ~write_in_progress_
  BY <1>1 DEF ShapeInv, Shape, Writing
\* kick_write_ leaves a WRITE under way if there is a frame to write.
<1>k. ASSUME NEW queue, NEW in_progress \in BOOLEAN, kick_write_(queue, in_progress)
      PROVE  /\ cqe_' = idle
             /\ in_progress \/ queue = <<>> =>
                    write_in_progress_' = in_progress /\ writing' = writing
             /\ ~(in_progress \/ queue = <<>>) => write_in_progress_' = TRUE /\ writing' = TRUE
  <2>1. cqe_' = idle
    BY <1>k DEF kick_write_
  <2>2. CASE in_progress \/ queue = <<>>
    BY <1>k, <2>1, <2>2 DEF kick_write_
  <2>3. CASE ~(in_progress \/ queue = <<>>)
    <3>1. PICK result \in SubmitResults(IoErrors) :
            /\ write_in_progress_' = (result = "None")
            /\ writing' = (result = "None")
            /\ run_result' = result
      BY <1>k, <2>3, Zenon DEF kick_write_
    <3>2. result = "None"
      BY <3>1 DEF Running
    <3> QED BY <2>1, <2>3, <3>1, <3>2
  <2> QED BY <2>2, <2>3
\* A RECV completion leaves the WRITE completions alone.
<1>h. ASSUME Handles("RECV")
      PROVE  /\ Running /\ cqe_ = idle
             /\ WriteDones' # {} <=> WriteDones # {}
             /\ \A i, j \in WriteDones' : i = j
  <2>1. /\ Running /\ cqe_ = idle /\ cq # <<>> /\ cq' = Tail(cq) /\ Head(cq).type = "RECV"
    BY <1>0, <1>h, HandlesFacts
  <2>2. /\ Len(cq) \in Nat /\ DOMAIN cq = 1..Len(cq)
        /\ WriteDones' = {i \in 1..(Len(cq) - 1) : i + 1 \in WriteDones}
        /\ 1 \notin WriteDones
    BY <1>0, <2>1, TakenFacts
  <2>3. WriteDones \subseteq 1..Len(cq)
    BY <2>2 DEF WriteDones
  <2>4. \A i, j \in WriteDones' : i = j
    <3> TAKE i, j \in WriteDones'
    <3>1. i \in Nat /\ j \in Nat /\ i + 1 \in WriteDones /\ j + 1 \in WriteDones
      BY <2>2
    <3>2. i + 1 = j + 1
      BY <1>1, <2>1, <3>1
    <3> QED BY <3>1, <3>2
  <2>5. WriteDones' # {} => WriteDones # {}
    BY <2>2
  <2>6. WriteDones # {} => WriteDones' # {}
    <3> SUFFICES ASSUME NEW i \in WriteDones PROVE WriteDones' # {}
      OBVIOUS
    <3>1. i \in 1..Len(cq) /\ i # 1
      BY <2>2, <2>3
    <3>2. i - 1 \in 1..(Len(cq) - 1) /\ (i - 1) + 1 = i
      BY <2>2, <3>1
    <3> QED BY <2>2, <3>2
  <2> QED BY <2>1, <2>4, <2>5, <2>6
<1>2. CASE RecvNoBuffers
  <2>1. /\ Running /\ cqe_ = idle /\ cqe_' = idle
        /\ UNCHANGED output_frame_queue_
        /\ write_in_progress_ \in BOOLEAN
        /\ kick_write_(output_frame_queue_, write_in_progress_)
    BY <1>0, <1>2, <1>h DEF RecvNoBuffers, Types, kick_write_
  <2>2. write_in_progress_' = write_in_progress_ /\ writing' = writing
    <3>1. write_in_progress_ \/ output_frame_queue_ = <<>>
      BY <1>1, <2>1
    <3> QED BY <1>k, <2>1, <3>1
  <2>3. /\ WriteDones' # {} <=> WriteDones # {}
        /\ \A i, j \in WriteDones' : i = j
    BY <1>2, <1>h DEF RecvNoBuffers
  <2> QED BY <1>1, <1>i, <2>1, <2>2, <2>3 DEF Writing
<1>3. CASE RecvChunk
  <2>1. /\ Running /\ cqe_ = idle /\ cqe_'.type = "RECV" /\ cqe_' # idle
        /\ UNCHANGED <<output_frame_queue_, write_in_progress_, writing>>
    BY <1>0, <1>3, <1>h, <1>i DEF RecvChunk, Handles
  <2>2. /\ WriteDones' # {} <=> WriteDones # {}
        /\ \A i, j \in WriteDones' : i = j
    BY <1>3, <1>h DEF RecvChunk
  <2> QED BY <1>1, <2>1, <2>2 DEF Writing
<1>4. CASE ParseHeader \/ ParsePayload
  <2>1. /\ Running /\ cqe_.type = "RECV"
        /\ UNCHANGED <<cqe_, write_in_progress_, writing, cq>>
    BY <1>4, HeaderStep, PayloadStep, InputFacts DEF handler_vars
  <2>2. output_frame_queue_ # <<>> => output_frame_queue_' # <<>>
    <3>1. CASE ParseHeader
      BY <3>1, HeaderStep
    <3>2. CASE ParsePayload
      <4>1. output_frame_queue_ \in Seq(FrameType) /\ PayloadFrame \in FrameType
        BY <1>0, <3>2, PayloadFrameFacts DEF Types
      <4>2. Append(output_frame_queue_, PayloadFrame) # <<>>
        BY <4>1, AppendFacts
      <4> QED BY <3>2, <4>2, PayloadStep
    <3> QED BY <1>4, <3>1, <3>2
  <2>3. WriteDones' = WriteDones /\ cqe_ # idle
    BY <1>i, <2>1 DEF WriteDones
  <2> QED BY <1>1, <2>1, <2>2, <2>3 DEF Writing
<1>5. CASE RecvDone
  <2>1. /\ Running /\ cqe_.type = "RECV"
        /\ UNCHANGED <<output_frame_queue_, cq>>
        /\ write_in_progress_ \in BOOLEAN
        /\ kick_write_(output_frame_queue_, write_in_progress_)
    BY <1>0, <1>5 DEF RecvDone, Parsed, Types, Running
  <2>2. WriteDones' = WriteDones
    BY <2>1 DEF WriteDones
  <2>3. CASE write_in_progress_ \/ output_frame_queue_ = <<>>
    <3>1. cqe_' = idle /\ write_in_progress_' = write_in_progress_ /\ writing' = writing
      BY <1>k, <2>1, <2>3
    <3> QED BY <1>1, <1>i, <2>1, <2>2, <2>3, <3>1 DEF Writing
  <2>4. CASE ~(write_in_progress_ \/ output_frame_queue_ = <<>>)
    <3>1. cqe_' = idle /\ write_in_progress_' = TRUE /\ writing' = TRUE
      BY <1>k, <2>1, <2>4
    <3> QED BY <1>1, <1>i, <2>1, <2>2, <2>4, <3>1 DEF Writing
  <2> QED BY <2>3, <2>4
<1>6. CASE WriteCompleted
  <2>1. /\ Running /\ cqe_ = idle /\ cq # <<>> /\ cq' = Tail(cq) /\ Head(cq).type = "WRITE"
        /\ Head(cq) \in Cqes
    BY <1>0, <1>6, HandlesFacts DEF WriteCompleted
  <2>2. /\ write_in_progress_' = FALSE /\ UNCHANGED <<output_frame_queue_, writing>>
        /\ WriteFailure(Head(cq)) = "None" /\ cqe_' = Head(cq)
    BY <1>6 DEF WriteCompleted, Running
  <2>3. output_frame_queue_ # <<>>
    BY <2>2 DEF WriteFailure
  <2>4. /\ WriteDones' = {i \in 1..(Len(cq) - 1) : i + 1 \in WriteDones}
        /\ 1 \in WriteDones /\ Len(cq) \in Nat
    BY <1>0, <2>1, TakenFacts
  <2>5. WriteDones' = {}
    <3> SUFFICES ASSUME NEW i \in WriteDones' PROVE FALSE
      OBVIOUS
    <3>1. i \in Nat /\ i >= 1 /\ i + 1 \in WriteDones
      BY <2>4
    <3>2. i + 1 = 1
      BY <1>1, <2>1, <2>4, <3>1
    <3> QED BY <3>1, <3>2
  <2>6. writing = FALSE
    BY <1>0, <1>1, <2>1, <2>4 DEF Types
  <2>7. cqe_' # idle /\ cqe_'.type = "WRITE"
    BY <1>i, <2>1, <2>2
  <2> QED BY <2>2, <2>3, <2>5, <2>6, <2>7 DEF Writing
<1>7. CASE ReleaseBuffer
  <2>1. UNCHANGED <<output_frame_queue_, write_in_progress_, writing, cq, cqe_>> /\ Running
    BY <1>7 DEF ReleaseBuffer, Releases, Running
  <2>2. WriteDones' = WriteDones
    BY <2>1 DEF WriteDones
  <2> QED BY <1>1, <2>1, <2>2 DEF Writing
<1>8. CASE WriteDone
  <2>1. /\ Running /\ cqe_.type = "WRITE" /\ cq' = cq
        /\ output_frame_queue_' = Tail(output_frame_queue_)
        /\ kick_write_(Tail(output_frame_queue_), FALSE)
    BY <1>8 DEF WriteDone, Released, Releases, Running
  <2>2. WriteDones' = WriteDones
    BY <2>1 DEF WriteDones
  <2>3. ~write_in_progress_ /\ writing = FALSE /\ WriteDones = {}
    BY <1>0, <1>1, <2>1 DEF Types
  <2>4. CASE Tail(output_frame_queue_) = <<>>
    <3>1. cqe_' = idle /\ write_in_progress_' = FALSE /\ writing' = writing
      BY <1>k, <2>1, <2>4
    <3> QED BY <1>i, <2>1, <2>2, <2>3, <2>4, <3>1 DEF Writing
  <2>5. CASE Tail(output_frame_queue_) # <<>>
    <3>1. cqe_' = idle /\ write_in_progress_' = TRUE /\ writing' = TRUE
      BY <1>k, <2>1, <2>5
    <3> QED BY <1>i, <2>1, <2>2, <2>3, <2>5, <3>1 DEF Writing
  <2> QED BY <2>4, <2>5
<1>9. ASSUME NEW cqe \in Cqes, cq' = Append(cq, cqe), cqe.type # "WRITE", Running,
             UNCHANGED <<own_vars, handler_vars, writing>>
      PROVE  Writing'
  <2>1. WriteDones' = WriteDones
    BY <1>0, <1>9, PostedFacts
  <2>2. UNCHANGED <<output_frame_queue_, write_in_progress_, writing, cqe_>>
    BY <1>9 DEF own_vars, handler_vars
  <2> QED BY <1>1, <1>9, <2>1, <2>2 DEF Writing
<1>10. CASE \E n \in 1..buffer_size, more \in BOOLEAN : KernelRecv(n, more)
  <2>1. PICK n \in 1..buffer_size, more \in BOOLEAN : KernelRecv(n, more)
    BY <1>10
  <2> DEFINE cqe == Cqe("RECV", n, Head(br_), more)
  <2>2. /\ cqe \in RecvCqes /\ cq' = Append(cq, cqe) /\ Running
        /\ UNCHANGED <<own_vars, handler_vars, writing>>
    BY <1>0, <2>1, KernelRecvFacts
  <2>3. cqe \in Cqes /\ cqe.type # "WRITE"
    BY <2>2 DEF Cqes, RecvCqes
  <2> HIDE DEF cqe
  <2> QED BY <1>9, <2>2, <2>3
<1>11. CASE KernelRecvNoBuffers \/ KernelRecvError \/ KernelPeerClosed
  <2>1. PICK result \in {-ENOBUFS, -EIO, 0} : EndRecv(result)
    BY <1>11 DEF KernelRecvNoBuffers, KernelRecvError, KernelPeerClosed
  <2> DEFINE cqe == Cqe("RECV", result, NoBid, FALSE)
  <2>2. /\ cqe \in RecvEndCqes /\ cq' = Append(cq, cqe) /\ Running
        /\ UNCHANGED <<own_vars, handler_vars, writing>>
    BY <1>0, <2>1, EndRecvFacts
  <2>3. cqe \in Cqes /\ cqe.type # "WRITE"
    BY <2>2 DEF Cqes, RecvEndCqes
  <2> HIDE DEF cqe
  <2> QED BY <1>9, <2>2, <2>3
<1>12. CASE KernelWrite \/ KernelWriteError
  <2>1. PICK result \in Int : cq' = Append(cq, Cqe("WRITE", result, NoBid, FALSE))
    BY <1>12, KernelWriteFacts
  <2> DEFINE cqe == Cqe("WRITE", result, NoBid, FALSE)
  <2>2. cqe \in Cqes /\ cqe.type = "WRITE" /\ cq' = Append(cq, cqe)
    BY <2>1 DEF Cqe, Cqes, WriteCqes
  <2> HIDE DEF cqe
  <2>3. /\ Running /\ writing /\ writing' = FALSE /\ output_frame_queue_ # <<>>
        /\ UNCHANGED <<output_frame_queue_, write_in_progress_, cqe_>>
    BY <1>12, KernelWriteFacts DEF own_vars, handler_vars
  <2>4. WriteDones' = WriteDones \cup {Len(cq) + 1} /\ WriteDones = {}
    BY <1>0, <1>1, <2>2, <2>3, PostedFacts
  <2>5. write_in_progress_ = TRUE
    BY <1>0, <1>1, <2>3 DEF Types
  <2> QED BY <1>1, <2>3, <2>4, <2>5 DEF Writing
<1>13. CASE UNCHANGED vars
  <2>1. UNCHANGED <<output_frame_queue_, write_in_progress_, writing, cq, cqe_>> /\ Running
    BY <1>13 DEF vars, own_vars, handler_vars, kernel_vars, Running
  <2>2. WriteDones' = WriteDones
    BY <2>1 DEF WriteDones
  <2> QED BY <1>1, <2>1, <2>2 DEF Writing
<1> QED
  BY <1>2, <1>3, <1>4, <1>5, <1>6, <1>7, <1>8, <1>10, <1>11, <1>12, <1>13,
     ParseResults DEF Next, Handle, Kernel

\* The shape of the state holds at the start.
LEMMA InitShapeInv == Init => ShapeInv
<1> SUFFICES ASSUME Init PROVE ShapeInv
  OBVIOUS
<1>1. Types
  BY InitTypes
<1>2. Parser
  BY DEF Init, Created, Parser
<1>3. Handling
  BY DEF Init, Created, Handling, idle, Cqe
<1>4. Fitting
  BY DEF Init, Created, Fitting, Filled, Fits, FitsIn, EmptyFrame
<1>5. Writing
  <2>1. WriteDones = {}
    BY DEF Init, Created, WriteDones
  <2> QED BY <2>1 DEF Init, Created, Writing, idle, Cqe
<1> QED BY <1>1, <1>2, <1>3, <1>4, <1>5 DEF ShapeInv, Shape

\* Every step keeps the shape of the state.
LEMMA NextShapeInv == ShapeInv /\ [Next]_vars => ShapeInv'
<1> SUFFICES ASSUME ShapeInv, [Next]_vars PROVE ShapeInv'
  OBVIOUS
<1>1. Types'
  BY NextTypes
<1>2. ASSUME Running' PROVE Shape'
  <2>1. Parser' /\ Handling' /\ Writing'
    BY <1>2, NextParser, NextHandling, NextWriting
  <2>2. FramesFit' /\ ChunksFit' /\ FillsFit'
    BY <1>2, NextFramesFit, NextChunksFit, NextFillsFit
  <2>3. Fitting'
    BY <2>2 DEF Fitting, FramesFit, ChunksFit, FillsFit
  <2> QED BY <2>1, <2>3 DEF Shape
<1> QED BY <1>1, <1>2 DEF ShapeInv

\* The shape of the state holds in every behaviour.
LEMMA AlwaysShapeInv == Spec => []ShapeInv
  BY InitShapeInv, NextShapeInv, PTL DEF Spec

\* How the parts fit together says so of the WRITE.
LEMMA ShapeSerializes == ShapeInv => WriteSerialized
<1> SUFFICES ASSUME Running, Writing PROVE WriteSerialized
  BY DEF ShapeInv, Shape, WriteSerialized
<1>1. (\E i \in DOMAIN cq : cq[i].type = "WRITE") <=> WriteDones # {}
  BY DEF WriteDones
<1>2. writing => \A i \in DOMAIN cq : cq[i].type # "WRITE"
  BY <1>1 DEF Writing
<1>3. write_in_progress_ = (writing \/ \E i \in DOMAIN cq : cq[i].type = "WRITE")
  BY <1>1, Zenon DEF Writing
<1>4. (cqe_ = idle /\ output_frame_queue_ # <<>>) => write_in_progress_
  BY DEF Writing
<1> QED BY <1>2, <1>3, <1>4 DEF WriteSerialized

\* write_in_progress_ (kick_write_ and handle_write_cqe_) says exactly whether a
\* WRITE is with the kernel or its completion is not handled yet, the WRITE is
\* never doubled, and no frame is left waiting without one.
THEOREM WritesSerialized == Spec => []WriteSerialized
  BY ShapeSerializes, AlwaysShapeInv, PTL

-----------------------------------------------------------------------------
(* The RECV request *)

\* The completion being handled ended the RECV request.
RecvEnded == cqe_.type = "RECV" /\ ~cqe_.more

\* The RECV request is in exactly one of four places.
Arming ==
    /\ \A i, j \in RecvEnds : i = j
    /\ recving \/ RecvEnds # {} \/ RecvEnded \/ cooling_down_
    /\ recving => RecvEnds = {} /\ ~RecvEnded /\ ~cooling_down_
    /\ RecvEnds # {} => ~RecvEnded /\ ~cooling_down_
    /\ RecvEnded => ~cooling_down_

ArmingInv == ShapeInv /\ (Running => Arming)

\* Every step keeps the account of the armed recv: it is armed, or about to be, once.
LEMMA NextArming == ArmingInv /\ [Next]_vars /\ Running' => Arming'
<1> SUFFICES ASSUME ArmingInv, [Next]_vars, Running' PROVE Arming'
  OBVIOUS
<1>0. Types /\ ShapeInv /\ (Running => Arming)
  BY DEF ArmingInv, ShapeInv
<1>i. idle.type = "NONE"
  BY DEF idle, Cqe
\* The oldest completion is taken: what is left of the ends.
<1>h. ASSUME NEW type, Handles(type), Arming
      PROVE  /\ Running /\ cqe_ = idle /\ ~RecvEnded /\ Head(cq).type = type /\ Head(cq) \in Cqes
             /\ \A i, j \in RecvEnds' : i = j
             /\ EndsRecv(Head(cq)) => RecvEnds' = {} /\ RecvEnds # {}
             /\ ~EndsRecv(Head(cq)) => (RecvEnds' # {} <=> RecvEnds # {})
  <2>1. /\ Running /\ cqe_ = idle /\ cq # <<>> /\ cq' = Tail(cq) /\ Head(cq).type = type
        /\ Head(cq) \in Cqes
    BY <1>0, <1>h, HandlesFacts
  <2>2. /\ Len(cq) \in Nat /\ DOMAIN cq = 1..Len(cq)
        /\ RecvEnds' = {i \in 1..(Len(cq) - 1) : i + 1 \in RecvEnds}
        /\ 1 \in RecvEnds <=> EndsRecv(Head(cq))
    BY <1>0, <2>1, TakenFacts
  <2>3. RecvEnds \subseteq 1..Len(cq)
    BY <2>2 DEF RecvEnds
  <2>4. \A i, j \in RecvEnds' : i = j
    <3> TAKE i, j \in RecvEnds'
    <3>1. i \in Nat /\ j \in Nat /\ i + 1 \in RecvEnds /\ j + 1 \in RecvEnds
      BY <2>2
    <3>2. i + 1 = j + 1
      BY <1>h, <3>1 DEF Arming
    <3> QED BY <3>1, <3>2
  <2>5. RecvEnds' # {} => RecvEnds # {}
    BY <2>2
  <2>6. ASSUME ~EndsRecv(Head(cq)), RecvEnds # {} PROVE RecvEnds' # {}
    <3>1. PICK i \in RecvEnds : TRUE
      BY <2>6
    <3>2. i \in 1..Len(cq) /\ i # 1
      BY <2>2, <2>3, <2>6, <3>1
    <3>3. i - 1 \in 1..(Len(cq) - 1) /\ (i - 1) + 1 = i
      BY <2>2, <3>2
    <3> QED BY <2>2, <3>1, <3>3
  <2>7. ASSUME EndsRecv(Head(cq)) PROVE RecvEnds' = {} /\ RecvEnds # {}
    <3>1. 1 \in RecvEnds
      BY <2>2, <2>7
    <3>2. ASSUME NEW i \in RecvEnds' PROVE FALSE
      <4>1. i \in Nat /\ i >= 1 /\ i + 1 \in RecvEnds
        BY <2>2
      <4>2. i + 1 = 1
        BY <1>h, <3>1, <4>1 DEF Arming
      <4> QED BY <4>1, <4>2
    <3> QED BY <3>1, <3>2
  <2> QED BY <1>i, <2>1, <2>4, <2>5, <2>6, <2>7 DEF RecvEnded
<1>1. CASE RecvNoBuffers
  <2>1. Handles("RECV") /\ Arming /\ OutOfBuffers(Head(cq)) /\ cooling_down_' = TRUE
        /\ recving' = recving /\ cqe_' = idle
    BY <1>0, <1>1 DEF RecvNoBuffers, Handles, Running, kick_write_
  <2>2. EndsRecv(Head(cq))
    BY <1>h, <2>1 DEF EndsRecv, OutOfBuffers
  <2>3. RecvEnds' = {} /\ RecvEnds # {} /\ ~RecvEnded' /\ ~recving
    BY <1>h, <1>i, <2>1, <2>2 DEF Arming, RecvEnded
  <2> QED BY <2>1, <2>3 DEF Arming
<1>2. CASE RecvChunk
  <2>1. Handles("RECV") /\ Arming /\ cqe_' = Head(cq)
        /\ UNCHANGED <<recving, cooling_down_>>
    BY <1>0, <1>2 DEF RecvChunk, Handles, Running
  <2>2. /\ RecvEnded' <=> EndsRecv(Head(cq))
        /\ \A i, j \in RecvEnds' : i = j
    BY <1>h, <2>1 DEF EndsRecv, RecvEnded
  <2>3. CASE EndsRecv(Head(cq))
    <3>1. RecvEnds' = {} /\ RecvEnds # {} /\ ~recving /\ ~cooling_down_
      BY <1>h, <2>1, <2>3 DEF Arming
    <3> QED BY <2>1, <2>2, <2>3, <3>1 DEF Arming
  <2>4. CASE ~EndsRecv(Head(cq))
    <3>1. (RecvEnds' # {} <=> RecvEnds # {}) /\ ~RecvEnded
      BY <1>h, <2>1, <2>4
    <3> QED BY <2>1, <2>2, <2>4, <3>1 DEF Arming
  <2> QED BY <2>3, <2>4
<1>3. CASE RecvDone
  <2>1. /\ Arming /\ cqe_.type = "RECV" /\ cqe_' = idle /\ cq' = cq
        /\ recving' = (recving \/ MustRearm(cqe_)) /\ cooling_down_' = cooling_down_
    BY <1>0, <1>3 DEF RecvDone, Parsed, kick_write_, Running
  <2>2. RecvEnds' = RecvEnds /\ ~RecvEnded'
    BY <1>i, <2>1 DEF RecvEnds, RecvEnded
  <2>3. CASE RecvEnded
    <3>1. recving' = TRUE /\ RecvEnds = {} /\ ~cooling_down_
      BY <2>1, <2>3 DEF Arming, MustRearm, RecvEnded
    <3> QED BY <2>1, <2>2, <3>1 DEF Arming
  <2>4. CASE ~RecvEnded
    <3>1. recving' = recving
      BY <1>0, <2>1, <2>4 DEF MustRearm, RecvEnded, Types
    <3> QED BY <2>1, <2>2, <2>4, <3>1 DEF Arming
  <2> QED BY <2>3, <2>4
<1>4. CASE WriteCompleted
  <2>1. Handles("WRITE") /\ Arming /\ UNCHANGED <<recving, cooling_down_>>
        /\ (cqe_' = Head(cq) \/ cqe_' = idle)
    BY <1>0, <1>4 DEF WriteCompleted, Handles, Running
  <2>2. /\ \A i, j \in RecvEnds' : i = j
        /\ RecvEnds' # {} <=> RecvEnds # {}
        /\ ~RecvEnded /\ ~RecvEnded'
    BY <1>h, <1>i, <2>1 DEF EndsRecv, RecvEnded
  <2> QED BY <2>1, <2>2 DEF Arming
<1>5. CASE UNCHANGED <<cooling_down_, recving, cq, cqe_>> /\ Running
  <2>1. RecvEnds' = RecvEnds
    BY <1>5 DEF RecvEnds
  <2> QED BY <1>0, <1>5, <2>1 DEF Arming, RecvEnded
<1>6. CASE ParseHeader \/ ParsePayload \/ ReleaseBuffer
  <2>1. UNCHANGED <<cooling_down_, recving, cq, cqe_>> /\ Running
    BY <1>6 DEF ParseHeader, ParsePayload, Parses, ReleaseBuffer, Releases, Running, handler_vars
  <2> QED BY <1>5, <2>1
<1>7. CASE WriteDone
  <2>1. /\ Arming /\ cqe_.type = "WRITE" /\ cqe_' = idle /\ cq' = cq
        /\ recving' = (recving \/ CooledDown)
        /\ cooling_down_' = (cooling_down_ /\ ~CooledDown)
        /\ CooledDown => cooling_down_
    BY <1>0, <1>7 DEF WriteDone, Released, Releases, kick_write_, CooledDown, Running
  <2>2. RecvEnds' = RecvEnds /\ ~RecvEnded /\ ~RecvEnded'
    BY <1>i, <2>1 DEF RecvEnds, RecvEnded
  <2>3. CASE CooledDown
    <3>1. recving' = TRUE /\ cooling_down_' = FALSE /\ RecvEnds = {}
      BY <2>1, <2>3 DEF Arming
    <3> QED BY <2>1, <2>2, <3>1 DEF Arming
  <2>4. CASE ~CooledDown
    <3>1. recving' = recving /\ cooling_down_' = cooling_down_
      BY <1>0, <2>1, <2>4 DEF Types
    <3> QED BY <2>1, <2>2, <3>1 DEF Arming
  <2> QED BY <2>3, <2>4
<1>8. ASSUME NEW cqe \in Cqes, cq' = Append(cq, cqe), cqe.type = "RECV", Running, recving,
             recving' = cqe.more, UNCHANGED <<own_vars, handler_vars>>
      PROVE  Arming'
  <2>1. /\ RecvEnds' = RecvEnds \cup (IF EndsRecv(cqe) THEN {Len(cq) + 1} ELSE {})
        /\ EndsRecv(cqe) <=> ~cqe.more
    BY <1>0, <1>8, PostedFacts DEF EndsRecv
  <2>2. /\ RecvEnds = {} /\ ~RecvEnded /\ ~cooling_down_
        /\ ~RecvEnded' /\ ~cooling_down_'
    BY <1>0, <1>8 DEF Arming, RecvEnded, own_vars, handler_vars
  <2>3. cqe.more \in BOOLEAN
    BY <1>8, CqeFacts
  <2>4. CASE cqe.more
    <3>1. RecvEnds' = {}
      BY <2>1, <2>2, <2>4
    <3> QED BY <1>8, <2>2, <2>4, <3>1 DEF Arming
  <2>5. CASE ~cqe.more
    <3>1. RecvEnds' = {Len(cq) + 1}
      BY <2>1, <2>2, <2>5
    <3>2. ~recving'
      BY <1>8, <2>5
    <3> QED BY <2>2, <3>1, <3>2 DEF Arming
  <2> QED BY <2>4, <2>5
<1>9. CASE \E n \in 1..buffer_size, more \in BOOLEAN : KernelRecv(n, more)
  <2>1. PICK n \in 1..buffer_size, more \in BOOLEAN : KernelRecv(n, more)
    BY <1>9
  <2> DEFINE cqe == Cqe("RECV", n, Head(br_), more)
  <2>2. /\ cqe \in RecvCqes /\ cq' = Append(cq, cqe) /\ Running /\ recving /\ recving' = more
        /\ UNCHANGED <<own_vars, handler_vars>>
    BY <1>0, <2>1, KernelRecvFacts
  <2>3. cqe \in Cqes /\ cqe.type = "RECV" /\ cqe.more = more
    BY <2>2 DEF Cqes, Cqe
  <2> HIDE DEF cqe
  <2> QED BY <1>8, <2>2, <2>3
<1>10. CASE KernelRecvNoBuffers \/ KernelRecvError \/ KernelPeerClosed
  <2>1. PICK result \in {-ENOBUFS, -EIO, 0} : EndRecv(result)
    BY <1>10 DEF KernelRecvNoBuffers, KernelRecvError, KernelPeerClosed
  <2> DEFINE cqe == Cqe("RECV", result, NoBid, FALSE)
  <2>2. /\ cqe \in RecvEndCqes /\ cq' = Append(cq, cqe) /\ Running /\ recving /\ recving' = FALSE
        /\ UNCHANGED <<own_vars, handler_vars>>
    BY <1>0, <2>1, EndRecvFacts
  <2>3. cqe \in Cqes /\ cqe.type = "RECV" /\ cqe.more = FALSE
    BY <2>2 DEF Cqes, Cqe
  <2> HIDE DEF cqe
  <2> QED BY <1>8, <2>2, <2>3
<1>11. CASE KernelWrite \/ KernelWriteError
  <2>1. PICK result \in Int : cq' = Append(cq, Cqe("WRITE", result, NoBid, FALSE))
    BY <1>0, <1>11, KernelWriteFacts
  <2> DEFINE cqe == Cqe("WRITE", result, NoBid, FALSE)
  <2>2. cqe \in Cqes /\ ~EndsRecv(cqe) /\ cq' = Append(cq, cqe)
    BY <2>1 DEF Cqe, Cqes, WriteCqes, EndsRecv
  <2> HIDE DEF cqe
  <2>3. /\ Running /\ UNCHANGED <<cooling_down_, recving, cqe_>>
    BY <1>0, <1>11, KernelWriteFacts DEF own_vars, handler_vars
  <2>4. RecvEnds' = RecvEnds
    BY <1>0, <2>2, PostedFacts
  <2> QED BY <1>0, <2>3, <2>4 DEF Arming, RecvEnded
<1>12. CASE UNCHANGED vars
  <2>1. UNCHANGED <<cooling_down_, recving, cq, cqe_>> /\ Running
    BY <1>12 DEF vars, own_vars, handler_vars, kernel_vars, Running
  <2> QED BY <1>5, <2>1
<1> QED
  BY <1>0, <1>1, <1>2, <1>3, <1>4, <1>6, <1>7, <1>9, <1>10, <1>11, <1>12,
     ParseResults DEF Next, Handle, Kernel

\* run() armed the RECV.
LEMMA InitArmingInv == Init => ArmingInv
<1> SUFFICES ASSUME Init PROVE ArmingInv
  OBVIOUS
<1>1. RecvEnds = {} /\ ~RecvEnded /\ recving /\ ~cooling_down_
  BY DEF Init, Created, RecvEnds, RecvEnded, idle, Cqe
<1> QED BY <1>1, InitShapeInv DEF ArmingInv, Arming

\* The account of the armed recv holds in every behaviour.
LEMMA AlwaysArmingInv == Spec => []ArmingInv
<1>1. Init => ArmingInv
  BY InitArmingInv
<1>2. ArmingInv /\ [Next]_vars => ArmingInv'
  BY NextArming, NextShapeInv DEF ArmingInv
<1> QED BY <1>1, <1>2, PTL DEF Spec

\* How often one of two things is the case.
LEMMA CountFacts ==
    ASSUME NEW name, NEW condition \in BOOLEAN
    PROVE  Cardinality({x \in {name} : condition}) = IF condition THEN 1 ELSE 0
<1>1. CASE condition
  <2>1. {x \in {name} : condition} = {name}
    BY <1>1
  <2> QED BY <1>1, <2>1, FS_Singleton
<1>2. CASE ~condition
  <2>1. {x \in {name} : condition} = {}
    BY <1>2
  <2> QED BY <1>2, <2>1, FS_EmptySet
<1> QED BY <1>1, <1>2

\* The account of the RECV request as a sum.
LEMMA ArmedOnce == ArmingInv => RecvArmedOnce
<1> SUFFICES ASSUME ArmingInv, Running
             PROVE  Cardinality(RecvEnds)
                      + Cardinality({x \in {"recving"} : recving})
                      + Cardinality({x \in {"handling"} : cqe_.type = "RECV" /\ ~cqe_.more})
                      + Cardinality({x \in {"cooling"} : cooling_down_}) = 1
  BY DEF RecvArmedOnce
<1> DEFINE ended == cqe_.type = "RECV" /\ ~cqe_.more
<1>1. Arming /\ recving \in BOOLEAN /\ cooling_down_ \in BOOLEAN /\ ended \in BOOLEAN
  BY DEF ArmingInv, ShapeInv, Types
<1>2. /\ Cardinality({x \in {"recving"} : recving}) = IF recving THEN 1 ELSE 0
      /\ Cardinality({x \in {"handling"} : ended}) = IF ended THEN 1 ELSE 0
      /\ Cardinality({x \in {"cooling"} : cooling_down_}) = IF cooling_down_ THEN 1 ELSE 0
  <2> HIDE DEF ended
  <2> QED BY <1>1, CountFacts
<1>3. Cardinality(RecvEnds) = IF RecvEnds = {} THEN 0 ELSE 1
  <2>1. CASE RecvEnds = {}
    BY <2>1, FS_EmptySet
  <2>2. CASE RecvEnds # {}
    <3>1. PICK i \in RecvEnds : TRUE
      BY <2>2
    <3>2. RecvEnds = {i}
      BY <1>1, <3>1 DEF Arming
    <3> QED BY <2>2, <3>2, FS_Singleton
  <2> QED BY <2>1, <2>2
<1>4. /\ recving \/ RecvEnds # {} \/ ended \/ cooling_down_
      /\ recving => RecvEnds = {} /\ ~ended /\ ~cooling_down_
      /\ RecvEnds # {} => ~ended /\ ~cooling_down_
      /\ ended => ~cooling_down_
  BY <1>1 DEF Arming, RecvEnded
<1> DEFINE a == Cardinality(RecvEnds)
           b == Cardinality({x \in {"recving"} : recving})
           c == Cardinality({x \in {"handling"} : ended})
           d == Cardinality({x \in {"cooling"} : cooling_down_})
<1>5. a + b + c + d = 1
  <2>1. /\ a = (IF RecvEnds = {} THEN 0 ELSE 1) /\ b = (IF recving THEN 1 ELSE 0)
        /\ c = (IF ended THEN 1 ELSE 0) /\ d = (IF cooling_down_ THEN 1 ELSE 0)
    BY <1>2, <1>3
  <2> HIDE DEF a, b, c, d, ended
  <2>2. CASE recving
    BY <1>4, <2>1, <2>2
  <2>3. CASE ~recving /\ RecvEnds # {}
    BY <1>4, <2>1, <2>3
  <2>4. CASE ~recving /\ RecvEnds = {} /\ ended
    BY <1>4, <2>1, <2>4
  <2>5. CASE ~recving /\ RecvEnds = {} /\ ~ended
    BY <1>4, <2>1, <2>5
  <2> QED BY <2>2, <2>3, <2>4, <2>5
<1> QED BY <1>5

\* The multishot RECV of arm_recv is never lost and never doubled: while the
\* session runs, the kernel holds it, or one completion that ends it waits or
\* is being handled, or the receiver cools down, and no two of these at once.
THEOREM RecvNeverLost == Spec => []RecvArmedOnce
  BY ArmedOnce, AlwaysArmingInv, PTL

-----------------------------------------------------------------------------
(* Reference counts *)

\* The buffers of the queued frames that were not released yet.
QueueBids ==
    [i \in DOMAIN output_frame_queue_ |->
        IF i = 1 THEN SubSeq(output_frame_queue_[1].bid, released + 1,
                             Len(output_frame_queue_[1].bid))
        ELSE output_frame_queue_[i].bid]

RefsExact ==
    \A bid \in Bids :
        buffer_refcounts_[bid] = Occurrences(frame_.bid, bid)
                                   + Occurrences(FlattenSeq(QueueBids), bid)

\* What QueueBids looks like.
BidsShape ==
    /\ QueueBids \in Seq(Seq(Bids))
    /\ Len(QueueBids) = Len(output_frame_queue_)
    /\ Len(output_frame_queue_) \in Nat
    /\ DOMAIN output_frame_queue_ = 1..Len(output_frame_queue_)
    /\ \A i \in 1..Len(output_frame_queue_) :
          QueueBids[i] = IF i = 1 THEN SubSeq(output_frame_queue_[1].bid, released + 1,
                                             Len(output_frame_queue_[1].bid))
                         ELSE output_frame_queue_[i].bid
    /\ FlattenSeq(QueueBids) \in Seq(Bids)
    /\ frame_.bid \in Seq(Bids)
    /\ \A bid : Occurrences(FlattenSeq(QueueBids), bid) \in Nat
    /\ \A bid : Occurrences(frame_.bid, bid) \in Nat

\* The buffers named by the queue of frames are a sequence of buffer ids.
LEMMA QueueBidsFacts == Types => BidsShape
<1> SUFFICES ASSUME Types PROVE BidsShape
  OBVIOUS
<1>1. output_frame_queue_ \in Seq(FrameType) /\ released \in Nat /\ frame_ \in FrameType
  BY DEF Types
<1> DEFINE n == Len(output_frame_queue_)
           bids(i) == IF i = 1 THEN SubSeq(output_frame_queue_[1].bid, released + 1,
                                           Len(output_frame_queue_[1].bid))
                      ELSE output_frame_queue_[i].bid
<1>2. n \in Nat /\ DOMAIN output_frame_queue_ = 1..n
  BY <1>1
<1>3. ASSUME NEW i \in 1..n PROVE bids(i) \in Seq(Bids)
  <2>1. output_frame_queue_[i] \in FrameType
    BY <1>1, <1>2
  <2>2. output_frame_queue_[i].bid \in Seq(Bids)
    BY <2>1 DEF FrameType
  <2>3. CASE i = 1
    <3> DEFINE s == output_frame_queue_[1].bid
    <3>1. s \in Seq(Bids)
      BY <2>2, <2>3
    <3> HIDE DEF s
    <3>2. SubSeq(s, released + 1, Len(s)) \in Seq(Bids)
      BY <1>1, <3>1
    <3> QED BY <2>3, <3>2 DEF s
  <2> QED BY <2>2, <2>3
<1>4. QueueBids = [i \in 1..n |-> bids(i)]
  BY <1>2 DEF QueueBids
<1>5. QueueBids \in [1..n -> Seq(Bids)]
  BY <1>3, <1>4
<1>6. QueueBids \in Seq(Seq(Bids)) /\ Len(QueueBids) = n
  <2> HIDE DEF n
  <2> QED BY <1>2, <1>5, FunctionIsSeq
<1>7. FlattenSeq(QueueBids) \in Seq(Bids)
  BY <1>6, FlattenType
<1>8. frame_.bid \in Seq(Bids)
  BY <1>1 DEF FrameType
<1>9. /\ \A bid : Occurrences(FlattenSeq(QueueBids), bid) \in Nat
      /\ \A bid : Occurrences(frame_.bid, bid) \in Nat
  BY <1>7, <1>8, OccursNat
<1> QED BY <1>2, <1>4, <1>6, <1>7, <1>8, <1>9 DEF BidsShape

\* A complete frame joins the queue.
LEMMA QueueBidsAppend ==
    ASSUME Types, Types', released = 0, released' = 0, NEW frame \in FrameType,
           output_frame_queue_' = Append(output_frame_queue_, frame)
    PROVE  FlattenSeq(QueueBids)' = FlattenSeq(QueueBids) \o frame.bid
<1> DEFINE n == Len(output_frame_queue_)
           longer == Append(QueueBids, frame.bid)
<1>1. frame.bid \in Seq(Bids) /\ output_frame_queue_ \in Seq(FrameType)
  BY DEF FrameType, Types
<1>2. /\ n \in Nat
      /\ \A i \in 1..n : output_frame_queue_'[i] = output_frame_queue_[i]
      /\ output_frame_queue_'[n + 1] = frame /\ Len(output_frame_queue_') = n + 1
  BY <1>1, AppendFacts
<1>3. /\ QueueBids \in Seq(Seq(Bids)) /\ Len(QueueBids) = n
      /\ \A i \in 1..n :
            QueueBids[i] = IF i = 1 THEN SubSeq(output_frame_queue_[1].bid, released + 1,
                                               Len(output_frame_queue_[1].bid))
                           ELSE output_frame_queue_[i].bid
  BY QueueBidsFacts DEF BidsShape
<1>4. /\ QueueBids' \in Seq(Seq(Bids)) /\ Len(QueueBids') = n + 1
      /\ \A i \in 1..(n + 1) :
            QueueBids'[i] = IF i = 1 THEN SubSeq(output_frame_queue_'[1].bid, released' + 1,
                                                Len(output_frame_queue_'[1].bid))
                            ELSE output_frame_queue_'[i].bid
  <2>1. /\ QueueBids' \in Seq(Seq(Bids)) /\ Len(QueueBids') = Len(output_frame_queue_')
        /\ \A i \in 1..Len(output_frame_queue_') :
            QueueBids'[i] = IF i = 1 THEN SubSeq(output_frame_queue_'[1].bid, released' + 1,
                                                Len(output_frame_queue_'[1].bid))
                            ELSE output_frame_queue_'[i].bid
    <3>1. BidsShape'
      BY QueueBidsFacts, PTL
    <3> QED BY <3>1 DEF BidsShape
  <2> QED BY <1>2, <2>1
<1>5. /\ longer \in Seq(Seq(Bids)) /\ Len(longer) = n + 1
      /\ \A i \in 1..n : longer[i] = QueueBids[i]
      /\ longer[n + 1] = frame.bid
  BY <1>1, <1>3, AppendFacts
<1>6. ASSUME NEW i \in 1..(n + 1) PROVE QueueBids'[i] = longer[i]
  <2>1. CASE i = n + 1
    <3>1. output_frame_queue_'[i] = frame
      BY <1>2, <2>1
    <3>2. SubSeq(frame.bid, 0 + 1, Len(frame.bid)) = frame.bid
      BY <1>1, SubSeqFull
    <3>3. QueueBids'[i] = frame.bid
      BY <1>4, <3>1, <3>2
    <3> QED BY <1>5, <2>1, <3>3
  <2>2. CASE i # n + 1
    <3>1. i \in 1..n
      BY <1>2, <2>2
    <3>2. output_frame_queue_'[i] = output_frame_queue_[i]
      BY <1>2, <3>1
    <3>3. QueueBids'[i] = QueueBids[i]
      <4>1. CASE i = 1
        <5>1. output_frame_queue_'[1] = output_frame_queue_[1]
          BY <3>2, <4>1
        <5> QED BY <1>3, <1>4, <3>1, <4>1, <5>1
      <4>2. CASE i # 1
        <5>1. QueueBids'[i] = output_frame_queue_'[i].bid
          BY <1>4, <4>2
        <5>2. QueueBids[i] = output_frame_queue_[i].bid
          BY <1>3, <3>1, <4>2
        <5> QED BY <3>2, <5>1, <5>2
      <4> QED BY <4>1, <4>2
    <3> QED BY <1>5, <3>1, <3>3
  <2> QED BY <2>1, <2>2
<1> HIDE DEF n, longer
<1>7. QueueBids' = longer
  BY <1>4, <1>5, <1>6, SeqEqual
<1>8. FlattenSeq(longer) = FlattenSeq(QueueBids) \o frame.bid
  BY <1>1, <1>3, FlattenAppend DEF longer
<1> QED BY <1>7, <1>8

\* The first piece of QueueBids and the others.
HeadShape ==
    LET bids == Head(output_frame_queue_).bid
    IN  /\ Head(QueueBids) = SubSeq(bids, released + 1, Len(bids))
        /\ FlattenSeq(QueueBids) = Head(QueueBids) \o FlattenSeq(Tail(QueueBids))
        /\ Head(QueueBids) \in Seq(Bids) /\ Tail(QueueBids) \in Seq(Seq(Bids))
        /\ FlattenSeq(Tail(QueueBids)) \in Seq(Bids)
        /\ Len(Tail(QueueBids)) = Len(output_frame_queue_) - 1
        /\ \A i \in 1..(Len(output_frame_queue_) - 1) :
              Tail(QueueBids)[i] = output_frame_queue_[i + 1].bid

\* The buffers of the frame at the head come first among those of the queue.
LEMMA QueueBidsHead == Types /\ output_frame_queue_ # <<>> => HeadShape
<1> SUFFICES ASSUME Types, output_frame_queue_ # <<>> PROVE HeadShape
  OBVIOUS
<1>1. /\ QueueBids \in Seq(Seq(Bids)) /\ Len(QueueBids) = Len(output_frame_queue_)
      /\ Len(output_frame_queue_) \in Nat
      /\ \A i \in 1..Len(output_frame_queue_) :
            QueueBids[i] = IF i = 1 THEN SubSeq(output_frame_queue_[1].bid, released + 1,
                                               Len(output_frame_queue_[1].bid))
                           ELSE output_frame_queue_[i].bid
  BY QueueBidsFacts DEF BidsShape
<1>2. Len(output_frame_queue_) >= 1 /\ Head(output_frame_queue_) = output_frame_queue_[1]
  BY TailFacts DEF Types
<1>3. QueueBids # <<>>
  BY <1>1, <1>2
<1>4. /\ Head(QueueBids) = QueueBids[1] /\ Head(QueueBids) \in Seq(Bids)
      /\ Tail(QueueBids) \in Seq(Seq(Bids))
      /\ Len(Tail(QueueBids)) = Len(output_frame_queue_) - 1
      /\ \A i \in 1..(Len(output_frame_queue_) - 1) : Tail(QueueBids)[i] = QueueBids[i + 1]
  BY <1>1, <1>3, TailFacts
<1>5. 1 \in 1..Len(output_frame_queue_)
  BY <1>1, <1>2
<1>6. ASSUME NEW i \in 1..(Len(output_frame_queue_) - 1)
      PROVE  Tail(QueueBids)[i] = output_frame_queue_[i + 1].bid
  <2>1. i + 1 \in 1..Len(output_frame_queue_) /\ i + 1 # 1
    BY <1>1, <1>6
  <2> QED BY <1>1, <1>4, <2>1
<1>7. Head(QueueBids) = SubSeq(output_frame_queue_[1].bid, released + 1,
                               Len(output_frame_queue_[1].bid))
  BY <1>1, <1>4, <1>5
<1>8. FlattenSeq(QueueBids) = Head(QueueBids) \o FlattenSeq(Tail(QueueBids))
      /\ FlattenSeq(Tail(QueueBids)) \in Seq(Bids)
  BY <1>1, <1>3, <1>4, FlattenTail, FlattenType
<1> QED BY <1>2, <1>4, <1>6, <1>7, <1>8 DEF HeadShape

\* One iteration of the release loop drops one reference.
LEMMA QueueBidsRelease ==
    ASSUME Types, Types', output_frame_queue_ # <<>>, UNCHANGED output_frame_queue_,
           released < Len(Head(output_frame_queue_).bid), released' = released + 1,
           NEW e
    PROVE  Occurrences(FlattenSeq(QueueBids), e)
             = (IF Head(output_frame_queue_).bid[released + 1] = e THEN 1 ELSE 0)
                 + Occurrences(FlattenSeq(QueueBids)', e)
<1> DEFINE bids == Head(output_frame_queue_).bid
           x == bids[released + 1]
           rest == SubSeq(bids, (released + 1) + 1, Len(bids))
           later == FlattenSeq(Tail(QueueBids))
<1>1. bids \in Seq(Bids) /\ Len(bids) \in Nat /\ released \in Nat
  BY HeadFacts DEF Types
<1>2. /\ SubSeq(bids, released + 1, Len(bids)) = <<x>> \o rest
      /\ rest \in Seq(Bids) /\ x \in Bids
  <2> HIDE DEF bids
  <2> QED BY <1>1, SuffixFacts DEF bids
<1>3. /\ Head(QueueBids) = SubSeq(bids, released + 1, Len(bids))
      /\ FlattenSeq(QueueBids) = Head(QueueBids) \o later
      /\ Tail(QueueBids) \in Seq(Seq(Bids)) /\ later \in Seq(Bids)
      /\ Len(Tail(QueueBids)) = Len(output_frame_queue_) - 1
      /\ \A i \in 1..(Len(output_frame_queue_) - 1) :
            Tail(QueueBids)[i] = output_frame_queue_[i + 1].bid
  BY QueueBidsHead DEF HeadShape
<1>4. /\ Head(QueueBids)' = SubSeq(bids, released' + 1, Len(bids))
      /\ FlattenSeq(QueueBids)' = Head(QueueBids)' \o FlattenSeq(Tail(QueueBids))'
      /\ Tail(QueueBids)' \in Seq(Seq(Bids))
      /\ Len(Tail(QueueBids)') = Len(output_frame_queue_) - 1
      /\ \A i \in 1..(Len(output_frame_queue_) - 1) :
            Tail(QueueBids)'[i] = output_frame_queue_[i + 1].bid
  <2>1. (output_frame_queue_ # <<>>)'
    OBVIOUS
  <2>2. LET bids1 == Head(output_frame_queue_').bid
        IN  /\ Head(QueueBids)' = SubSeq(bids1, released' + 1, Len(bids1))
            /\ FlattenSeq(QueueBids)' = Head(QueueBids)' \o FlattenSeq(Tail(QueueBids))'
            /\ Tail(QueueBids)' \in Seq(Seq(Bids))
            /\ Len(Tail(QueueBids)') = Len(output_frame_queue_') - 1
            /\ \A i \in 1..(Len(output_frame_queue_') - 1) :
                  Tail(QueueBids)'[i] = output_frame_queue_'[i + 1].bid
    <3>1. HeadShape'
      BY <2>1, QueueBidsHead, PTL
    <3> QED BY <3>1 DEF HeadShape
  <2> QED BY <2>2
<1>5. Tail(QueueBids)' = Tail(QueueBids)
  <2> DEFINE a == Tail(QueueBids)
             b == Tail(QueueBids)'
             n == Len(output_frame_queue_) - 1
  <2>1. a \in Seq(Seq(Bids)) /\ b \in Seq(Seq(Bids)) /\ Len(a) = Len(b)
        /\ \A i \in 1..Len(a) : a[i] = b[i]
    BY <1>3, <1>4
  <2> HIDE DEF a, b
  <2>2. a = b
    BY <2>1, SeqEqual
  <2> QED BY <2>2 DEF a, b
<1> DEFINE one == IF x = e THEN 1 ELSE 0
           now == FlattenSeq(QueueBids)
           next == FlattenSeq(QueueBids)'
<1>6. now = (<<x>> \o rest) \o later /\ next = rest \o later
  BY <1>2, <1>3, <1>4, <1>5
<1>7. <<x>> \in Seq(Bids) /\ <<x>> \o rest \in Seq(Bids)
  <2> HIDE DEF x, rest
  <2> QED BY <1>2
<1> HIDE DEF x, rest, later, now, next, bids
<1>8. Occurrences(now, e) = Occurrences(<<x>> \o rest, e) + Occurrences(later, e)
  BY <1>3, <1>6, <1>7, OccursConcat
<1>9. Occurrences(<<x>> \o rest, e) = one + Occurrences(rest, e)
  BY <1>2, OccursCons
<1>10. Occurrences(next, e) = Occurrences(rest, e) + Occurrences(later, e)
  BY <1>2, <1>3, <1>6, OccursConcat
<1>11. Occurrences(rest, e) \in Nat /\ Occurrences(later, e) \in Nat /\ one \in Nat
  BY <1>2, <1>3, OccursNat
<1> HIDE DEF one
<1>12. Occurrences(now, e) = one + Occurrences(next, e)
  BY <1>8, <1>9, <1>10, <1>11
<1> QED BY <1>12 DEF one, now, next, x, bids

\* When all references of the oldest frame are dropped, the frame goes.
LEMMA QueueBidsDrop ==
    ASSUME Types, Types', output_frame_queue_ # <<>>,
           output_frame_queue_' = Tail(output_frame_queue_),
           released = Len(Head(output_frame_queue_).bid), released' = 0
    PROVE  FlattenSeq(QueueBids)' = FlattenSeq(QueueBids)
<1> DEFINE bids == Head(output_frame_queue_).bid
           a == Tail(QueueBids)
           b == QueueBids'
           n == Len(output_frame_queue_) - 1
<1>1. bids \in Seq(Bids) /\ Len(bids) \in Nat /\ output_frame_queue_ \in Seq(FrameType)
  BY HeadFacts DEF Types
<1>2. /\ Head(QueueBids) = SubSeq(bids, released + 1, Len(bids))
      /\ FlattenSeq(QueueBids) = Head(QueueBids) \o FlattenSeq(a)
      /\ a \in Seq(Seq(Bids)) /\ FlattenSeq(a) \in Seq(Bids) /\ Len(a) = n
      /\ \A i \in 1..n : a[i] = output_frame_queue_[i + 1].bid
  BY QueueBidsHead DEF HeadShape
<1>3. Head(QueueBids) = <<>>
  <2>1. SubSeq(bids, released + 1, Len(bids)) \in Seq(Bids)
        /\ Len(SubSeq(bids, released + 1, Len(bids))) = 0
    <3> HIDE DEF bids
    <3> QED BY <1>1 DEF bids
  <2>2. SubSeq(bids, released + 1, Len(bids)) = <<>>
    BY <2>1, EmptyFacts
  <2> QED BY <1>2, <2>2
<1>4. FlattenSeq(QueueBids) = FlattenSeq(a)
  <2> DEFINE f == FlattenSeq(a)
  <2>1. f \in Seq(Bids)
    BY <1>2
  <2> HIDE DEF f
  <2>2. <<>> \o f = f
    BY <2>1, ConcatEmptySeq
  <2> QED BY <1>2, <1>3, <2>2 DEF f
<1>5. /\ n \in Nat /\ Len(output_frame_queue_') = n
      /\ \A i \in 1..n : output_frame_queue_'[i] = output_frame_queue_[i + 1]
                          /\ output_frame_queue_[i + 1] \in FrameType
  <2>1. /\ Len(output_frame_queue_) \in Nat /\ Len(output_frame_queue_) >= 1
        /\ Len(Tail(output_frame_queue_)) = n
        /\ \A i \in 1..n : Tail(output_frame_queue_)[i] = output_frame_queue_[i + 1]
    BY <1>1, TailFacts
  <2>2. \A i \in 1..n : output_frame_queue_[i + 1] \in FrameType
    BY <1>1, <2>1
  <2> QED BY <2>1, <2>2
<1>6. /\ b \in Seq(Seq(Bids)) /\ Len(b) = n
      /\ \A i \in 1..n :
            b[i] = IF i = 1 THEN SubSeq(output_frame_queue_'[1].bid, released' + 1,
                                       Len(output_frame_queue_'[1].bid))
                   ELSE output_frame_queue_'[i].bid
  <2>1. /\ QueueBids' \in Seq(Seq(Bids)) /\ Len(QueueBids') = Len(output_frame_queue_')
        /\ \A i \in 1..Len(output_frame_queue_') :
            QueueBids'[i] = IF i = 1 THEN SubSeq(output_frame_queue_'[1].bid, released' + 1,
                                                Len(output_frame_queue_'[1].bid))
                            ELSE output_frame_queue_'[i].bid
    <3>1. BidsShape'
      BY QueueBidsFacts, PTL
    <3> QED BY <3>1 DEF BidsShape
  <2> QED BY <1>5, <2>1
<1>7. ASSUME NEW i \in 1..n PROVE a[i] = b[i]
  <2> DEFINE s == output_frame_queue_[i + 1].bid
  <2>1. s \in Seq(Bids)
    BY <1>5 DEF FrameType
  <2> HIDE DEF s
  <2>2. SubSeq(s, 0 + 1, Len(s)) = s
    BY <2>1, SubSeqFull
  <2>3. a[i] = s
    BY <1>2 DEF s
  <2>4. CASE i = 1
    <3>1. output_frame_queue_'[1] = output_frame_queue_[i + 1]
      BY <1>5, <2>4
    <3>2. b[i] = SubSeq(output_frame_queue_'[1].bid, 0 + 1, Len(output_frame_queue_'[1].bid))
      BY <1>6, <2>4
    <3> QED BY <2>2, <2>3, <3>1, <3>2 DEF s
  <2>5. CASE i # 1
    BY <1>5, <1>6, <2>3, <2>5 DEF s
  <2> QED BY <2>4, <2>5
<1> HIDE DEF a, b, n
<1>8. a = b
  BY <1>2, <1>6, <1>7, SeqEqual
<1> QED BY <1>4, <1>8 DEF a, b

\* Every step keeps the reference counts exact.
LEMMA NextRefsExact ==
    ShapeInv /\ (Running => RefsExact) /\ [Next]_vars /\ Running' => RefsExact'
<1> SUFFICES ASSUME ShapeInv, Running => RefsExact, [Next]_vars, Running', NEW bid \in Bids
             PROVE  buffer_refcounts_'[bid] = Occurrences(frame_'.bid, bid)
                                                + Occurrences(FlattenSeq(QueueBids)', bid)
  BY DEF RefsExact, Bids
<1> DEFINE inFrame == Occurrences(frame_.bid, bid)
           inQueue == Occurrences(FlattenSeq(QueueBids), bid)
<1>0. Types /\ Types' /\ ShapeInv'
  BY NextTypes, NextShapeInv DEF ShapeInv
<1>1. /\ frame_.bid \in Seq(Bids) /\ FlattenSeq(QueueBids) \in Seq(Bids)
      /\ inFrame \in Nat /\ inQueue \in Nat
  BY <1>0, QueueBidsFacts DEF BidsShape
<1>2. Running => buffer_refcounts_[bid] = inFrame + inQueue
  BY DEF RefsExact
<1> HIDE DEF inFrame, inQueue
<1>3. CASE ParsePayload
  <2>1. /\ Running /\ input_buffer_queue_ # <<>> /\ released' = released
        /\ PayloadResult = "None" /\ PayloadFrame.bid = Append(frame_.bid, Input.bid)
        /\ PayloadFrame \in FrameType
    BY <1>3, PayloadStep, ParseResults, PayloadFrameFacts DEF handler_vars
  <2>2. Input.bid \in Bids /\ released = 0
    BY <2>1, InputFacts DEF ShapeInv, Shape, Handling
  <2>3. buffer_refcounts_' = Referenced(Input.bid)
    BY <1>3, PayloadStep DEF Consume
  <2> DEFINE more == IF Input.bid = bid THEN 1 ELSE 0
             ref == Input.bid
             bids == frame_.bid
  <2>4. buffer_refcounts_'[bid] = inFrame + inQueue + more
    <3>1. buffer_refcounts_ \in [Bids -> Int]
      BY <1>0 DEF Types
    <3>2. buffer_refcounts_'[bid] = buffer_refcounts_[bid] + more
      BY <2>2, <2>3, <3>1 DEF Referenced
    <3> QED BY <1>1, <1>2, <2>1, <3>2
  <2>5. Occurrences(PayloadFrame.bid, bid) = inFrame + more
    <3>1. bids \in Seq(Bids) /\ ref \in Bids
      BY <1>1, <2>2
    <3> HIDE DEF bids, ref
    <3>2. Occurrences(Append(bids, ref), bid)
            = Occurrences(bids, bid) + (IF ref = bid THEN 1 ELSE 0)
      BY <3>1, OccursAppend
    <3> QED BY <2>1, <3>2 DEF inFrame, bids, ref
  <2>6. more \in Nat
    OBVIOUS
  <2> HIDE DEF more
  <2>7. CASE PayloadComplete
    <3>1. /\ output_frame_queue_' = Append(output_frame_queue_, PayloadFrame)
          /\ frame_' = EmptyFrame
      BY <1>3, <2>1, <2>7, PayloadStep
    <3>2. FlattenSeq(QueueBids)' = FlattenSeq(QueueBids) \o PayloadFrame.bid
      BY <1>0, <2>1, <2>2, <3>1, QueueBidsAppend
    <3>3. PayloadFrame.bid \in Seq(Bids)
      BY <2>1 DEF FrameType
    <3> DEFINE now == FlattenSeq(QueueBids)
               new == PayloadFrame.bid
    <3>4. Occurrences(now \o new, bid) = Occurrences(now, bid) + Occurrences(new, bid)
      <4>1. now \in Seq(Bids) /\ new \in Seq(Bids)
        BY <1>1, <3>3
      <4> HIDE DEF now, new
      <4> QED BY <4>1, OccursConcat
    <3>5. Occurrences(FlattenSeq(QueueBids)', bid) = inQueue + (inFrame + more)
      BY <2>5, <3>2, <3>4 DEF inQueue
    <3>6. Occurrences(frame_'.bid, bid) = 0
      BY <3>1, OccursNone DEF EmptyFrame
    <3> QED BY <1>1, <2>4, <2>6, <3>5, <3>6
  <2>8. CASE ~PayloadComplete
    <3>1. UNCHANGED output_frame_queue_ /\ frame_' = PayloadFrame
      BY <1>3, <2>8, PayloadStep
    <3>2. QueueBids' = QueueBids
      BY <2>1, <3>1 DEF QueueBids
    <3>3. Occurrences(FlattenSeq(QueueBids)', bid) = inQueue
      BY <3>2 DEF inQueue
    <3>4. Occurrences(frame_'.bid, bid) = inFrame + more
      BY <2>5, <3>1
    <3> QED BY <1>1, <2>4, <2>6, <3>3, <3>4
  <2> QED BY <2>7, <2>8
<1>4. CASE ReleaseBuffer
  <2> DEFINE ref == Head(output_frame_queue_).bid[released + 1]
             less == IF ref = bid THEN 1 ELSE 0
  <2>1. /\ Running /\ UNCHANGED <<frame_, output_frame_queue_>>
        /\ output_frame_queue_ # <<>>
        /\ released < Len(Head(output_frame_queue_).bid) /\ released' = released + 1
        /\ buffer_refcounts_' = [buffer_refcounts_ EXCEPT ![ref] = @ - 1]
    BY <1>4 DEF ReleaseBuffer, Releases, parser_vars, ShapeInv, Shape, Writing, Running
  <2>2. inQueue = less + Occurrences(FlattenSeq(QueueBids)', bid)
    BY <1>0, <2>1, QueueBidsRelease DEF inQueue
  <2>3. ref \in Bids
    <3> DEFINE bids == Head(output_frame_queue_).bid
    <3>1. bids \in Seq(Bids) /\ released \in Nat /\ released < Len(bids)
      BY <1>0, <2>1, HeadFacts DEF Types, FrameType
    <3> HIDE DEF bids
    <3>2. released + 1 \in 1..Len(bids)
      BY <3>1
    <3>3. bids[released + 1] \in Bids
      BY <3>1, <3>2
    <3> QED BY <3>3 DEF bids, ref
  <2> HIDE DEF ref
  <2>4. buffer_refcounts_'[bid] = buffer_refcounts_[bid] - less
    <3>1. buffer_refcounts_ \in [Bids -> Int]
      BY <1>0 DEF Types
    <3> QED BY <2>1, <2>3, <3>1
  <2>5. less \in Nat
    OBVIOUS
  <2> HIDE DEF less
  <2>6. Occurrences(FlattenSeq(QueueBids)', bid) \in Nat
    <3>1. BidsShape'
      BY <1>0, QueueBidsFacts, PTL
    <3> QED BY <3>1 DEF BidsShape
  <2>7. Occurrences(frame_'.bid, bid) = inFrame
    BY <2>1 DEF inFrame
  <2> QED BY <1>1, <1>2, <2>1, <2>2, <2>4, <2>5, <2>6, <2>7
<1>5. CASE WriteDone
  <2>1. /\ Running /\ UNCHANGED <<frame_, buffer_refcounts_>>
        /\ output_frame_queue_ # <<>> /\ output_frame_queue_' = Tail(output_frame_queue_)
        /\ released = Len(Head(output_frame_queue_).bid) /\ released' = 0
    BY <1>5 DEF WriteDone, Released, Releases, parser_vars, ShapeInv, Shape, Writing, Running
  <2>2. FlattenSeq(QueueBids)' = FlattenSeq(QueueBids)
    BY <1>0, <2>1, QueueBidsDrop
  <2> QED BY <1>2, <2>1, <2>2 DEF inFrame, inQueue
<1>6. CASE UNCHANGED <<frame_, buffer_refcounts_, output_frame_queue_, released>> /\ Running
  <2>1. QueueBids' = QueueBids
    BY <1>6 DEF QueueBids
  <2> QED BY <1>2, <1>6, <2>1 DEF inFrame, inQueue
<1>7. CASE WriteCompleted
  <2>1. released = 0
    BY <1>7 DEF WriteCompleted, Handles, ShapeInv, Shape, Handling, Running, idle, Cqe
  <2> QED BY <1>6, <1>7, <2>1 DEF WriteCompleted, Handles, parser_vars, Running
<1>8. CASE RecvNoBuffers \/ RecvChunk \/ RecvDone
  BY <1>6, <1>8 DEF RecvNoBuffers, RecvChunk, RecvDone, Parsed, Handles, parser_vars, Running
<1>9. CASE ParseHeader
  <2>1. buffer_refcounts_' = buffer_refcounts_
    BY <1>9, HeaderStep DEF Consume
  <2> QED BY <1>6, <1>9, <2>1, HeaderStep DEF handler_vars
<1>10. CASE Kernel
  BY <1>6, <1>10 DEF Kernel, KernelRecv, KernelRecvNoBuffers, KernelRecvError, KernelPeerClosed,
     EndRecv, KernelWrite, KernelWriteError, KernelStep, own_vars, parser_vars, handler_vars, Running
<1>11. CASE UNCHANGED vars
  BY <1>6, <1>11 DEF vars, own_vars, parser_vars, handler_vars, Running
<1> QED
  BY <1>3, <1>4, <1>5, <1>7, <1>8, <1>9, <1>10, <1>11, ParseResults DEF Next, Handle

RefsInv == ShapeInv /\ (Running => RefsExact)

\* The reference counts are exact at the start.
LEMMA InitRefsExact == Init => RefsExact
<1> SUFFICES ASSUME Init, NEW bid \in Bids
             PROVE  buffer_refcounts_[bid] = Occurrences(frame_.bid, bid)
                                               + Occurrences(FlattenSeq(QueueBids), bid)
  BY DEF RefsExact
<1>1. buffer_refcounts_[bid] = 0 /\ frame_.bid = <<>>
  BY DEF Init, Created, EmptyFrame
<1>2. QueueBids = <<>>
  <2>1. QueueBids \in Seq(Seq(Bids)) /\ Len(QueueBids) = 0
    BY InitTypes, QueueBidsFacts DEF BidsShape, Init, Created
  <2> QED BY <2>1, EmptyFacts
<1>3. FlattenSeq(QueueBids) = <<>>
  BY <1>2, FlattenEmpty
<1>4. Occurrences(frame_.bid, bid) = 0 /\ Occurrences(FlattenSeq(QueueBids), bid) = 0
  BY <1>1, <1>3, OccursNone
<1> QED BY <1>1, <1>4

\* The reference counts are exact in every behaviour.
LEMMA AlwaysRefsInv == Spec => []RefsInv
<1>1. Init => RefsInv
  BY InitShapeInv, InitRefsExact DEF RefsInv
<1>2. RefsInv /\ [Next]_vars => RefsInv'
  BY NextShapeInv, NextRefsExact DEF RefsInv
<1> QED BY <1>1, <1>2, PTL DEF Spec

\* buffer_refcounts_ counts exactly the segments of frames that lie in a buffer,
\* through kick_parse_ and the release loop of handle_write_cqe_: none is missed
\* when a buffer straddles frames, and none is dropped twice.
THEOREM RefcountsExact == Spec => []RefcountExact
<1>1. RefsInv => RefcountExact
  <2> SUFFICES ASSUME RefsInv, Running, NEW bid \in Bids
               PROVE  buffer_refcounts_[bid]
                        = Cardinality({i \in DOMAIN References : References[i] = bid})
    BY DEF RefcountExact
  <2> DEFINE a == frame_.bid
             b == FlattenSeq(QueueBids)
  <2>1. a \in Seq(Bids) /\ b \in Seq(Bids) /\ References = a \o b
    BY QueueBidsFacts DEF BidsShape, RefsInv, ShapeInv, References, QueueBids
  <2>2. buffer_refcounts_[bid] = Occurrences(a, bid) + Occurrences(b, bid)
    BY DEF RefsInv, RefsExact
  <2> HIDE DEF a, b
  <2>3. Occurrences(a \o b, bid) = Occurrences(a, bid) + Occurrences(b, bid)
    BY <2>1, OccursConcat
  <2>4. Occurrences(References, bid)
          = Cardinality({i \in DOMAIN References : References[i] = bid})
    BY DEF Occurrences
  <2> QED BY <2>1, <2>2, <2>3, <2>4
<1> QED BY <1>1, AlwaysRefsInv, PTL

-----------------------------------------------------------------------------
(* Ownership of the buffers *)

\* The buffers that completions not handled yet bring, in their order.
CqBids == [i \in DOMAIN cq |-> cq[i].bid]

HeldOnce(bid) == IF bid \in Held THEN 1 ELSE 0

\* A buffer is free once, or filled once, or held.
OneOwner ==
    \A bid \in Bids : Occurrences(br_, bid) + Occurrences(CqBids, bid) + HeldOnce(bid) = 1

Counted == used_buffers_ = Cardinality(Held)

\* A buffer being parsed has no more references than bytes parsed.
Bounded ==
    /\ \A bid \in Bids : buffer_refcounts_[bid] \in 0..buffer_size
    /\ input_buffer_queue_ # <<>> => buffer_refcounts_[Input.bid] <= Input.offset

Owning == OneOwner /\ Counted /\ Bounded

OwnInv == RefsInv /\ (Running => Owning)

CqBidsTyped == CqBids \in Seq(Bids \cup {NoBid}) /\ Len(CqBids) = Len(cq)

\* Every completion has a buffer id, which may be NoBid.
LEMMA CqBidsType == Types => CqBidsTyped
<1> SUFFICES ASSUME Types PROVE CqBidsTyped
  OBVIOUS
<1>1. Len(cq) \in Nat /\ DOMAIN cq = 1..Len(cq) /\ \A i \in 1..Len(cq) : cq[i] \in Cqes
  BY DEF Types
<1>2. \A i \in 1..Len(cq) : cq[i].bid \in Bids \cup {NoBid}
  BY <1>1, CqeFacts
<1>3. CqBids \in [1..Len(cq) -> Bids \cup {NoBid}]
  BY <1>1, <1>2 DEF CqBids
<1> QED BY <1>1, <1>3, FunctionIsSeq DEF CqBidsTyped

\* The counts are numbers.
LEMMA OwnerTypes ==
    ASSUME Types
    PROVE  /\ br_ \in Seq(Bids) /\ CqBids \in Seq(Bids \cup {NoBid})
           /\ Len(CqBids) = Len(cq) /\ DOMAIN CqBids = DOMAIN cq
           /\ \A bid : Occurrences(br_, bid) \in Nat /\ Occurrences(CqBids, bid) \in Nat
           /\ \A bid : HeldOnce(bid) \in {0, 1}
<1>1. br_ \in Seq(Bids) /\ cq \in Seq(Cqes)
  BY DEF Types
<1>2. CqBids \in Seq(Bids \cup {NoBid}) /\ Len(CqBids) = Len(cq)
  BY CqBidsType DEF CqBidsTyped
<1>3. \A bid : Occurrences(br_, bid) \in Nat /\ Occurrences(CqBids, bid) \in Nat
  BY <1>1, <1>2, OccursNat
<1>4. \A bid : HeldOnce(bid) \in {0, 1}
  BY DEF HeldOnce
<1>5. DOMAIN CqBids = DOMAIN cq
  BY DEF CqBids
<1> QED BY <1>1, <1>2, <1>3, <1>4, <1>5

\* A completion is posted.
LEMMA BidPosted ==
    ASSUME Types, NEW cqe \in Cqes, cq' = Append(cq, cqe), NEW bid
    PROVE  Occurrences(CqBids', bid)
             = Occurrences(CqBids, bid) + (IF cqe.bid = bid THEN 1 ELSE 0)
<1>1. /\ Len(cq) \in Nat /\ DOMAIN cq = 1..Len(cq) /\ DOMAIN cq' = 1..(Len(cq) + 1)
      /\ \A i \in 1..Len(cq) : cq'[i] = cq[i]
      /\ cq'[Len(cq) + 1] = cqe
  BY PostedFacts
<1>2. CqBids \in Seq(Bids \cup {NoBid}) /\ Len(CqBids) = Len(cq) /\ cqe.bid \in Bids \cup {NoBid}
  BY OwnerTypes, CqeFacts
<1> DEFINE longer == Append(CqBids, cqe.bid)
<1>3. /\ DOMAIN longer = 1..(Len(cq) + 1)
      /\ \A i \in 1..Len(cq) : longer[i] = CqBids[i]
      /\ longer[Len(cq) + 1] = cqe.bid
      /\ longer = [i \in DOMAIN longer |-> longer[i]]
  BY <1>2, AppendFacts
<1>4. CqBids' = [i \in 1..(Len(cq) + 1) |-> cq'[i].bid]
  BY <1>1 DEF CqBids
<1>8. \A i \in 1..Len(cq) : CqBids[i] = cq[i].bid
  BY <1>1 DEF CqBids
<1> HIDE DEF longer
<1>5. \A i \in 1..(Len(cq) + 1) : cq'[i].bid = longer[i]
  <2> SUFFICES ASSUME NEW i \in 1..(Len(cq) + 1) PROVE cq'[i].bid = longer[i]
    OBVIOUS
  <2>1. CASE i = Len(cq) + 1
    BY <1>1, <1>3, <2>1
  <2>2. CASE i \in 1..Len(cq)
    BY <1>1, <1>3, <1>8, <2>2
  <2> QED BY <1>1, <2>1, <2>2
<1>6. CqBids' = longer
  BY <1>3, <1>4, <1>5
<1>7. Occurrences(Append(CqBids, cqe.bid), bid)
        = Occurrences(CqBids, bid) + (IF cqe.bid = bid THEN 1 ELSE 0)
  <2>1. \A s \in Seq(Bids \cup {NoBid}), x \in Bids \cup {NoBid} :
           Occurrences(Append(s, x), bid) = Occurrences(s, bid) + (IF x = bid THEN 1 ELSE 0)
    BY OccursAppend
  <2> QED BY <1>2, <2>1
<1> QED BY <1>6, <1>7 DEF longer

\* The oldest completion is taken.
LEMMA BidTaken ==
    ASSUME Types, Types', cq # <<>>, cq' = Tail(cq), NEW bid
    PROVE  Occurrences(CqBids, bid)
             = (IF Head(cq).bid = bid THEN 1 ELSE 0) + Occurrences(CqBids', bid)
<1>1. /\ Len(cq) \in Nat /\ Len(cq) >= 1
      /\ DOMAIN cq = 1..Len(cq) /\ DOMAIN cq' = 1..(Len(cq) - 1)
      /\ \A i \in 1..(Len(cq) - 1) : cq'[i] = cq[i + 1] /\ i + 1 \in DOMAIN cq
      /\ Head(cq) = cq[1] /\ Head(cq) \in Cqes
  BY TakenFacts
<1>2. CqBids \in Seq(Bids \cup {NoBid}) /\ Len(CqBids) = Len(cq)
      /\ Head(cq).bid \in Bids \cup {NoBid}
  BY <1>1, OwnerTypes, CqeFacts
<1>3. CqBids' \in Seq(Bids \cup {NoBid}) /\ Len(CqBids') = Len(cq) - 1
  <2>1. CqBids' \in Seq(Bids \cup {NoBid}) /\ Len(CqBids') = Len(cq')
    <3>1. CqBidsTyped'
      BY CqBidsType, PTL
    <3> QED BY <3>1 DEF CqBidsTyped
  <2>2. Len(cq') = Len(cq) - 1
    BY TailFacts DEF Types
  <2> QED BY <2>1, <2>2
<1> DEFINE longer == <<Head(cq).bid>> \o CqBids'
<1>5. \A i \in 1..(Len(cq) - 1) : CqBids'[i] = cq[i + 1].bid
  BY <1>1 DEF CqBids
<1>6. \A i \in 1..Len(cq) : CqBids[i] = cq[i].bid
  BY <1>1 DEF CqBids
<1>7. longer \in Seq(Bids \cup {NoBid}) /\ Len(longer) = Len(cq)
      /\ longer[1] = Head(cq).bid /\ \A i \in 1..(Len(cq) - 1) : longer[i + 1] = CqBids'[i]
  <2>1. /\ longer \in Seq(Bids \cup {NoBid}) /\ Len(longer) = Len(CqBids') + 1
        /\ longer[1] = Head(cq).bid
        /\ \A i \in 1..Len(CqBids') : longer[i + 1] = CqBids'[i]
    BY <1>2, <1>3, ConsFacts
  <2> HIDE DEF longer
  <2> QED BY <1>1, <1>3, <2>1
<1> HIDE DEF longer
<1>8. \A i \in 1..Len(cq) : CqBids[i] = longer[i]
  <2> SUFFICES ASSUME NEW i \in 1..Len(cq) PROVE CqBids[i] = longer[i]
    OBVIOUS
  <2>1. CASE i = 1
    BY <1>1, <1>6, <1>7, <2>1
  <2>2. CASE i # 1
    <3>1. i - 1 \in 1..(Len(cq) - 1) /\ (i - 1) + 1 = i
      BY <1>1, <2>2
    <3>2. longer[(i - 1) + 1] = cq[(i - 1) + 1].bid
      BY <1>5, <1>7, <3>1
    <3> QED BY <1>6, <3>1, <3>2
  <2> QED BY <2>1, <2>2
<1>9. CqBids = longer
  BY <1>2, <1>7, <1>8, SeqEqual
<1>10. Occurrences(<<Head(cq).bid>> \o CqBids', bid)
         = (IF Head(cq).bid = bid THEN 1 ELSE 0) + Occurrences(CqBids', bid)
  <2>1. \A s \in Seq(Bids \cup {NoBid}), x \in Bids \cup {NoBid} :
           Occurrences(<<x>> \o s, bid) = (IF x = bid THEN 1 ELSE 0) + Occurrences(s, bid)
    BY OccursCons
  <2> QED BY <1>2, <1>3, <2>1
<1> QED BY <1>9, <1>10 DEF longer

\* A buffer is returned to the ring.
LEMMA BidReturned ==
    ASSUME Types, NEW bid \in Bids, br_' = Append(br_, bid), NEW b
    PROVE  Occurrences(br_', b) = Occurrences(br_, b) + (IF bid = b THEN 1 ELSE 0)
<1>1. \A s \in Seq(Bids), x \in Bids :
         Occurrences(Append(s, x), b) = Occurrences(s, b) + (IF x = b THEN 1 ELSE 0)
  BY OccursAppend
<1> QED BY <1>1 DEF Types

\* The kernel takes the first free buffer.
LEMMA BidFilled ==
    ASSUME Types, br_ # <<>>, br_' = Tail(br_), NEW b
    PROVE  Occurrences(br_, b) = (IF Head(br_) = b THEN 1 ELSE 0) + Occurrences(br_', b)
<1>1. br_ \in Seq(Bids) /\ Head(br_) \in Bids /\ Tail(br_) \in Seq(Bids)
  BY TailFacts DEF Types
<1>2. br_ = <<Head(br_)>> \o Tail(br_)
  BY <1>1
<1>3. \A s \in Seq(Bids), x \in Bids :
         Occurrences(<<x>> \o s, b) = (IF x = b THEN 1 ELSE 0) + Occurrences(s, b)
  BY OccursCons
<1>4. Occurrences(<<Head(br_)>> \o Tail(br_), b)
        = (IF Head(br_) = b THEN 1 ELSE 0) + Occurrences(Tail(br_), b)
  BY <1>1, <1>3
<1> QED BY <1>2, <1>4

\* What Held looks like: at most one chunk is being parsed.
Referred == {bid \in Bids : buffer_refcounts_[bid] > 0}

HeldShape ==
    /\ input_buffer_queue_ = <<>> => Held = Referred
    /\ input_buffer_queue_ # <<>> => Held = Referred \cup {Input.bid} /\ Input.bid \in Bids
    /\ Held \subseteq Bids /\ IsFiniteSet(Held)
    /\ Cardinality(Held) \in 0..BufferCount

\* There are BufferCount buffer ids, and "no buffer" is not one of them.
LEMMA BidsFacts == IsFiniteSet(Bids) /\ Cardinality(Bids) = BufferCount /\ NoBid \notin Bids
<1>1. /\ IsFiniteSet(0..(BufferCount - 1))
      /\ Cardinality(0..(BufferCount - 1)) = (BufferCount - 1) - 0 + 1
  BY FS_Interval, ReceiverAssumption
<1> QED BY <1>1, ReceiverAssumption DEF Bids, NoBid

\* What the program holds is a finite set of buffer ids.
LEMMA HeldFacts == ShapeInv /\ Running => HeldShape
<1> SUFFICES ASSUME ShapeInv, Running PROVE HeldShape
  OBVIOUS
<1>1. ASSUME input_buffer_queue_ = <<>> PROVE Held = Referred
  BY <1>1 DEF Held, Referred
<1>2. ASSUME input_buffer_queue_ # <<>>
      PROVE  Held = Referred \cup {Input.bid} /\ Input.bid \in Bids
  <2>1. /\ Input.bid \in Bids /\ DOMAIN input_buffer_queue_ = {1}
        /\ Input = input_buffer_queue_[1]
    BY <1>2, InputFacts
  <2> QED BY <2>1 DEF Held, Referred
<1>3. Held \subseteq Bids
  BY <1>1, <1>2 DEF Referred
<1>4. IsFiniteSet(Held) /\ Cardinality(Held) <= BufferCount
  BY <1>3, BidsFacts, FS_Subset
<1>5. Cardinality(Held) \in 0..BufferCount
  BY <1>4, FS_CardinalityType, ReceiverAssumption
<1> QED BY <1>1, <1>2, <1>3, <1>4, <1>5 DEF HeldShape

\* A buffer begins to be held ...
LEMMA HeldMore ==
    ASSUME HeldShape, NEW bid \in Bids, bid \notin Held, Held' = Held \cup {bid}
    PROVE  /\ Cardinality(Held') = Cardinality(Held) + 1
           /\ \A b : HeldOnce(b)' = HeldOnce(b) + (IF bid = b THEN 1 ELSE 0)
<1>1. Cardinality(Held') = Cardinality(Held) + 1
  BY FS_AddElement DEF HeldShape
<1>2. \A b : HeldOnce(b)' = HeldOnce(b) + (IF bid = b THEN 1 ELSE 0)
  BY DEF HeldOnce
<1> QED BY <1>1, <1>2

\* ... and is not held any more.
LEMMA HeldLess ==
    ASSUME HeldShape, NEW bid \in Bids, bid \in Held, Held' = Held \ {bid}
    PROVE  /\ Cardinality(Held') = Cardinality(Held) - 1
           /\ \A b : HeldOnce(b) = HeldOnce(b)' + (IF bid = b THEN 1 ELSE 0)
<1>1. Cardinality(Held') = Cardinality(Held) - 1
  BY FS_RemoveElement DEF HeldShape
<1>2. \A b : HeldOnce(b) = HeldOnce(b)' + (IF bid = b THEN 1 ELSE 0)
  BY DEF HeldOnce
<1> QED BY <1>1, <1>2

\* What an iteration of kick_parse_ that succeeds does to the buffers.
LEMMA ParsedBuffers ==
    ASSUME ShapeInv, Running', ParseHeader \/ ParsePayload
    PROVE  /\ Running /\ input_buffer_queue_ # <<>> /\ UNCHANGED cq
           /\ \E take \in 1..buffer_size :
                /\ Input.offset + take <= Input.size
                /\ Input.offset + take = Input.size => input_buffer_queue_' = <<>>
                /\ Input.offset + take # Input.size =>
                      input_buffer_queue_' = <<Advanced(Input, take)>>
                /\ Input.offset + take = Input.size /\ buffer_refcounts_'[Input.bid] = 0
                      => br_' = Append(br_, Input.bid) /\ used_buffers_' = used_buffers_ - 1
                /\ ~(Input.offset + take = Input.size /\ buffer_refcounts_'[Input.bid] = 0)
                      => br_' = br_ /\ used_buffers_' = used_buffers_
           /\ \/ buffer_refcounts_' = buffer_refcounts_
              \/ buffer_refcounts_' = Referenced(Input.bid)
<1>1. /\ buffer_refcounts_ \in [Bids -> Int] /\ br_ \in Seq(Bids) /\ used_buffers_ \in Int
      /\ input_buffer_queue_ \in Seq(Chunks)
  BY DEF ShapeInv, Types
<1>2. Running /\ input_buffer_queue_ # <<>> /\ UNCHANGED cq
  BY HeaderStep, PayloadStep
<1>3. Len(input_buffer_queue_) <= 1
  BY <1>2 DEF ShapeInv, Shape, Handling
<1>4. CASE ParseHeader
  <2>1. /\ HeaderTake \in 1..buffer_size /\ HeaderTake \in Nat
        /\ Input.offset + HeaderTake <= Input.size /\ HeaderResult = "None"
        /\ Consume(HeaderTake, buffer_refcounts_, HeaderResult)
    BY <1>4, HeaderStep, ParseResults
  <2>2. /\ buffer_refcounts_' = buffer_refcounts_
        /\ Finishes(Input, HeaderTake, HeaderResult) => input_buffer_queue_' = <<>>
        /\ ~Finishes(Input, HeaderTake, HeaderResult) =>
              input_buffer_queue_' = <<Advanced(Input, HeaderTake)>>
        /\ Finishes(Input, HeaderTake, HeaderResult) /\ buffer_refcounts_[Input.bid] = 0
              => br_' = Append(br_, Input.bid) /\ used_buffers_' = used_buffers_ - 1
        /\ ~(Finishes(Input, HeaderTake, HeaderResult) /\ buffer_refcounts_[Input.bid] = 0)
              => br_' = br_ /\ used_buffers_' = used_buffers_
    BY <1>1, <1>2, <1>3, <2>1, ConsumeFacts DEF Input
  <2> QED BY <1>2, <2>1, <2>2 DEF Finishes
<1>5. CASE ParsePayload
  <2>1. /\ PayloadTake \in 1..buffer_size /\ PayloadTake \in Nat
        /\ Input.offset + PayloadTake <= Input.size /\ PayloadResult = "None"
        /\ Referenced(Input.bid) \in [Bids -> Int]
        /\ Consume(PayloadTake, Referenced(Input.bid), PayloadResult)
    BY <1>5, PayloadStep, ParseResults
  <2> DEFINE refcounts == Referenced(Input.bid)
  <2>2. /\ buffer_refcounts_' = refcounts
        /\ Finishes(Input, PayloadTake, PayloadResult) => input_buffer_queue_' = <<>>
        /\ ~Finishes(Input, PayloadTake, PayloadResult) =>
              input_buffer_queue_' = <<Advanced(Input, PayloadTake)>>
        /\ Finishes(Input, PayloadTake, PayloadResult) /\ refcounts[Input.bid] = 0
              => br_' = Append(br_, Input.bid) /\ used_buffers_' = used_buffers_ - 1
        /\ ~(Finishes(Input, PayloadTake, PayloadResult) /\ refcounts[Input.bid] = 0)
              => br_' = br_ /\ used_buffers_' = used_buffers_
    BY <1>1, <1>2, <1>3, <2>1, ConsumeFacts DEF Input
  <2> HIDE DEF refcounts
  <2>3. buffer_refcounts_' = Referenced(Input.bid)
    BY <2>2 DEF refcounts
  <2> QED BY <1>2, <2>1, <2>2, <2>3 DEF Finishes
<1> QED BY <1>4, <1>5

\* References are never negative, and a held buffer without a chunk has some.
RefsNat == \A bid \in Bids : buffer_refcounts_[bid] \in Nat

\* Exact reference counts are natural numbers.
LEMMA RefsNatural == ShapeInv /\ RefsExact => RefsNat
<1> SUFFICES ASSUME ShapeInv, RefsExact, NEW bid \in Bids PROVE buffer_refcounts_[bid] \in Nat
  BY DEF RefsNat
<1>1. BidsShape
  BY QueueBidsFacts DEF ShapeInv
<1>2. Occurrences(frame_.bid, bid) \in Nat /\ Occurrences(FlattenSeq(QueueBids), bid) \in Nat
  BY <1>1 DEF BidsShape
<1> QED BY <1>2 DEF RefsExact

\* An iteration of the parser keeps the ownership: the chunk's buffer is held
\* until it is parsed and no segment lies in it.
LEMMA ParseOwning ==
    ASSUME ShapeInv, ShapeInv', Running', RefsNat, RefsNat', Owning,
           ParseHeader \/ ParsePayload
    PROVE  Owning'
<1>1. /\ Running /\ input_buffer_queue_ # <<>> /\ UNCHANGED cq
      /\ \/ buffer_refcounts_' = buffer_refcounts_
         \/ buffer_refcounts_' = Referenced(Input.bid)
  BY ParsedBuffers
<1>2. PICK take \in 1..buffer_size :
        /\ Input.offset + take <= Input.size
        /\ Input.offset + take = Input.size => input_buffer_queue_' = <<>>
        /\ Input.offset + take # Input.size => input_buffer_queue_' = <<Advanced(Input, take)>>
        /\ Input.offset + take = Input.size /\ buffer_refcounts_'[Input.bid] = 0
              => br_' = Append(br_, Input.bid) /\ used_buffers_' = used_buffers_ - 1
        /\ ~(Input.offset + take = Input.size /\ buffer_refcounts_'[Input.bid] = 0)
              => br_' = br_ /\ used_buffers_' = used_buffers_
  BY ParsedBuffers
<1>3. /\ Input.bid \in Bids /\ Input.offset \in Nat /\ Input.size \in Nat /\ take \in Nat
      /\ take >= 1 /\ Input.size <= buffer_size
  BY <1>1, <1>2, InputFacts, ReceiverAssumption DEF Chunks
<1>4. /\ Types /\ Types' /\ buffer_refcounts_ \in [Bids -> Int]
      /\ \A b \in Bids : buffer_refcounts_[b] \in Nat /\ buffer_refcounts_'[b] \in Nat
  BY DEF ShapeInv, Types, RefsNat, Bids
<1>5. /\ \A b \in Bids : b # Input.bid => buffer_refcounts_'[b] = buffer_refcounts_[b]
      /\ buffer_refcounts_'[Input.bid] \in
            {buffer_refcounts_[Input.bid], buffer_refcounts_[Input.bid] + 1}
  BY <1>1, <1>3, <1>4 DEF Referenced
<1>6. HeldShape /\ HeldShape'
  <2>1. HeldShape'
    BY HeldFacts, PTL
  <2> QED BY <1>1, <2>1, HeldFacts
<1>7. Held = Referred \cup {Input.bid}
  BY <1>1, <1>6 DEF HeldShape
<1>8. Bounded'
  <2>1. buffer_refcounts_[Input.bid] <= Input.offset
    BY <1>1 DEF Owning, Bounded
  <2>2. buffer_refcounts_'[Input.bid] <= Input.offset + take
    BY <1>3, <1>4, <1>5, <2>1
  <2>3. \A b \in Bids : buffer_refcounts_'[b] \in 0..buffer_size
    <3> SUFFICES ASSUME NEW b \in Bids PROVE buffer_refcounts_'[b] \in 0..buffer_size
      OBVIOUS
    <3>1. CASE b = Input.bid
      BY <1>2, <1>3, <1>4, <2>2, <3>1, ReceiverAssumption
    <3>2. CASE b # Input.bid
      BY <1>5, <3>2 DEF Owning, Bounded
    <3> QED BY <3>1, <3>2
  <2>4. ASSUME input_buffer_queue_' # <<>> PROVE buffer_refcounts_'[Input'.bid] <= Input'.offset
    <3> DEFINE chunk == Advanced(Input, take)
    <3>1. input_buffer_queue_' = <<chunk>>
      BY <1>2, <2>4
    <3>2. chunk.bid = Input.bid /\ chunk.offset = Input.offset + take
      BY DEF Advanced
    <3> HIDE DEF chunk
    <3>3. Input' = chunk
      BY <3>1 DEF Input
    <3> QED BY <2>2, <3>2, <3>3
  <2> QED BY <2>3, <2>4 DEF Bounded, Bids
<1>9. CASE Input.offset + take = Input.size /\ buffer_refcounts_'[Input.bid] = 0
  <2>1. /\ br_' = Append(br_, Input.bid) /\ used_buffers_' = used_buffers_ - 1
        /\ input_buffer_queue_' = <<>>
    BY <1>2, <1>9
  <2>2. Held' = Referred'
    BY <1>6, <2>1 DEF HeldShape
  <2>3. Held' = Held \ {Input.bid} /\ Input.bid \in Held
    <3>1. Referred' = Referred \ {Input.bid}
      BY <1>3, <1>4, <1>5, <1>9 DEF Referred, Bids
    <3> QED BY <1>7, <2>2, <3>1
  <2>4. /\ Cardinality(Held') = Cardinality(Held) - 1
        /\ \A b : HeldOnce(b) = HeldOnce(b)' + (IF Input.bid = b THEN 1 ELSE 0)
    BY <1>3, <1>6, <2>3, HeldLess
  <2>5. OneOwner'
    <3> SUFFICES ASSUME NEW b \in Bids
                 PROVE  Occurrences(br_', b) + Occurrences(CqBids', b) + HeldOnce(b)' = 1
      BY DEF OneOwner, Bids
    <3> DEFINE one == IF Input.bid = b THEN 1 ELSE 0
    <3>1. Occurrences(br_, b) + Occurrences(CqBids, b) + HeldOnce(b) = 1
      BY DEF Owning, OneOwner
    <3>2. Occurrences(br_', b) = Occurrences(br_, b) + one
      BY <1>3, <1>4, <2>1, BidReturned
    <3>3. CqBids' = CqBids
      BY <1>1 DEF CqBids
    <3>4. HeldOnce(b) = HeldOnce(b)' + one
      BY <2>4
    <3>5. one \in {0, 1} /\ HeldOnce(b)' \in {0, 1}
      BY DEF HeldOnce
    <3>6. Occurrences(br_, b) \in Nat /\ Occurrences(CqBids, b) \in Nat
      BY <1>4, OwnerTypes
    <3> HIDE DEF one
    <3> QED BY <3>1, <3>2, <3>3, <3>4, <3>5, <3>6
  <2>6. Counted'
    BY <2>1, <2>4 DEF Counted, Owning
  <2> QED BY <1>8, <2>5, <2>6 DEF Owning
<1>10. CASE ~(Input.offset + take = Input.size /\ buffer_refcounts_'[Input.bid] = 0)
  <2>1. br_' = br_ /\ used_buffers_' = used_buffers_
    BY <1>2, <1>10
  <2>2. Held' = Held
    <3>1. Referred' \cup {Input.bid} = Referred \cup {Input.bid}
      BY <1>3, <1>4, <1>5 DEF Referred, Bids
    <3>2. CASE Input.offset + take = Input.size
      <4>1. Held' = Referred'
        BY <1>2, <1>6, <3>2 DEF HeldShape
      <4>2. Input.bid \in Referred'
        BY <1>3, <1>4, <1>10, <3>2 DEF Referred, Bids
      <4> QED BY <1>7, <3>1, <4>1, <4>2
    <3>3. CASE Input.offset + take # Input.size
      <4> DEFINE chunk == Advanced(Input, take)
      <4>1. input_buffer_queue_' = <<chunk>>
        BY <1>2, <3>3
      <4>2. chunk.bid = Input.bid
        BY DEF Advanced
      <4> HIDE DEF chunk
      <4>3. Input' = chunk /\ input_buffer_queue_' # <<>>
        BY <4>1 DEF Input
      <4>4. Held' = Referred' \cup {Input.bid}
        BY <1>6, <4>2, <4>3 DEF HeldShape
      <4> QED BY <1>7, <3>1, <4>4
    <3> QED BY <3>2, <3>3
  <2>3. CqBids' = CqBids
    BY <1>1 DEF CqBids
  <2>4. OneOwner' /\ Counted'
    BY <2>1, <2>2, <2>3 DEF Owning, OneOwner, Counted, HeldOnce, Bids
  <2> QED BY <1>8, <2>4 DEF Owning
<1> QED BY <1>9, <1>10

\* An iteration of the release loop of handle_write_cqe_ keeps it: the buffer
\* that goes back is one that no frame refers to any more.
LEMMA ReleaseOwning ==
    ASSUME ShapeInv, ShapeInv', Running', RefsNat, RefsNat', Owning, ReleaseBuffer
    PROVE  Owning'
<1> DEFINE ref == Head(output_frame_queue_).bid[released + 1]
           unused == buffer_refcounts_'[ref] <= 0
<1>1. /\ Running /\ UNCHANGED <<cq, input_buffer_queue_>> /\ cqe_.type = "WRITE"
      /\ output_frame_queue_ # <<>> /\ released < Len(Head(output_frame_queue_).bid)
      /\ buffer_refcounts_' = [buffer_refcounts_ EXCEPT ![ref] = @ - 1]
      /\ br_' = IF unused THEN Append(br_, ref) ELSE br_
      /\ used_buffers_' = used_buffers_ - (IF unused THEN 1 ELSE 0)
  BY DEF ReleaseBuffer, Releases, Running, ShapeInv, Shape, Writing, LastReference, return_buffer
<1>2. /\ Types /\ Types' /\ buffer_refcounts_ \in [Bids -> Int] /\ used_buffers_ \in Int
      /\ \A b \in Bids : buffer_refcounts_[b] \in Nat /\ buffer_refcounts_'[b] \in Nat
  BY DEF ShapeInv, Types, RefsNat, Bids
<1>3. ref \in Bids
  <2> DEFINE bids == Head(output_frame_queue_).bid
  <2>1. bids \in Seq(Bids) /\ released \in Nat /\ released < Len(bids)
    BY <1>1, <1>2, HeadFacts DEF Types
  <2> HIDE DEF bids
  <2>2. released + 1 \in 1..Len(bids)
    BY <2>1
  <2>3. bids[released + 1] \in Bids
    BY <2>1, <2>2
  <2> QED BY <2>3 DEF bids
<1> HIDE DEF ref
<1>4. input_buffer_queue_ = <<>> /\ input_buffer_queue_' = <<>>
  BY <1>1 DEF ShapeInv, Shape, Handling
<1>5. /\ buffer_refcounts_'[ref] = buffer_refcounts_[ref] - 1
      /\ \A b \in Bids : b # ref => buffer_refcounts_'[b] = buffer_refcounts_[b]
  BY <1>1, <1>2, <1>3
<1>6. HeldShape /\ HeldShape'
  <2>1. HeldShape'
    BY HeldFacts, PTL
  <2> QED BY <1>1, <2>1, HeldFacts
<1>7. Held = Referred /\ Held' = Referred' /\ ref \in Held
  <2>1. Held = Referred /\ Held' = Referred'
    BY <1>4, <1>6 DEF HeldShape
  <2>2. buffer_refcounts_[ref] > 0
    BY <1>2, <1>3, <1>5
  <2> QED BY <1>3, <2>1, <2>2 DEF Referred
<1>8. CqBids' = CqBids
  BY <1>1 DEF CqBids
<1>9. Bounded'
  <2> SUFFICES ASSUME NEW b \in Bids PROVE buffer_refcounts_'[b] \in 0..buffer_size
    BY <1>4 DEF Bounded, Bids
  <2>1. buffer_refcounts_[b] \in 0..buffer_size
    BY DEF Owning, Bounded
  <2>2. buffer_refcounts_'[b] \in Nat /\ buffer_refcounts_'[b] <= buffer_refcounts_[b]
    BY <1>2, <1>3, <1>5
  <2> QED BY <2>1, <2>2, ReceiverAssumption
<1>10. CASE unused
  <2>1. br_' = Append(br_, ref) /\ used_buffers_' = used_buffers_ - 1
    BY <1>1, <1>10
  <2>2. Held' = Held \ {ref}
    BY <1>2, <1>3, <1>5, <1>7, <1>10 DEF Referred, Bids
  <2>3. /\ Cardinality(Held') = Cardinality(Held) - 1
        /\ \A b : HeldOnce(b) = HeldOnce(b)' + (IF ref = b THEN 1 ELSE 0)
    BY <1>3, <1>6, <1>7, <2>2, HeldLess
  <2>4. OneOwner'
    <3> SUFFICES ASSUME NEW b \in Bids
                 PROVE  Occurrences(br_', b) + Occurrences(CqBids', b) + HeldOnce(b)' = 1
      BY DEF OneOwner, Bids
    <3> DEFINE one == IF ref = b THEN 1 ELSE 0
    <3>1. Occurrences(br_, b) + Occurrences(CqBids, b) + HeldOnce(b) = 1
      BY DEF Owning, OneOwner
    <3>2. Occurrences(br_', b) = Occurrences(br_, b) + one
      BY <1>2, <1>3, <2>1, BidReturned
    <3>3. HeldOnce(b) = HeldOnce(b)' + one
      BY <2>3
    <3>4. one \in {0, 1} /\ HeldOnce(b)' \in {0, 1}
      BY DEF HeldOnce
    <3>5. Occurrences(br_, b) \in Nat /\ Occurrences(CqBids, b) \in Nat
      BY <1>2, OwnerTypes
    <3> HIDE DEF one
    <3> QED BY <1>8, <3>1, <3>2, <3>3, <3>4, <3>5
  <2>5. Counted'
    BY <2>1, <2>3 DEF Counted, Owning
  <2> QED BY <1>9, <2>4, <2>5 DEF Owning
<1>11. CASE ~unused
  <2>1. br_' = br_ /\ used_buffers_' = used_buffers_
    BY <1>1, <1>2, <1>11
  <2>2. Held' = Held
    BY <1>2, <1>3, <1>5, <1>7, <1>11 DEF Referred, Bids
  <2>3. OneOwner' /\ Counted'
    BY <1>8, <2>1, <2>2 DEF Owning, OneOwner, Counted, HeldOnce, Bids
  <2> QED BY <1>9, <2>3 DEF Owning
<1> QED BY <1>10, <1>11

\* A filled buffer is held from when handle_recv_cqe_ queues its chunk.
LEMMA ChunkOwning ==
    ASSUME ShapeInv, ShapeInv', Running', RefsNat, Owning, RecvChunk
    PROVE  Owning'
<1> DEFINE chunk == [bid |-> Head(cq).bid, size |-> Head(cq).result, offset |-> 0]
<1>1. /\ Handles("RECV") /\ ok(Head(cq)) /\ Head(cq).result # 0 /\ Head(cq).bid # NoBid
      /\ input_buffer_queue_' = Append(input_buffer_queue_, chunk)
      /\ used_buffers_' = used_buffers_ + 1
      /\ UNCHANGED <<buffer_refcounts_, br_>>
  BY DEF RecvChunk
<1>2. Types /\ Types' /\ buffer_refcounts_ \in [Bids -> Int] /\ used_buffers_ \in Int
  BY DEF ShapeInv, Types
<1>3. Running /\ cqe_ = idle /\ cq # <<>> /\ cq' = Tail(cq) /\ Head(cq) \in Cqes
      /\ Head(cq).type = "RECV"
  BY <1>1, <1>2, HandlesFacts
<1>4. Head(cq).bid \in Bids
  BY <1>1, <1>3, CqeFacts
<1>5. input_buffer_queue_ = <<>>
  BY <1>3 DEF ShapeInv, Shape, Handling, idle, Cqe
<1>6. chunk.bid = Head(cq).bid /\ chunk.offset = 0
  OBVIOUS
<1> HIDE DEF chunk
<1>7. input_buffer_queue_' = <<chunk>> /\ input_buffer_queue_' # <<>> /\ Input' = chunk
  BY <1>1, <1>5 DEF Input
<1>8. HeldShape /\ HeldShape'
  <2>1. HeldShape'
    BY HeldFacts, PTL
  <2> QED BY <1>3, <2>1, HeldFacts
<1>9. Held = Referred /\ Held' = Referred \cup {Head(cq).bid}
  <2>1. Referred' = Referred
    BY <1>1 DEF Referred, Bids
  <2> QED BY <1>5, <1>6, <1>7, <1>8, <2>1 DEF HeldShape
<1>10. \A b \in Bids :
          /\ Occurrences(br_, b) + Occurrences(CqBids, b) + HeldOnce(b) = 1
          /\ Occurrences(CqBids, b)
               = (IF Head(cq).bid = b THEN 1 ELSE 0) + Occurrences(CqBids', b)
          /\ Occurrences(br_, b) \in Nat /\ Occurrences(CqBids', b) \in Nat
          /\ HeldOnce(b) \in {0, 1}
  <2>1. \A b : Occurrences(CqBids, b) = (IF Head(cq).bid = b THEN 1 ELSE 0)
                                          + Occurrences(CqBids', b)
    BY <1>2, <1>3, BidTaken
  <2>2. \A b : Occurrences(CqBids', b) \in Nat
    <3>1. CqBidsTyped'
      BY <1>2, CqBidsType, PTL
    <3> QED BY <3>1, OccursNat DEF CqBidsTyped
  <2> QED BY <1>2, <2>1, <2>2, OwnerTypes DEF Owning, OneOwner
<1>11. Head(cq).bid \notin Held
  <2>1. HeldOnce(Head(cq).bid) = 0
    BY <1>4, <1>10
  <2> QED BY <2>1 DEF HeldOnce
<1>12. /\ Cardinality(Held') = Cardinality(Held) + 1
       /\ \A b : HeldOnce(b)' = HeldOnce(b) + (IF Head(cq).bid = b THEN 1 ELSE 0)
  <2>1. Held' = Held \cup {Head(cq).bid}
    BY <1>9
  <2> QED BY <1>4, <1>8, <1>11, <2>1, HeldMore
<1>13. OneOwner'
  <2> SUFFICES ASSUME NEW b \in Bids
               PROVE  Occurrences(br_', b) + Occurrences(CqBids', b) + HeldOnce(b)' = 1
    BY DEF OneOwner, Bids
  <2> DEFINE one == IF Head(cq).bid = b THEN 1 ELSE 0
  <2>1. /\ Occurrences(br_, b) + Occurrences(CqBids, b) + HeldOnce(b) = 1
        /\ Occurrences(CqBids, b) = one + Occurrences(CqBids', b)
        /\ Occurrences(br_, b) \in Nat /\ Occurrences(CqBids', b) \in Nat
        /\ HeldOnce(b) \in {0, 1} /\ HeldOnce(b)' = HeldOnce(b) + one
    BY <1>10, <1>12
  <2>2. one \in {0, 1} /\ br_' = br_
    BY <1>1
  <2> HIDE DEF one
  <2> QED BY <2>1, <2>2
<1>14. Counted'
  BY <1>1, <1>12 DEF Counted, Owning
<1>15. Bounded'
  <2>1. buffer_refcounts_[Head(cq).bid] = 0
    BY <1>4, <1>9, <1>11 DEF Referred, RefsNat
  <2> QED BY <1>1, <1>6, <1>7, <2>1 DEF Owning, Bounded, Bids
<1> QED BY <1>13, <1>14, <1>15 DEF Owning

\* The kernel fills the first free buffer.
LEMMA FillOwning ==
    ASSUME ShapeInv, Owning, NEW n \in 1..buffer_size, NEW more \in BOOLEAN,
           KernelRecv(n, more)
    PROVE  Owning'
<1> DEFINE cqe == Cqe("RECV", n, Head(br_), more)
<1>1. Types /\ br_ # <<>> /\ br_' = Tail(br_) /\ Head(br_) \in Bids
      /\ cqe \in RecvCqes /\ cq' = Append(cq, cqe)
      /\ UNCHANGED <<buffer_refcounts_, input_buffer_queue_, used_buffers_>>
  BY KernelRecvFacts DEF ShapeInv, own_vars
<1>2. cqe \in Cqes /\ cqe.bid = Head(br_)
  BY <1>1 DEF Cqes, Cqe
<1> HIDE DEF cqe
<1>3. OneOwner'
  <2> SUFFICES ASSUME NEW b \in Bids
               PROVE  Occurrences(br_', b) + Occurrences(CqBids', b) + HeldOnce(b)' = 1
    BY DEF OneOwner, Bids
  <2> DEFINE one == IF Head(br_) = b THEN 1 ELSE 0
  <2>1. Occurrences(br_, b) + Occurrences(CqBids, b) + HeldOnce(b) = 1
    BY DEF Owning, OneOwner
  <2>2. Occurrences(br_, b) = one + Occurrences(br_', b)
    BY <1>1, BidFilled
  <2>3. Occurrences(CqBids', b) = Occurrences(CqBids, b) + one
    BY <1>1, <1>2, BidPosted
  <2>4. HeldOnce(b)' = HeldOnce(b) /\ HeldOnce(b) \in {0, 1}
    BY <1>1 DEF HeldOnce, Held, Bids
  <2>5. Occurrences(br_', b) \in Nat
    <3>1. br_' \in Seq(Bids)
      BY <1>1, TailFacts DEF Types
    <3> QED BY <3>1, OccursNat
  <2>6. Occurrences(CqBids, b) \in Nat /\ one \in {0, 1}
    BY <1>1, OwnerTypes
  <2> HIDE DEF one
  <2> QED BY <2>1, <2>2, <2>3, <2>4, <2>5, <2>6
<1>4. Held' = Held /\ Input' = Input
  BY <1>1 DEF Held, Input, Bids
<1>5. Counted' /\ Bounded'
  BY <1>1, <1>4 DEF Counted, Bounded, Owning, Bids
<1> QED BY <1>3, <1>5 DEF Owning

\* Completions without a buffer change nothing.
LEMMA OtherOwning ==
    ASSUME Types, Types', Owning,
           UNCHANGED <<br_, buffer_refcounts_, input_buffer_queue_, used_buffers_>>,
           \/ UNCHANGED cq
           \/ cq # <<>> /\ cq' = Tail(cq) /\ Head(cq).bid = NoBid
           \/ \E cqe \in Cqes : cqe.bid = NoBid /\ cq' = Append(cq, cqe)
    PROVE  Owning'
<1>1. ASSUME NEW b \in Bids PROVE Occurrences(CqBids', b) = Occurrences(CqBids, b)
  <2>1. b # NoBid
    BY BidsFacts
  <2>2. CASE UNCHANGED cq
    BY <2>2 DEF CqBids
  <2>3. CASE cq # <<>> /\ cq' = Tail(cq) /\ Head(cq).bid = NoBid
    <3>1. Occurrences(CqBids, b)
            = (IF Head(cq).bid = b THEN 1 ELSE 0) + Occurrences(CqBids', b)
      BY <2>3, BidTaken
    <3>2. Occurrences(CqBids', b) \in Nat
      <4>1. CqBidsTyped'
        BY CqBidsType, PTL
      <4> QED BY <4>1, OccursNat DEF CqBidsTyped
    <3> QED BY <2>1, <2>3, <3>1, <3>2
  <2>4. ASSUME NEW cqe \in Cqes, cqe.bid = NoBid, cq' = Append(cq, cqe)
        PROVE  Occurrences(CqBids', b) = Occurrences(CqBids, b)
    <3>1. Occurrences(CqBids', b)
            = Occurrences(CqBids, b) + (IF cqe.bid = b THEN 1 ELSE 0)
      BY <2>4, BidPosted
    <3>2. Occurrences(CqBids, b) \in Nat
      BY OwnerTypes
    <3> QED BY <2>1, <2>4, <3>1, <3>2
  <2> QED BY <2>2, <2>3, <2>4
<1>2. Held' = Held /\ Input' = Input
  BY DEF Held, Input, Bids
<1>3. OneOwner'
  BY <1>1, <1>2 DEF Owning, OneOwner, HeldOnce, Bids
<1>4. Counted' /\ Bounded'
  BY <1>2 DEF Counted, Bounded, Owning, Bids
<1> QED BY <1>3, <1>4 DEF Owning

\* Every step keeps the ownership.
LEMMA NextOwning == OwnInv /\ [Next]_vars /\ Running' => Owning'
<1> SUFFICES ASSUME OwnInv, [Next]_vars, Running' PROVE Owning'
  OBVIOUS
<1>1. /\ ShapeInv /\ ShapeInv' /\ Types /\ Types' /\ (Running => Owning)
      /\ (Running => RefsExact) /\ RefsExact'
  BY NextShapeInv, NextRefsExact DEF OwnInv, RefsInv, ShapeInv
<1>2. RefsNat' /\ (Running => RefsNat)
  <2>1. RefsNat'
    BY <1>1, RefsNatural, PTL
  <2> QED BY <1>1, <2>1, RefsNatural
<1>3. CASE ParseHeader \/ ParsePayload
  BY <1>1, <1>2, <1>3, ParseOwning, ParsedBuffers
<1>4. CASE ReleaseBuffer
  BY <1>1, <1>2, <1>4, ReleaseOwning DEF ReleaseBuffer, Releases, Running
<1>5. CASE RecvChunk
  BY <1>1, <1>2, <1>5, ChunkOwning DEF RecvChunk, Handles, Running
<1>6. CASE RecvNoBuffers \/ WriteCompleted
  <2>1. PICK type \in {"RECV", "WRITE"} : Handles(type)
    BY <1>6 DEF RecvNoBuffers, WriteCompleted
  <2>2. Running /\ cq # <<>> /\ cq' = Tail(cq) /\ Head(cq) \in Cqes /\ Head(cq).type = type
    BY <1>1, <2>1, HandlesFacts
  <2>3. Head(cq).bid = NoBid
    <3>1. CASE RecvNoBuffers
      <4>1. Handles("RECV") /\ ~ok(Head(cq))
        BY <3>1 DEF RecvNoBuffers, OutOfBuffers, error, ENOBUFS
      <4>2. Head(cq) \in RecvEndCqes
        BY <1>1, <2>2, <4>1, HandlesFacts, CqeFacts
      <4> QED BY <4>2 DEF RecvEndCqes
    <3>2. CASE WriteCompleted
      <4>1. Handles("WRITE")
        BY <3>2 DEF WriteCompleted
      <4>2. Head(cq) \in WriteCqes
        BY <1>1, <2>2, <4>1, HandlesFacts, CqeFacts
      <4> QED BY <4>2 DEF WriteCqes
    <3> QED BY <1>6, <3>1, <3>2
  <2>4. UNCHANGED <<br_, buffer_refcounts_, input_buffer_queue_, used_buffers_>>
    BY <1>6 DEF RecvNoBuffers, WriteCompleted
  <2> QED BY <1>1, <2>2, <2>3, <2>4, OtherOwning
<1>7. CASE RecvDone \/ WriteDone
  <2>1. /\ Running
        /\ UNCHANGED <<cq, br_, buffer_refcounts_, input_buffer_queue_, used_buffers_>>
    BY <1>7 DEF RecvDone, Parsed, WriteDone, Released, Releases, Running
  <2> QED BY <1>1, <2>1, OtherOwning
<1>8. CASE \E n \in 1..buffer_size, more \in BOOLEAN : KernelRecv(n, more)
  BY <1>1, <1>8, FillOwning DEF KernelRecv, KernelStep, Running
<1>9. CASE KernelRecvNoBuffers \/ KernelRecvError \/ KernelPeerClosed
  <2>1. PICK result \in {-ENOBUFS, -EIO, 0} : EndRecv(result)
    BY <1>9 DEF KernelRecvNoBuffers, KernelRecvError, KernelPeerClosed
  <2>2. /\ Running /\ cq' = Append(cq, Cqe("RECV", result, NoBid, FALSE))
        /\ Cqe("RECV", result, NoBid, FALSE) \in RecvEndCqes
        /\ UNCHANGED <<br_, buffer_refcounts_, input_buffer_queue_, used_buffers_>>
    BY <1>1, <2>1, EndRecvFacts DEF own_vars
  <2>3. \E cqe \in Cqes : cqe.bid = NoBid /\ cq' = Append(cq, cqe)
    BY <2>2 DEF Cqes, Cqe
  <2> QED BY <1>1, <2>2, <2>3, OtherOwning
<1>10. CASE KernelWrite \/ KernelWriteError
  <2>1. Running /\ UNCHANGED <<br_, buffer_refcounts_, input_buffer_queue_, used_buffers_>>
    BY <1>1, <1>10, KernelWriteFacts DEF own_vars
  <2>2. PICK result \in Int : cq' = Append(cq, Cqe("WRITE", result, NoBid, FALSE))
    BY <1>1, <1>10, KernelWriteFacts
  <2>3. \E cqe \in Cqes : cqe.bid = NoBid /\ cq' = Append(cq, cqe)
    BY <2>2 DEF Cqes, Cqe, WriteCqes
  <2> QED BY <1>1, <2>1, <2>3, OtherOwning
<1>11. CASE UNCHANGED vars
  <2>1. /\ Running
        /\ UNCHANGED <<cq, br_, buffer_refcounts_, input_buffer_queue_, used_buffers_>>
    BY <1>11 DEF vars, own_vars, kernel_vars, Running
  <2> QED BY <1>1, <2>1, OtherOwning
<1> QED
  BY <1>1, <1>3, <1>4, <1>5, <1>6, <1>7, <1>8, <1>9, <1>10, <1>11, ParseResults
  DEF Next, Handle, Kernel

\* At the start all buffers belong to the kernel.
LEMMA InitOwning == Init => Owning
<1> SUFFICES ASSUME Init PROVE Owning
  OBVIOUS
<1>1. /\ br_ = [i \in 1..BufferCount |-> i - 1] /\ cq = <<>> /\ used_buffers_ = 0
      /\ buffer_refcounts_ = [bid \in Bids |-> 0] /\ input_buffer_queue_ = <<>>
  BY DEF Init, Created, create_buffer_group
<1>2. Held = {}
  BY <1>1 DEF Held
<1>3. CqBids = <<>>
  <2>1. CqBids \in Seq(Bids \cup {NoBid}) /\ Len(CqBids) = 0
    BY <1>1, InitTypes, CqBidsType DEF CqBidsTyped
  <2> QED BY <2>1, EmptyFacts
<1>4. ASSUME NEW bid \in Bids PROVE Occurrences(br_, bid) = 1
  <2>1. bid + 1 \in 1..BufferCount /\ bid \in Int
    BY ReceiverAssumption DEF Bids
  <2>2. {i \in DOMAIN br_ : br_[i] = bid} = {bid + 1}
    BY <1>1, <2>1
  <2> QED BY <2>2, FS_Singleton DEF Occurrences
<1>5. ASSUME NEW bid \in Bids PROVE HeldOnce(bid) = 0 /\ Occurrences(CqBids, bid) = 0
  BY <1>2, <1>3, OccursNone DEF HeldOnce
<1>6. OneOwner
  BY <1>4, <1>5 DEF OneOwner
<1>7. Counted
  BY <1>1, <1>2, FS_EmptySet DEF Counted
<1>8. Bounded
  BY <1>1, ReceiverAssumption DEF Bounded
<1> QED BY <1>6, <1>7, <1>8 DEF Owning

\* Every buffer has one owner in every behaviour.
LEMMA AlwaysOwnInv == Spec => []OwnInv
<1>1. Init => OwnInv
  BY InitShapeInv, InitRefsExact, InitOwning DEF OwnInv, RefsInv
<1>2. OwnInv /\ [Next]_vars => OwnInv'
  BY NextShapeInv, NextRefsExact, NextOwning DEF OwnInv, RefsInv
<1> QED BY <1>1, <1>2, PTL DEF Spec

\* The three places of a buffer, and what one owner means for them.
LEMMA OwnersDisjoint ==
    ASSUME Types, OneOwner
    PROVE  /\ Held \cup Free \cup {cq[i].bid : i \in Filled} = Bids
           /\ Held \cap Free = {} /\ Held \cap {cq[i].bid : i \in Filled} = {}
           /\ Free \cap {cq[i].bid : i \in Filled} = {}
           /\ \A i, j \in DOMAIN br_ : br_[i] = br_[j] => i = j
           /\ \A i, j \in Filled : cq[i].bid = cq[j].bid => i = j
<1> DEFINE FilledBids == {cq[i].bid : i \in Filled}
<1>1. /\ br_ \in Seq(Bids) /\ CqBids \in Seq(Bids \cup {NoBid}) /\ cq \in Seq(Cqes)
      /\ DOMAIN CqBids = DOMAIN cq
  BY OwnerTypes DEF Types
<1>2. ASSUME NEW i \in DOMAIN cq
      PROVE  /\ i \in Filled <=> CqBids[i] \in Bids
             /\ CqBids[i] = cq[i].bid
  <2>1. cq[i] \in Cqes /\ CqBids[i] = cq[i].bid
    BY <1>1, <1>2 DEF CqBids
  <2>2. cq[i].type = "WRITE" => cq[i].bid = NoBid
    BY <2>1, CqeFacts DEF WriteCqes
  <2>3. cq[i].type \in {"RECV", "WRITE"} /\ cq[i].bid \in Bids \cup {NoBid} /\ NoBid \notin Bids
    BY <2>1, CqeFacts, BidsFacts
  <2> QED BY <1>2, <2>1, <2>2, <2>3 DEF Filled
<1>3. ASSUME NEW bid \in Bids
      PROVE  /\ Occurrences(br_, bid) + Occurrences(CqBids, bid) + HeldOnce(bid) = 1
             /\ Occurrences(br_, bid) \in Nat /\ Occurrences(CqBids, bid) \in Nat
             /\ HeldOnce(bid) \in {0, 1} /\ (bid \in Held <=> HeldOnce(bid) = 1)
             /\ bid \in Free <=> Occurrences(br_, bid) # 0
             /\ bid \in FilledBids <=> Occurrences(CqBids, bid) # 0
  <2>1. bid \in Free <=> Occurrences(br_, bid) # 0
    BY <1>1, OccursNat DEF Free
  <2>2. bid \in FilledBids <=> Occurrences(CqBids, bid) # 0
    <3>1. Occurrences(CqBids, bid) = 0 <=> \A i \in DOMAIN CqBids : CqBids[i] # bid
      BY <1>1, OccursNat
    <3>2. Filled \subseteq DOMAIN cq
      BY DEF Filled
    <3> QED BY <1>1, <1>2, <1>3, <3>1, <3>2
  <2>3. Occurrences(br_, bid) + Occurrences(CqBids, bid) + HeldOnce(bid) = 1
    BY DEF OneOwner
  <2> HIDE DEF FilledBids
  <2> QED BY <2>1, <2>2, <2>3, OwnerTypes DEF HeldOnce
<1>4. Held \subseteq Bids /\ Free \subseteq Bids /\ FilledBids \subseteq Bids
  <2>1. FilledBids \subseteq Bids
    BY <1>2 DEF Filled
  <2>2. Free \subseteq Bids
    BY <1>1 DEF Free
  <2>3. Held \subseteq Bids
    <3>2. input_buffer_queue_ \in Seq(Chunks)
      BY DEF Types
    <3>3. \A i \in DOMAIN input_buffer_queue_ : input_buffer_queue_[i] \in Chunks
      BY <3>2
    <3>1. \A i \in DOMAIN input_buffer_queue_ : input_buffer_queue_[i].bid \in Bids
      BY <3>3 DEF Chunks
    <3> QED BY <3>1 DEF Held
  <2> QED BY <2>1, <2>2, <2>3
<1>5. \A i, j \in DOMAIN br_ : br_[i] = br_[j] => i = j
  <2> SUFFICES ASSUME NEW i \in DOMAIN br_, NEW j \in DOMAIN br_, br_[i] = br_[j] PROVE i = j
    OBVIOUS
  <2>1. br_[i] \in Bids
    BY <1>1
  <2>2. Occurrences(br_, br_[i]) <= 1
    BY <1>3, <2>1
  <2> QED BY <1>1, <2>2, OccursOnce
<1>6. \A i, j \in Filled : cq[i].bid = cq[j].bid => i = j
  <2> SUFFICES ASSUME NEW i \in Filled, NEW j \in Filled, cq[i].bid = cq[j].bid PROVE i = j
    OBVIOUS
  <2>1. i \in DOMAIN CqBids /\ j \in DOMAIN CqBids
    BY <1>1 DEF Filled
  <2>2. CqBids[i] \in Bids /\ CqBids[j] = CqBids[i]
    BY <1>1, <1>2, <2>1
  <2>3. Occurrences(CqBids, CqBids[i]) <= 1
    BY <1>3, <2>2
  <2> QED BY <1>1, <2>1, <2>2, <2>3, OccursOnce
<1> HIDE DEF FilledBids
<1>7. \A bid \in Bids : /\ bid \in Held \/ bid \in Free \/ bid \in FilledBids
                        /\ ~(bid \in Held /\ bid \in Free)
                        /\ ~(bid \in Held /\ bid \in FilledBids)
                        /\ ~(bid \in Free /\ bid \in FilledBids)
  <2> SUFFICES ASSUME NEW bid \in Bids
               PROVE  /\ bid \in Held \/ bid \in Free \/ bid \in FilledBids
                      /\ ~(bid \in Held /\ bid \in Free)
                      /\ ~(bid \in Held /\ bid \in FilledBids)
                      /\ ~(bid \in Free /\ bid \in FilledBids)
    OBVIOUS
  <2> QED BY <1>3
<1>8. /\ Held \cup Free \cup FilledBids = Bids
      /\ Held \cap Free = {} /\ Held \cap FilledBids = {} /\ Free \cap FilledBids = {}
  BY <1>4, <1>7
<1> QED BY <1>5, <1>6, <1>8 DEF FilledBids

\* One owner for every buffer, so the owners together have all of them.
LEMMA OwnersCover == OwnInv => BufferOwnership
<1> SUFFICES ASSUME OwnInv, Running
             PROVE  /\ Held \cup Free \cup {cq[i].bid : i \in Filled} = Bids
                    /\ Cardinality(Held) + Len(br_) + Cardinality(Filled) = BufferCount
                    /\ used_buffers_ = Cardinality(Held)
  BY DEF BufferOwnership
<1> DEFINE FilledBids == {cq[i].bid : i \in Filled}
           bidOf == [i \in Filled |-> cq[i].bid]
<1>1. Types /\ ShapeInv /\ OneOwner /\ Counted /\ HeldShape
  BY HeldFacts DEF OwnInv, RefsInv, ShapeInv, Owning
<1>2. /\ Held \cup Free \cup FilledBids = Bids
      /\ Held \cap Free = {} /\ Held \cap FilledBids = {} /\ Free \cap FilledBids = {}
      /\ \A i, j \in DOMAIN br_ : br_[i] = br_[j] => i = j
      /\ \A i, j \in Filled : cq[i].bid = cq[j].bid => i = j
  BY <1>1, OwnersDisjoint
<1>3. IsFiniteSet(Filled)
  <2>1. IsFiniteSet(DOMAIN cq)
    BY <1>1, PlacesCount DEF Types
  <2>2. Filled \subseteq DOMAIN cq
    BY DEF Filled
  <2> QED BY <2>1, <2>2, FS_Subset
<1>4. IsFiniteSet(Free) /\ Cardinality(Free) = Len(br_) /\ Len(br_) \in Nat
  <2>1. /\ br_ \in Seq(Bids) /\ Len(br_) \in Nat /\ DOMAIN br_ = 1..Len(br_)
        /\ br_ = [i \in DOMAIN br_ |-> br_[i]]
    BY <1>1 DEF Types
  <2>2. IsFiniteSet(DOMAIN br_) /\ Cardinality(DOMAIN br_) = Len(br_)
    BY <2>1, PlacesCount
  <2>3. IsFiniteSet({br_[i] : i \in DOMAIN br_})
        /\ Cardinality({br_[i] : i \in DOMAIN br_}) = Cardinality(DOMAIN br_)
    BY <1>2, <2>1, <2>2, ImageCount
  <2> QED BY <2>1, <2>2, <2>3 DEF Free
<1>5. IsFiniteSet(FilledBids) /\ Cardinality(FilledBids) = Cardinality(Filled)
  <2>1. \A i, j \in Filled : bidOf[i] = bidOf[j] => i = j
    BY <1>2
  <2>2. {bidOf[i] : i \in Filled} = FilledBids
    OBVIOUS
  <2>3. DOMAIN bidOf = Filled /\ bidOf = [i \in Filled |-> bidOf[i]]
    OBVIOUS
  <2> HIDE DEF bidOf, FilledBids
  <2>4. IsFiniteSet({bidOf[i] : i \in Filled})
        /\ Cardinality({bidOf[i] : i \in Filled}) = Cardinality(Filled)
    BY <1>3, <2>1, <2>3, ImageCount
  <2> QED BY <2>2, <2>4
<1> HIDE DEF FilledBids
<1>6. IsFiniteSet(Held) /\ Cardinality(Held) \in Nat
  BY <1>1, FS_CardinalityType DEF HeldShape
<1>7. IsFiniteSet(Held \cup Free)
      /\ Cardinality(Held \cup Free) = Cardinality(Held) + Len(br_)
  BY <1>2, <1>4, <1>6, DisjointCount
<1>8. Cardinality((Held \cup Free) \cup FilledBids)
        = Cardinality(Held \cup Free) + Cardinality(FilledBids)
  <2>1. (Held \cup Free) \cap FilledBids = {}
    BY <1>2
  <2> QED BY <1>5, <1>7, <2>1, DisjointCount
<1>9. Cardinality(Held) + Len(br_) + Cardinality(Filled) = BufferCount
  BY <1>2, <1>5, <1>7, <1>8, BidsFacts
<1> QED BY <1>1, <1>2, <1>9 DEF Counted, FilledBids

\* No buffer of the receiver's group is ever leaked, returned twice or refilled
\* while a chunk or a frame lies in it, and used_buffers_, by which
\* handle_write_cqe_ ends the cooldown, is the number of held ones.
THEOREM BuffersOwned == Spec => []BufferOwnership
  BY OwnersCover, AlwaysOwnInv, PTL

-----------------------------------------------------------------------------
(* The bounds of the counters *)

\* They hold after the session ended, too: what stops it adds at most one.
Bounds ==
    /\ \A bid \in Bids : buffer_refcounts_[bid] \in 0..buffer_size
    /\ used_buffers_ \in 0..(BufferCount + 1)

\* Every step keeps the queues within the number of buffers.
LEMMA NextBounds == OwnInv /\ Bounds /\ [Next]_vars => Bounds'
<1> SUFFICES ASSUME OwnInv, Bounds, [Next]_vars PROVE Bounds'
  OBVIOUS
<1>1. /\ ShapeInv /\ ShapeInv' /\ Types /\ (Running => Owning)
  BY NextShapeInv DEF OwnInv, RefsInv, ShapeInv
<1>2. CASE Running'
  <2>1. Owning' /\ HeldShape'
    <3>1. HeldShape'
      BY <1>1, <1>2, HeldFacts, PTL
    <3> QED BY <1>2, <3>1, NextOwning
  <2>2. used_buffers_' \in 0..BufferCount
    BY <2>1 DEF Owning, Counted, HeldShape
  <2> QED BY <2>1, <2>2, ReceiverAssumption DEF Owning, Bounded, Bounds, Bids
<1>3. CASE UNCHANGED <<buffer_refcounts_, used_buffers_>>
  BY <1>3 DEF Bounds, Bids
<1>4. ASSUME Running PROVE used_buffers_ \in 0..BufferCount
  BY <1>1, <1>4, HeldFacts DEF Owning, Counted, HeldShape
<1>5. CASE RecvFailed
  <2>1. /\ Running /\ buffer_refcounts_' = buffer_refcounts_
        /\ used_buffers_' = used_buffers_ + (IF ok(Head(cq)) THEN 1 ELSE 0)
    BY <1>5 DEF RecvFailed, Handles, Running
  <2>2. used_buffers_' \in 0..(BufferCount + 1)
    BY <1>4, <2>1, ReceiverAssumption
  <2> QED BY <2>1, <2>2 DEF Bounds, Bids
<1>6. ASSUME Running, input_buffer_queue_ # <<>>
      PROVE  \A bid \in Bids : Referenced(Input.bid)[bid] \in 0..buffer_size
  <2>1. /\ buffer_refcounts_[Input.bid] <= Input.offset /\ Input.offset < Input.size
        /\ Input.size \in 1..buffer_size /\ Input.offset \in Nat /\ Input.bid \in Bids
        /\ buffer_refcounts_ \in [Bids -> Int]
    <3>1. Input \in Chunks /\ Input.offset < Input.size /\ Input.offset \in Nat /\ Input.bid \in Bids
      BY <1>1, <1>6, InputFacts
    <3>2. Input.size \in 1..buffer_size
      BY <3>1 DEF Chunks
    <3>3. buffer_refcounts_[Input.bid] <= Input.offset
      BY <1>1, <1>6 DEF Owning, Bounded
    <3> QED BY <1>1, <3>1, <3>2, <3>3 DEF Types
  <2> SUFFICES ASSUME NEW bid \in Bids PROVE Referenced(Input.bid)[bid] \in 0..buffer_size
    OBVIOUS
  <2>2. buffer_refcounts_[bid] \in 0..buffer_size
    BY DEF Bounds
  <2>3. CASE bid = Input.bid
    <3>1. Referenced(Input.bid)[bid] = buffer_refcounts_[bid] + 1
      BY <2>1, <2>3 DEF Referenced
    <3> QED BY <2>1, <2>2, <2>3, <3>1, ReceiverAssumption
  <2>4. CASE bid # Input.bid
    <3>1. Referenced(Input.bid)[bid] = buffer_refcounts_[bid]
      BY <2>1, <2>4 DEF Referenced
    <3> QED BY <2>2, <3>1
  <2> QED BY <2>3, <2>4
<1>7. CASE ParseNoMemory
  <2>1. /\ Running /\ input_buffer_queue_ # <<>> /\ UNCHANGED used_buffers_
        /\ buffer_refcounts_' = Referenced(Input.bid)
    BY <1>7 DEF ParseNoMemory, Parses, Running, Input
  <2> QED BY <1>6, <2>1 DEF Bounds, Bids
<1>8. CASE (ParseHeader \/ ParsePayload) /\ ~Running'
  <2>1. /\ Running /\ input_buffer_queue_ # <<>>
        /\ \/ buffer_refcounts_' = buffer_refcounts_
           \/ buffer_refcounts_' = Referenced(Input.bid)
    BY <1>1, <1>8, HeaderStep, PayloadStep DEF Consume
  <2>2. used_buffers_' = used_buffers_
    <3>1. PICK take, refcounts, result : Consume(take, refcounts, result)
      BY <1>1, <1>8, HeaderStep, PayloadStep
    <3>2. result # "None"
      BY <1>8, <3>1 DEF Consume, Running
    <3>3. used_buffers_' = used_buffers_ - 0
      BY <3>1, <3>2 DEF Consume
    <3> QED BY <1>1, <3>3 DEF Types
  <2> QED BY <1>6, <2>1, <2>2 DEF Bounds, Bids
<1>9. CASE ReleaseBuffer
  BY <1>2, <1>9 DEF ReleaseBuffer, Releases, Running
<1>10. CASE RecvChunk
  BY <1>2, <1>10 DEF RecvChunk, Handles, Running
<1>11. CASE RecvNoBuffers \/ RecvDone \/ RecvRearmFailed \/ WriteCompleted \/ WriteDone
            \/ WriteRearmFailed
  BY <1>3, <1>11 DEF RecvNoBuffers, RecvDone, RecvRearmFailed, Parsed, WriteCompleted,
     WriteDone, WriteRearmFailed, Released
<1>12. CASE Kernel
  BY <1>3, <1>12 DEF Kernel, KernelRecv, KernelRecvNoBuffers, KernelRecvError, KernelPeerClosed,
     EndRecv, KernelWrite, KernelWriteError, KernelStep, own_vars
<1>13. CASE UNCHANGED vars
  BY <1>3, <1>13 DEF vars, own_vars
<1> QED
  BY <1>2, <1>5, <1>7, <1>8, <1>9, <1>10, <1>11, <1>12, <1>13 DEF Next, Handle

\* Every variable keeps its type and every counter its bounds, after the session
\* ended, too: a buffer never has more references than bytes, and kick_parse_
\* never counts more bytes than a header or a packet has.
THEOREM TypesAlways == Spec => []TypeOK
<1>1. Init => Bounds
  <2> SUFFICES ASSUME Init PROVE Bounds
    OBVIOUS
  <2>1. used_buffers_ = 0 /\ Bounded
    BY InitOwning DEF Init, Created, Owning
  <2> QED BY <2>1, ReceiverAssumption DEF Bounded, Bounds
<1>2. OwnInv /\ Bounds => TypeOK
  <2> SUFFICES ASSUME OwnInv, Bounds PROVE TypeOK
    OBVIOUS
  <2>1. Types
    BY DEF OwnInv, RefsInv, ShapeInv
  <2>2. cq \in Seq([type : {"RECV", "WRITE"}, result : Int,
                    bid : Bids \cup {NoBid}, more : BOOLEAN])
    <3> DEFINE T == [type : {"RECV", "WRITE"}, result : Int,
                     bid : Bids \cup {NoBid}, more : BOOLEAN]
    <3>1. RecvCqes \subseteq T
      <4>1. 1..buffer_size \subseteq Int
        BY ReceiverAssumption
      <4> QED BY <4>1, Zenon DEF RecvCqes
    <3>6. WriteCqes \subseteq T
      BY Zenon DEF WriteCqes
    <3>2. RecvEndCqes \subseteq T
      <4>1. {-ENOBUFS, -EIO, 0} \subseteq Int /\ {NoBid} \subseteq Bids \cup {NoBid}
            /\ {FALSE} \subseteq BOOLEAN
        BY DEF ENOBUFS, EIO
      <4> QED BY <4>1, Zenon DEF RecvEndCqes
    <3>3. Cqes \subseteq T
      BY <3>1, <3>2, <3>6 DEF Cqes
    <3>4. cq \in Seq(Cqes)
      BY <2>1 DEF Types
    <3> HIDE DEF T
    <3>5. cq \in Seq(T)
      BY <3>3, <3>4
    <3> QED BY <3>5 DEF T
  <2>3. cqe_.type \in {"NONE", "RECV", "WRITE"}
    <3>1. cqe_ = idle \/ cqe_ \in RecvCqes \/ cqe_ \in WriteCqes
      BY <2>1 DEF Types
    <3>2. idle.type = "NONE"
      BY DEF idle, Cqe
    <3> QED BY <3>1, <3>2 DEF RecvCqes, WriteCqes
  <2>4. buffer_refcounts_ \in [Bids -> 0..buffer_size]
    BY <2>1 DEF Types, Bounds
  <2>5. run_result \in Results
    BY <2>1 DEF Types
  <2>6. input_buffer_queue_ \in Seq([bid : Bids, size : 1..buffer_size,
                                    offset : 0..buffer_size])
    BY <2>1 DEF Types, Chunks
  <2>7. DOMAIN header_ = 1..wire_size /\ DOMAIN mem = Bids
    BY <2>1 DEF Types
  <2>8. used_buffers_ \in 0..(BufferCount + 1)
    BY DEF Bounds
  <2> QED BY <2>1, <2>2, <2>3, <2>4, <2>5, <2>6, <2>7, <2>8 DEF Types, TypeOK
<1>3. Init /\ [][Next]_vars => [](OwnInv /\ Bounds)
  <2>1. Init => OwnInv
    BY InitShapeInv, InitRefsExact, InitOwning DEF OwnInv, RefsInv
  <2>2. OwnInv /\ [Next]_vars => OwnInv'
    BY NextShapeInv, NextRefsExact, NextOwning DEF OwnInv, RefsInv
  <2> QED BY <1>1, <2>1, <2>2, NextBounds, PTL
<1> QED BY <1>2, <1>3, PTL DEF Spec


-----------------------------------------------------------------------------
(* The invariant *)

\* The frame that begins behind byte `from' of a stream.
HeaderAt(bytes, from) == SubSeq(bytes, from + 1, from + wire_size)
EndAt(bytes, from) == from + wire_size + get_size(HeaderAt(bytes, from))
PayloadAt(bytes, from) == SubSeq(bytes, from + wire_size + 1, EndAt(bytes, from))

\* A stream has a complete and valid frame at a byte.
HasFrame(bytes, from) ==
    /\ from \in Nat /\ from + wire_size <= Len(bytes)
    /\ is_magic_valid(HeaderAt(bytes, from))
    /\ get_size(HeaderAt(bytes, from)) \in 1..mtu
    /\ EndAt(bytes, from) <= Len(bytes)
    /\ crc32c(PayloadAt(bytes, from)) = get_crc(HeaderAt(bytes, from))

\* Iov, of given buffers.
IovIn(segments, memory) ==
    FlattenSeq([i \in DOMAIN segments |->
                   SubSeq(memory[segments[i].base], segments[i].from + 1,
                          segments[i].from + segments[i].len)])

\* What the stream means as a whole, and from a byte on.
Packets == Decode(wire, mtu).packets
Rest(start) == Decoded(wire, mtu)[start]

\* Whether the oldest queued frame is written, but not dropped yet.
SomeDone == \E i \in WriteDones : ok(cq[i])
WrittenHead == IF cqe_.type = "WRITE" \/ SomeDone THEN 1 ELSE 0

\* How many frames were parsed completely.
FramesParsed == Len(tun_tx) - WrittenHead + Len(output_frame_queue_)

Written ==
    /\ Len(tun_tx) <= Len(Packets)
    /\ \A i \in 1..Len(tun_tx) : tun_tx[i] = Packets[i]

\* The queued frames are the next packets, except for the one whose buffers are
\* being released.
Queued ==
    \A i \in 1..Len(output_frame_queue_) :
        (cqe_.type = "WRITE" => i # 1)
          => IovIn(output_frame_queue_[i].segments, mem)
               = Packets[Len(tun_tx) - WrittenHead + i]

\* A completed WRITE tells the size of the packet it wrote.
Answered ==
    \A i \in WriteDones :
        ok(cq[i]) => /\ Len(tun_tx) >= 1
                     /\ cq[i].result = Len(tun_tx[Len(tun_tx)])

\* The parser went over that many frames, from the beginning of the stream to byte
\* `start'; b[k] is where frame k + 1 begins.
Walks(b, parsed) ==
    /\ b[0] = 0
    /\ \A k \in 0..(parsed - 1) : HasFrame(wire, b[k]) /\ b[k + 1] = EndAt(wire, b[k])
Passed(start, parsed) == \E b : Walks(b, parsed) /\ b[parsed] = start

\* Bytes of the frame that begins at `start' that were parsed, and where the
\* parser is in the stream.
HeaderParsed == IF state_ = "PARSING_HEADER" THEN header_progress_ ELSE wire_size
Position(start) == start + HeaderParsed + payload_progress_

\* Bytes of the current chunk, and of the chunks behind it, not parsed yet.
Unparsed == IF input_buffer_queue_ = <<>> THEN 0 ELSE Input.size - Input.offset
ChunkIn(cqe, memory) == IF Brings(cqe) THEN SubSeq(memory[cqe.bid], 1, cqe.result) ELSE <<>>
WaitingIn(queue, memory) == FlattenSeq([i \in DOMAIN queue |-> ChunkIn(queue[i], memory)])
Waiting == WaitingIn(cq, mem)

HeaderRead(start) ==
    /\ \A k \in 1..HeaderParsed : header_[k] = wire[start + k]
    /\ state_ = "PARSING_PAYLOAD" => is_magic_valid(header_)

PayloadRead(start) ==
    state_ = "PARSING_PAYLOAD" =>
        IovIn(frame_.segments, mem)
          = SubSeq(wire, start + wire_size + 1, start + wire_size + payload_progress_)

ChunkRead(start) ==
    \A k \in 1..Unparsed : mem[Input.bid][Input.offset + k] = wire[Position(start) + k]

WaitingRead(start) ==
    /\ Position(start) + Unparsed <= pos
    /\ Waiting = SubSeq(wire, Position(start) + Unparsed + 1, pos)

\* The parser is inside the frame that begins at `start'.
ParsesFrom(start) ==
    /\ HeaderRead(start) /\ PayloadRead(start) /\ ChunkRead(start) /\ WaitingRead(start)

Output == Written /\ Queued /\ Answered

Following ==
    /\ Output
    /\ \E start \in 0..Len(wire) : Passed(start, FramesParsed) /\ ParsesFrom(start)

StreamInv == OwnInv /\ WrittenInOrder /\ NoSpuriousError /\ (Running => Following)

-----------------------------------------------------------------------------
(* Decoding *)

\* One frame of Decode: what a stream means from a byte on, when `at' says what
\* it means from the bytes behind.
Stop(reason) == [packets |-> <<>>, error |-> reason]

DecodeStep(at, bytes, from) ==
    IF from + wire_size > Len(bytes) THEN Stop("None")
    ELSE IF ~is_magic_valid(HeaderAt(bytes, from)) THEN Stop("InvalidMagic")
    ELSE IF get_size(HeaderAt(bytes, from)) \notin 1..mtu THEN Stop("InvalidSize")
    ELSE IF EndAt(bytes, from) > Len(bytes) THEN Stop("None")
    ELSE IF crc32c(PayloadAt(bytes, from)) # get_crc(HeaderAt(bytes, from))
         THEN Stop("FrameCrcMismatch")
    ELSE [packets |-> <<PayloadAt(bytes, from)>> \o at[EndAt(bytes, from)].packets,
          error |-> at[EndAt(bytes, from)].error]

\* `at' is right from a byte on.
Decodes(at, bytes, low) == at = [from \in low..Len(bytes) |-> DecodeStep(at, bytes, from)]

\* A frame has more bytes than none.
LEMMA EndFacts ==
    ASSUME NEW bytes \in Seq(Bytes), NEW from \in Nat, from + wire_size <= Len(bytes)
    PROVE  /\ HeaderAt(bytes, from) \in [1..wire_size -> Bytes]
           /\ \A k \in 1..wire_size : HeaderAt(bytes, from)[k] = bytes[from + k]
           /\ get_size(HeaderAt(bytes, from)) \in Nat
           /\ EndAt(bytes, from) \in Nat /\ EndAt(bytes, from) > from
           /\ EndAt(bytes, from) >= from + wire_size
<1> DEFINE b == from + wire_size
           h == SubSeq(bytes, from + 1, b)
<1>1. wire_size \in Nat /\ wire_size > 0 /\ b \in Nat /\ b - from = wire_size /\ from <= b
  BY WireSizeAssumption
<1>2. h \in Seq(Bytes) /\ Len(h) = wire_size /\ \A k \in 1..wire_size : h[k] = bytes[from + k]
  <2>1. h \in Seq(Bytes) /\ Len(h) = b - from /\ \A k \in 1..(b - from) : h[k] = bytes[from + k]
    <3>1. from \in Nat /\ b \in Nat /\ from <= b /\ b <= Len(bytes)
      BY <1>1
    <3> HIDE DEF b
    <3> QED BY <3>1, SliceFacts
  <2> QED BY <1>1, <2>1
<1> HIDE DEF h, b
<1>3. h \in [1..wire_size -> Bytes]
  BY <1>2
<1>4. get_size(h) \in Nat
  BY <1>3, HeaderFacts
<1>5. HeaderAt(bytes, from) = h
  BY DEF HeaderAt, h, b
<1> QED BY <1>1, <1>2, <1>3, <1>4, <1>5 DEF EndAt, b

\* The decoding from a byte on depends on what is behind only.
LEMMA DecodeStepSame ==
    ASSUME NEW bytes \in Seq(Bytes), NEW from \in Nat, NEW f, NEW g,
           \A x \in (from + 1)..Len(bytes) : f[x] = g[x]
    PROVE  DecodeStep(f, bytes, from) = DecodeStep(g, bytes, from)
<1>1. CASE from + wire_size > Len(bytes)
  BY <1>1 DEF DecodeStep
<1>2. CASE ~(from + wire_size > Len(bytes)) /\ EndAt(bytes, from) > Len(bytes)
  BY <1>2 DEF DecodeStep
<1>3. CASE ~(from + wire_size > Len(bytes)) /\ ~(EndAt(bytes, from) > Len(bytes))
  <2>1. from + wire_size <= Len(bytes)
    BY <1>3, WireSizeAssumption
  <2>2. EndAt(bytes, from) \in (from + 1)..Len(bytes)
    BY <1>3, <2>1, EndFacts
  <2>3. f[EndAt(bytes, from)] = g[EndAt(bytes, from)]
    BY <2>2
  <2> QED BY <2>3 DEF DecodeStep
<1> QED BY <1>1, <1>2, <1>3

\* There is a function as Decode's recursion asks for, built from the end of the
\* stream to its beginning.
LEMMA DecodesExists == ASSUME NEW bytes \in Seq(Bytes) PROVE \E f : Decodes(f, bytes, 0)
<1> DEFINE n == Len(bytes)
           P == {m \in Nat : m <= n + 1 => \E f : Decodes(f, bytes, (n + 1) - m)}
<1>1. n \in Nat
  OBVIOUS
<1>2. 0 \in P
  <2> DEFINE f == [from \in (n + 1)..n |-> 0]
  <2>1. f = [from \in (n + 1)..n |-> DecodeStep(f, bytes, from)]
    BY <1>1
  <2>2. Decodes(f, bytes, n + 1)
    <3> HIDE DEF f
    <3> QED BY <2>1 DEF Decodes
  <2>3. (n + 1) - 0 = n + 1
    BY <1>1
  <2> HIDE DEF f, n
  <2> QED BY <2>2, <2>3
<1>3. ASSUME NEW m \in Nat, m \in P PROVE m + 1 \in P
  <2> SUFFICES ASSUME m + 1 <= n + 1 PROVE \E g : Decodes(g, bytes, (n + 1) - (m + 1))
    OBVIOUS
  <2> DEFINE low == (n + 1) - (m + 1)
  <2>1. low \in Nat /\ low <= n /\ (n + 1) - m = low + 1 /\ m <= n + 1
    BY <1>1
  <2>2. PICK f : Decodes(f, bytes, low + 1)
    BY <1>3, <2>1
  <2> HIDE DEF low, P
  <2> DEFINE g == [from \in low..n |-> IF from = low THEN DecodeStep(f, bytes, low) ELSE f[from]]
  <2>3. \A x \in (low + 1)..n : f[x] = DecodeStep(f, bytes, x)
    BY <2>2 DEF Decodes
  <2>4. \A x \in (low + 1)..n : g[x] = f[x]
    BY <1>1, <2>1
  <2>5. ASSUME NEW x \in low..n PROVE g[x] = DecodeStep(g, bytes, x)
    <3>1. x \in Nat /\ \A y \in (x + 1)..n : y \in (low + 1)..n
      BY <1>1, <2>1
    <3>2. \A y \in (x + 1)..n : f[y] = g[y]
      BY <2>4, <3>1
    <3>3. DecodeStep(f, bytes, x) = DecodeStep(g, bytes, x)
      <4> HIDE DEF g
      <4> QED BY <3>1, <3>2, DecodeStepSame
    <3>4. g[x] = DecodeStep(f, bytes, x)
      <4>1. CASE x = low
        BY <4>1
      <4>2. CASE x # low
        <5>1. x \in (low + 1)..n
          BY <1>1, <2>1, <4>2
        <5> QED BY <2>3, <2>4, <5>1
      <4> QED BY <4>1, <4>2
    <3> QED BY <3>3, <3>4
  <2>6. g = [from \in low..n |-> g[from]]
    OBVIOUS
  <2> HIDE DEF g
  <2>7. g = [from \in low..n |-> DecodeStep(g, bytes, from)]
    BY <2>5, <2>6, Zenon
  <2> QED BY <2>7 DEF Decodes, low
<1> HIDE DEF P
<1>4. n + 1 \in P
  BY <1>1, <1>2, <1>3, NatSetInduction
<1>5. (n + 1) - (n + 1) = 0 /\ n + 1 <= n + 1
  BY <1>1
<1> HIDE DEF n
<1> QED BY <1>4, <1>5 DEF P

\* Decode says of a stream what its first frame and the rest of it mean.
LEMMA DecodedIs ==
    ASSUME NEW bytes \in Seq(Bytes), NEW from \in 0..Len(bytes)
    PROVE  Decoded(bytes, mtu)[from] = DecodeStep(Decoded(bytes, mtu), bytes, from)
<1> DEFINE D == CHOOSE f : Decodes(f, bytes, 0)
<1>1. Decoded(bytes, mtu) = D
  BY DEF Decoded, Decodes, DecodeStep, HeaderAt, EndAt, PayloadAt, Stop
<1>2. Decodes(D, bytes, 0)
  BY DecodesExists
<1> HIDE DEF D
<1>3. D[from] = DecodeStep(D, bytes, from)
  BY <1>2 DEF Decodes
<1> QED BY <1>1, <1>3

\* The payload of a frame that is in the stream.
LEMMA PayloadType ==
    ASSUME NEW bytes \in Seq(Bytes), NEW from \in Nat, from + wire_size <= Len(bytes),
           EndAt(bytes, from) <= Len(bytes)
    PROVE  /\ PayloadAt(bytes, from) \in Seq(Bytes)
           /\ Len(PayloadAt(bytes, from)) = get_size(HeaderAt(bytes, from))
<1> DEFINE a == from + wire_size
           b == EndAt(bytes, from)
           size == get_size(HeaderAt(bytes, from))
<1>1. a \in Nat /\ b \in Nat /\ a <= b /\ b <= Len(bytes) /\ size \in Nat /\ b = a + size
  BY EndFacts, WireSizeAssumption DEF EndAt
<1>2. PayloadAt(bytes, from) = SubSeq(bytes, a + 1, b)
  BY DEF PayloadAt
<1> HIDE DEF a, b, size
<1>3. SubSeq(bytes, a + 1, b) \in Seq(Bytes) /\ Len(SubSeq(bytes, a + 1, b)) = b - a
  BY <1>1, SliceFacts
<1>4. b - a = size
  BY <1>1
<1> QED BY <1>2, <1>3, <1>4 DEF size

\* The packets of a stream are byte sequences, from every byte on.
LEMMA DecodedType ==
    ASSUME NEW bytes \in Seq(Bytes), NEW from \in 0..Len(bytes)
    PROVE  Decoded(bytes, mtu)[from].packets \in Seq(Seq(Bytes))
<1> DEFINE n == Len(bytes)
           D == Decoded(bytes, mtu)
           P == {m \in Nat : \A x \in 0..n : x + m >= n => D[x].packets \in Seq(Seq(Bytes))}
<1>1. n \in Nat
  OBVIOUS
<1>2. ASSUME NEW m \in Nat, \A x \in 0..n : x + m >= n + 1 => D[x].packets \in Seq(Seq(Bytes)),
             NEW x \in 0..n, x + m >= n
      PROVE  D[x].packets \in Seq(Seq(Bytes))
  <2>1. D[x] = DecodeStep(D, bytes, x)
    BY DecodedIs
  <2> DEFINE nil == <<>>
  <2>2. nil \in Seq(Seq(Bytes)) /\ \A e : Stop(e).packets = nil
    BY DEF Stop
  <2> HIDE DEF D, nil
  <2>3. CASE x + wire_size > n \/ EndAt(bytes, x) > n
    <3>1. D[x].packets = nil \/ x + wire_size <= n
      BY <2>1, <2>2, <2>3 DEF DecodeStep
    <3> QED BY <2>1, <2>2, <2>3 DEF DecodeStep
  <2>4. CASE ~(x + wire_size > n) /\ ~(EndAt(bytes, x) > n)
    <3>1. x \in Nat /\ x + wire_size <= Len(bytes)
      BY <1>1, <2>4, WireSizeAssumption
    <3>2. EndAt(bytes, x) \in Nat /\ EndAt(bytes, x) > x /\ EndAt(bytes, x) <= Len(bytes)
      BY <1>1, <2>4, <3>1, EndFacts
    <3>3. PayloadAt(bytes, x) \in Seq(Bytes)
      BY <3>1, <3>2, PayloadType
    <3>4. D[EndAt(bytes, x)].packets \in Seq(Seq(Bytes))
      <4>1. EndAt(bytes, x) \in 0..n /\ EndAt(bytes, x) + m >= n + 1
        BY <1>1, <1>2, <3>2
      <4> QED BY <1>2, <4>1 DEF D
    <3>5. <<PayloadAt(bytes, x)>> \o D[EndAt(bytes, x)].packets \in Seq(Seq(Bytes))
      BY <3>3, <3>4
    <3> QED BY <2>1, <2>2, <2>4, <3>5 DEF DecodeStep
  <2> QED BY <2>3, <2>4 DEF D
<1>3. 0 \in P
  <2>1. \A x \in 0..n : ~(x + 0 >= n + 1)
    BY <1>1
  <2>2. \A x \in 0..n : x + 0 >= n => D[x].packets \in Seq(Seq(Bytes))
    BY <1>2, <2>1
  <2> QED BY <2>2
<1>4. ASSUME NEW m \in Nat, m \in P PROVE m + 1 \in P
  <2>1. m + 1 \in Nat /\ \A x \in 0..n : x + (m + 1) >= n + 1 => x + m >= n
    BY <1>1
  <2>2. \A x \in 0..n : x + (m + 1) >= n + 1 => D[x].packets \in Seq(Seq(Bytes))
    BY <1>4, <2>1
  <2>3. \A x \in 0..n : x + (m + 1) >= n => D[x].packets \in Seq(Seq(Bytes))
    BY <1>2, <2>1, <2>2
  <2> QED BY <2>1, <2>3
<1> HIDE DEF P
<1>5. n \in P
  BY <1>1, <1>3, <1>4, NatSetInduction
<1>6. from \in 0..n /\ from + n >= n
  BY <1>1
<1> HIDE DEF n, D
<1> QED BY <1>5, <1>6 DEF P, D

\* A frame with this payload, and what is behind it.
Splits(here, behind, payload) ==
    /\ behind.packets \in Seq(Seq(Bytes)) /\ Len(behind.packets) \in Nat
    /\ here.error = behind.error
    /\ Len(here.packets) = Len(behind.packets) + 1
    /\ here.packets[1] = payload
    /\ \A i \in 1..Len(behind.packets) : here.packets[i + 1] = behind.packets[i]

\* A complete frame is the first packet of what follows its first byte.
LEMMA FrameDecoded ==
    ASSUME NEW bytes \in Seq(Bytes), NEW from, HasFrame(bytes, from)
    PROVE  Splits(Decoded(bytes, mtu)[from], Decoded(bytes, mtu)[EndAt(bytes, from)],
                  PayloadAt(bytes, from))
<1>1. /\ from \in Nat /\ from + wire_size <= Len(bytes)
      /\ is_magic_valid(HeaderAt(bytes, from))
      /\ get_size(HeaderAt(bytes, from)) \in 1..mtu
      /\ EndAt(bytes, from) <= Len(bytes)
      /\ crc32c(PayloadAt(bytes, from)) = get_crc(HeaderAt(bytes, from))
  BY DEF HasFrame
<1>2. from \in 0..Len(bytes) /\ EndAt(bytes, from) \in 0..Len(bytes)
  BY <1>1, EndFacts, WireSizeAssumption
<1>3. PayloadAt(bytes, from) \in Seq(Bytes)
  BY <1>1, PayloadType
<1>4. ~(from + wire_size > Len(bytes)) /\ ~(EndAt(bytes, from) > Len(bytes))
  BY <1>1, <1>2, WireSizeAssumption
<1> DEFINE here == Decoded(bytes, mtu)[from]
           behind == Decoded(bytes, mtu)[EndAt(bytes, from)]
           first == PayloadAt(bytes, from)
           rest == behind.packets
<1>5. here = DecodeStep(Decoded(bytes, mtu), bytes, from)
  BY <1>2, DecodedIs
<1>6. here = [packets |-> <<first>> \o rest, error |-> behind.error]
  BY <1>1, <1>4, <1>5 DEF DecodeStep
<1>7. here.error = behind.error /\ here.packets = <<first>> \o rest
  BY <1>6
<1>8. rest \in Seq(Seq(Bytes)) /\ first \in Seq(Bytes)
  BY <1>2, <1>3, DecodedType
<1> HIDE DEF first, rest, here
<1>9. /\ Len(rest) \in Nat /\ Len(<<first>> \o rest) = Len(rest) + 1
      /\ (<<first>> \o rest)[1] = first
      /\ \A i \in 1..Len(rest) : (<<first>> \o rest)[i + 1] = rest[i]
  BY <1>8, ConsFacts
<1>10. /\ here.error = behind.error /\ here.packets = <<first>> \o rest
       /\ behind.packets = rest
  BY <1>7 DEF rest
<1> HIDE DEF behind
<1>11. Splits(here, behind, first)
  BY <1>8, <1>9, <1>10 DEF Splits
<1> QED BY <1>11 DEF here, behind, first

\* A frame that must be rejected ends the stream with its error.
LEMMA FrameRejected ==
    ASSUME NEW bytes \in Seq(Bytes), NEW from \in Nat, from + wire_size <= Len(bytes),
           NEW header, header = HeaderAt(bytes, from),
           NEW here, here = Decoded(bytes, mtu)[from]
    PROVE  /\ ~is_magic_valid(header) => here.error = "InvalidMagic"
           /\ is_magic_valid(header) /\ get_size(header) \notin 1..mtu
                => here.error = "InvalidSize"
           /\ is_magic_valid(header) /\ get_size(header) \in 1..mtu
                /\ EndAt(bytes, from) <= Len(bytes)
                /\ crc32c(PayloadAt(bytes, from)) # get_crc(header)
                => here.error = "FrameCrcMismatch"
<1>1. from \in 0..Len(bytes) /\ ~(from + wire_size > Len(bytes))
  BY WireSizeAssumption
<1>2. here = DecodeStep(Decoded(bytes, mtu), bytes, from)
  BY <1>1, DecodedIs
<1>3. EndAt(bytes, from) <= Len(bytes) => ~(EndAt(bytes, from) > Len(bytes))
  BY EndFacts
<1> QED BY <1>1, <1>2, <1>3 DEF DecodeStep, Stop

-----------------------------------------------------------------------------
(* Segments *)

\* The bytes of one segment.
PieceOf(segment, memory) ==
    SubSeq(memory[segment.base], segment.from + 1, segment.from + segment.len)

\* No segment, no bytes.
LEMMA IovEmpty == ASSUME NEW memory PROVE IovIn(<<>>, memory) = <<>>
<1>1. [i \in DOMAIN <<>> |->
          SubSeq(memory[<<>>[i].base], <<>>[i].from + 1, <<>>[i].from + <<>>[i].len)] = <<>>
  OBVIOUS
<1> QED BY <1>1, FlattenEmpty DEF IovIn

\* The pieces of segments that lie in their buffers.
LEMMA PiecesType ==
    ASSUME NEW memory \in [Bids -> Seq(Bytes)], NEW segments \in Seq(Segments),
           \A i \in DOMAIN segments :
              segments[i].from + segments[i].len <= Len(memory[segments[i].base])
    PROVE  /\ [i \in DOMAIN segments |-> PieceOf(segments[i], memory)] \in Seq(Seq(Bytes))
           /\ \A i \in DOMAIN segments : PieceOf(segments[i], memory) \in Seq(Bytes)
           /\ \A i \in DOMAIN segments : Len(PieceOf(segments[i], memory)) = segments[i].len
<1>1. DOMAIN segments = 1..Len(segments) /\ Len(segments) \in Nat
  OBVIOUS
<1>2. ASSUME NEW i \in DOMAIN segments
      PROVE  /\ PieceOf(segments[i], memory) \in Seq(Bytes)
             /\ Len(PieceOf(segments[i], memory)) = segments[i].len
  <2> DEFINE m == memory[segments[i].base]
             a == segments[i].from
             b == a + segments[i].len
  <2>1. segments[i] \in Segments
    OBVIOUS
  <2>2. m \in Seq(Bytes) /\ a \in Nat /\ segments[i].len \in Nat
    BY <2>1 DEF Segments
  <2>3. b \in Nat /\ a <= b /\ b - a = segments[i].len
    BY <2>2
  <2>4. b <= Len(m)
    OBVIOUS
  <2>5. PieceOf(segments[i], memory) = SubSeq(m, a + 1, b)
    BY DEF PieceOf
  <2> HIDE DEF m, a, b
  <2>6. SubSeq(m, a + 1, b) \in Seq(Bytes) /\ Len(SubSeq(m, a + 1, b)) = b - a
    BY <2>2, <2>3, <2>4, SliceFacts
  <2> QED BY <2>3, <2>5, <2>6
<1>3. [i \in DOMAIN segments |-> PieceOf(segments[i], memory)] \in Seq(Seq(Bytes))
  <2> DEFINE f == [i \in DOMAIN segments |-> PieceOf(segments[i], memory)]
  <2>1. f \in [1..Len(segments) -> Seq(Bytes)]
    BY <1>1, <1>2
  <2> HIDE DEF f
  <2> QED BY <1>1, <2>1, FunctionIsSeq DEF f
<1> QED BY <1>2, <1>3

\* One segment more.
LEMMA IovAppend ==
    ASSUME NEW memory \in [Bids -> Seq(Bytes)], NEW segments \in Seq(Segments),
           \A i \in DOMAIN segments :
              segments[i].from + segments[i].len <= Len(memory[segments[i].base]),
           NEW segment \in Segments,
           segment.from + segment.len <= Len(memory[segment.base])
    PROVE  IovIn(Append(segments, segment), memory)
             = IovIn(segments, memory) \o PieceOf(segment, memory)
<1> DEFINE longer == Append(segments, segment)
           f == [i \in DOMAIN segments |-> PieceOf(segments[i], memory)]
           g == [i \in DOMAIN longer |-> PieceOf(longer[i], memory)]
           n == Len(segments)
<1>1. /\ longer \in Seq(Segments) /\ n \in Nat /\ DOMAIN segments = 1..n
      /\ DOMAIN longer = 1..(n + 1) /\ \A i \in 1..n : longer[i] = segments[i]
      /\ longer[n + 1] = segment
  BY AppendFacts
<1>2. f \in Seq(Seq(Bytes))
  BY PiecesType
<1>3. IovIn(segments, memory) = FlattenSeq(f) /\ IovIn(longer, memory) = FlattenSeq(g)
  BY DEF IovIn, PieceOf
<1> HIDE DEF longer, n
<1>4. \A i \in DOMAIN longer : longer[i].from + longer[i].len <= Len(memory[longer[i].base])
  <2> SUFFICES ASSUME NEW i \in DOMAIN longer
               PROVE  longer[i].from + longer[i].len <= Len(memory[longer[i].base])
    OBVIOUS
  <2>1. CASE i = n + 1
    BY <1>1, <2>1
  <2>2. CASE i # n + 1
    <3>1. i \in 1..n
      BY <1>1, <2>2
    <3> QED BY <1>1, <3>1
  <2> QED BY <2>1, <2>2
<1>5. g \in Seq(Seq(Bytes)) /\ \A i \in DOMAIN longer : PieceOf(longer[i], memory) \in Seq(Bytes)
  BY <1>1, <1>4, PiecesType
<1>6. /\ Len(f) = n /\ Len(g) = n + 1 /\ \A i \in 1..n : g[i] = f[i]
      /\ g[n + 1] = PieceOf(segment, memory)
  <2>1. \A i \in 1..n : g[i] = PieceOf(longer[i], memory) /\ f[i] = PieceOf(segments[i], memory)
    BY <1>1
  <2>2. g[n + 1] = PieceOf(longer[n + 1], memory)
    BY <1>1
  <2>3. DOMAIN f = 1..n /\ DOMAIN g = 1..(n + 1)
    BY <1>1
  <2>4. Len(f) = n /\ Len(g) = n + 1
    <3> HIDE DEF f, g
    <3> QED BY <1>1, <1>2, <1>5, <2>3
  <2> QED BY <1>1, <2>1, <2>2, <2>4
<1> DEFINE last == PieceOf(segment, memory)
<1>7. last \in Seq(Bytes)
  <2>1. n + 1 \in DOMAIN longer
    BY <1>1
  <2> QED BY <1>1, <1>5, <2>1
<1> HIDE DEF f, g, last
<1>8. g = Append(f, last)
  <2> DEFINE h == Append(f, last)
  <2>1. /\ h \in Seq(Seq(Bytes)) /\ Len(h) = n + 1 /\ \A i \in 1..n : h[i] = f[i]
        /\ h[n + 1] = last
    BY <1>2, <1>6, <1>7, AppendFacts
  <2> HIDE DEF h
  <2>2. \A i \in 1..(n + 1) : g[i] = h[i]
    BY <1>1, <1>6, <2>1, SMTT(30) DEF last
  <2>3. g = h
    BY <1>5, <1>6, <2>1, <2>2, SeqEqual
  <2> QED BY <2>3 DEF h
<1>9. FlattenSeq(g) = FlattenSeq(f) \o last
  BY <1>2, <1>7, <1>8, FlattenAppend
<1> QED BY <1>3, <1>9 DEF longer, last

\* The segments of a frame keep their bytes while their buffers do.
LEMMA IovSame ==
    ASSUME NEW memory, NEW later, NEW segments,
           \A i \in DOMAIN segments : later[segments[i].base] = memory[segments[i].base]
    PROVE  IovIn(segments, later) = IovIn(segments, memory)
<1> DEFINE f == [i \in DOMAIN segments |-> PieceOf(segments[i], memory)]
           g == [i \in DOMAIN segments |-> PieceOf(segments[i], later)]
<1>1. \A i \in DOMAIN segments : PieceOf(segments[i], later) = PieceOf(segments[i], memory)
  BY DEF PieceOf
<1>2. g = f
  BY <1>1
<1>3. IovIn(segments, memory) = FlattenSeq(f) /\ IovIn(segments, later) = FlattenSeq(g)
  BY DEF IovIn, PieceOf
<1> HIDE DEF f, g
<1> QED BY <1>2, <1>3

\* Iov is that, with the buffers as they are.
LEMMA IovIs == ASSUME NEW segments PROVE Iov(segments) = IovIn(segments, mem)
  BY DEF Iov, SegmentBytes, IovIn

\* The bytes of segments that lie in their buffers.
LEMMA IovInType ==
    ASSUME NEW memory \in [Bids -> Seq(Bytes)], NEW segments \in Seq(Segments),
           \A i \in DOMAIN segments :
              segments[i].from + segments[i].len <= Len(memory[segments[i].base])
    PROVE  IovIn(segments, memory) \in Seq(Bytes)
<1> DEFINE f == [i \in DOMAIN segments |-> PieceOf(segments[i], memory)]
<1>1. f \in Seq(Seq(Bytes))
  BY PiecesType
<1>2. IovIn(segments, memory) = FlattenSeq(f)
  BY DEF IovIn, PieceOf
<1> HIDE DEF f
<1> QED BY <1>1, <1>2, FlattenType

-----------------------------------------------------------------------------
(* Buffers that are in use keep their bytes *)

\* Nobody fills a buffer but the kernel, and it fills free ones.
LEMMA BuffersKept ==
    ASSUME OwnInv, Running, [Next]_vars,
           NEW bid \in Held \cup {cq[i].bid : i \in Filled}
    PROVE  mem'[bid] = mem[bid]
<1>1. ShapeInv /\ Types /\ OneOwner
  BY DEF OwnInv, RefsInv, ShapeInv, Owning
<1>2. CASE UNCHANGED mem
  BY <1>2
<1>3. CASE \E n \in 1..buffer_size, more \in BOOLEAN : KernelRecv(n, more)
  <2>1. PICK n \in 1..buffer_size, more \in BOOLEAN : KernelRecv(n, more)
    BY <1>3
  <2>2. /\ br_ # <<>> /\ Head(br_) = br_[1]
        /\ \A b \in Bids : b # Head(br_) => mem'[b] = mem[b]
    BY <1>1, <2>1, KernelRecvFacts
  <2>3. /\ Held \cup Free \cup {cq[i].bid : i \in Filled} = Bids
        /\ Held \cap Free = {} /\ Free \cap {cq[i].bid : i \in Filled} = {}
    BY <1>1, OwnersDisjoint
  <2>4. Head(br_) \in Free
    <3>1. 1 \in DOMAIN br_
      BY <1>1, <2>2 DEF Types
    <3> QED BY <2>2, <3>1 DEF Free
  <2>5. bid \in Bids /\ bid # Head(br_)
    BY <2>3, <2>4
  <2> QED BY <2>2, <2>5
<1> QED BY <1>1, <1>2, <1>3, BuffersGrow

\* The buffers of a frame that is parsed or waits to be written are held.
FramesHeld ==
    /\ \A k \in DOMAIN frame_.segments : frame_.segments[k].base \in Held
    /\ \A i \in DOMAIN output_frame_queue_ :
          (cqe_.type = "WRITE" => i # 1) =>
            \A k \in DOMAIN output_frame_queue_[i].segments :
               output_frame_queue_[i].segments[k].base \in Held

\* The buffers of queued frames are held, so the kernel does not write to them.
LEMMA FramesAreHeld == OwnInv /\ Running => FramesHeld
<1> SUFFICES ASSUME OwnInv, Running PROVE FramesHeld
  OBVIOUS
<1>1. /\ Types /\ RefsExact /\ RefsNat /\ Handling /\ Fitting
  BY RefsNatural DEF OwnInv, RefsInv, ShapeInv, Shape
<1>2. BidsShape
  BY <1>1, QueueBidsFacts
<1>3. \A bid \in Bids :
         Occurrences(frame_.bid, bid) >= 1 \/ Occurrences(FlattenSeq(QueueBids), bid) >= 1
           => bid \in Held
  <2> SUFFICES ASSUME NEW bid \in Bids,
                      Occurrences(frame_.bid, bid) >= 1
                        \/ Occurrences(FlattenSeq(QueueBids), bid) >= 1
               PROVE  bid \in Held
    OBVIOUS
  <2>1. Occurrences(frame_.bid, bid) \in Nat /\ Occurrences(FlattenSeq(QueueBids), bid) \in Nat
    BY <1>2 DEF BidsShape
  <2>2. buffer_refcounts_[bid] = Occurrences(frame_.bid, bid)
                                   + Occurrences(FlattenSeq(QueueBids), bid)
    BY <1>1 DEF RefsExact
  <2>3. buffer_refcounts_[bid] > 0
    BY <2>1, <2>2
  <2> QED BY <2>3 DEF Held
<1>4. ASSUME NEW frame \in FrameType, Fits(frame), NEW k \in DOMAIN frame.segments
      PROVE  /\ frame.bid \in Seq(Bids) /\ k \in DOMAIN frame.bid
             /\ frame.segments[k].base = frame.bid[k]
             /\ frame.segments[k].base \in Bids
             /\ Occurrences(frame.bid, frame.segments[k].base) >= 1
  <2>1. frame.bid \in Seq(Bids) /\ frame.segments \in Seq(Segments)
    BY DEF FrameType
  <2>2. Len(frame.bid) = Len(frame.segments) /\ frame.bid[k] = frame.segments[k].base
    BY <1>4 DEF Fits, FitsIn
  <2>3. k \in DOMAIN frame.bid
    BY <2>1, <2>2
  <2>4. Occurrences(frame.bid, frame.bid[k]) >= 1
    BY <2>1, <2>3, OccursThere
  <2> QED BY <2>1, <2>2, <2>3, <2>4
<1>5. ASSUME NEW k \in DOMAIN frame_.segments PROVE frame_.segments[k].base \in Held
  <2>1. frame_ \in FrameType /\ Fits(frame_)
    BY <1>1 DEF Types, Fitting
  <2> QED BY <1>3, <1>4, <2>1
<1>6. ASSUME NEW i \in DOMAIN output_frame_queue_, cqe_.type = "WRITE" => i # 1,
             NEW k \in DOMAIN output_frame_queue_[i].segments
      PROVE  output_frame_queue_[i].segments[k].base \in Held
  <2> DEFINE frame == output_frame_queue_[i]
             bid == frame.segments[k].base
  <2>1. frame \in FrameType /\ Fits(frame)
    BY <1>1 DEF Types, Fitting
  <2>2. frame.bid \in Seq(Bids) /\ bid \in Bids /\ Occurrences(frame.bid, bid) >= 1
    BY <1>4, <2>1
  <2>3. QueueBids[i] = frame.bid
    <3>1. i \in 1..Len(output_frame_queue_)
      BY <1>2 DEF BidsShape
    <3>2. CASE i # 1
      BY <1>2, <3>1, <3>2 DEF BidsShape
    <3>3. CASE i = 1
      <4>1. released = 0
        BY <1>1, <1>6, <3>3 DEF Handling
      <4>2. QueueBids[i] = SubSeq(frame.bid, released + 1, Len(frame.bid))
        BY <1>2, <3>1, <3>3 DEF BidsShape
      <4>3. SubSeq(frame.bid, 1, Len(frame.bid)) = frame.bid
        BY <2>2, SubSeqFull
      <4> QED BY <4>1, <4>2, <4>3
    <3> QED BY <3>2, <3>3
  <2>4. QueueBids \in Seq(Seq(Bids)) /\ i \in DOMAIN QueueBids
    BY <1>2 DEF BidsShape
  <2> HIDE DEF frame, bid
  <2>5. Occurrences(QueueBids[i], bid) >= 1
    BY <2>2, <2>3
  <2>6. Occurrences(FlattenSeq(QueueBids), bid) >= 1
    BY <2>4, <2>5, FlattenHas
  <2> QED BY <1>3, <2>2, <2>6 DEF bid, frame
<1> QED BY <1>5, <1>6 DEF FramesHeld

\* So the segments of those frames have the bytes they had.
LEMMA FramesKept ==
    ASSUME OwnInv, Running, [Next]_vars
    PROVE  /\ IovIn(frame_.segments, mem') = IovIn(frame_.segments, mem)
           /\ \A i \in DOMAIN output_frame_queue_ :
                 (cqe_.type = "WRITE" => i # 1) =>
                    IovIn(output_frame_queue_[i].segments, mem')
                      = IovIn(output_frame_queue_[i].segments, mem)
<1>1. FramesHeld
  BY FramesAreHeld
<1>2. \A bid \in Held : mem'[bid] = mem[bid]
  BY BuffersKept
<1>3. IovIn(frame_.segments, mem') = IovIn(frame_.segments, mem)
  <2>1. \A k \in DOMAIN frame_.segments :
           mem'[frame_.segments[k].base] = mem[frame_.segments[k].base]
    BY <1>1, <1>2 DEF FramesHeld
  <2> QED BY <2>1, IovSame
<1>4. ASSUME NEW i \in DOMAIN output_frame_queue_, cqe_.type = "WRITE" => i # 1
      PROVE  IovIn(output_frame_queue_[i].segments, mem')
               = IovIn(output_frame_queue_[i].segments, mem)
  <2> DEFINE segments == output_frame_queue_[i].segments
  <2>1. \A k \in DOMAIN segments : mem'[segments[k].base] = mem[segments[k].base]
    BY <1>1, <1>2, <1>4 DEF FramesHeld
  <2> HIDE DEF segments
  <2>2. IovIn(segments, mem') = IovIn(segments, mem)
    BY <2>1, IovSame
  <2> QED BY <2>2 DEF segments
<1> QED BY <1>3, <1>4

\* The peer's stream is what it is.
LEMMA WireSame == ASSUME [Next]_vars PROVE wire' = wire
  BY Zenon DEF Next, Handle, Kernel, vars, kernel_vars, own_vars, handler_vars, parser_vars,
               RecvNoBuffers, RecvFailed, RecvChunk, Handles, ParseHeader, ParsePayload,
               ParseNoMemory, Parses, RecvDone, RecvRearmFailed, Parsed, WriteCompleted,
               ReleaseBuffer, Releases, WriteDone, WriteRearmFailed, Released, KernelRecv,
               KernelRecvNoBuffers, KernelRecvError, KernelPeerClosed, EndRecv, KernelWrite,
               KernelWriteError, KernelStep

-----------------------------------------------------------------------------
(* Chunks that were not handled yet *)

\* The chunks of completions lie in their buffers.
ChunksIn(queue, memory) ==
    \A i \in DOMAIN queue : Brings(queue[i]) => queue[i].result <= Len(memory[queue[i].bid])

\* The bytes of one chunk.
LEMMA ChunkType ==
    ASSUME NEW memory \in [Bids -> Seq(Bytes)], NEW cqe \in Cqes,
           Brings(cqe) => cqe.result <= Len(memory[cqe.bid])
    PROVE  /\ ChunkIn(cqe, memory) \in Seq(Bytes)
           /\ ~Brings(cqe) => ChunkIn(cqe, memory) = <<>>
           /\ Brings(cqe) => /\ cqe.bid \in Bids /\ cqe.result \in 1..buffer_size
                             /\ Len(ChunkIn(cqe, memory)) = cqe.result
                             /\ \A k \in 1..cqe.result :
                                   ChunkIn(cqe, memory)[k] = memory[cqe.bid][k]
<1>1. CASE ~Brings(cqe)
  BY <1>1 DEF ChunkIn
<1>2. CASE Brings(cqe)
  <2> DEFINE m == memory[cqe.bid]
             n == cqe.result
  <2>1. cqe.bid \in Bids /\ n \in 1..buffer_size
    <3>1. cqe \in RecvCqes
      BY <1>2, CqeFacts DEF Brings
    <3> QED BY <3>1 DEF RecvCqes
  <2>2. m \in Seq(Bytes) /\ n \in Nat /\ n <= Len(m)
    BY <1>2, <2>1
  <2>3. ChunkIn(cqe, memory) = SubSeq(m, 1, n)
    BY <1>2 DEF ChunkIn
  <2> HIDE DEF m, n
  <2>4. /\ SubSeq(m, 1, n) \in Seq(Bytes) /\ Len(SubSeq(m, 1, n)) = n
        /\ \A k \in 1..n : SubSeq(m, 1, n)[k] = m[k]
    BY <2>2, PrefixFacts
  <2> QED BY <1>2, <2>1, <2>3, <2>4 DEF m, n
<1> QED BY <1>1, <1>2

\* The bytes of all chunks.
LEMMA WaitingType ==
    ASSUME NEW memory \in [Bids -> Seq(Bytes)], NEW queue \in Seq(Cqes),
           ChunksIn(queue, memory)
    PROVE  /\ [i \in DOMAIN queue |-> ChunkIn(queue[i], memory)] \in Seq(Seq(Bytes))
           /\ Len([i \in DOMAIN queue |-> ChunkIn(queue[i], memory)]) = Len(queue)
           /\ WaitingIn(queue, memory) \in Seq(Bytes)
<1> DEFINE f == [i \in DOMAIN queue |-> ChunkIn(queue[i], memory)]
<1>1. DOMAIN queue = 1..Len(queue) /\ Len(queue) \in Nat
  OBVIOUS
<1>2. ASSUME NEW i \in DOMAIN queue PROVE ChunkIn(queue[i], memory) \in Seq(Bytes)
  <2>1. queue[i] \in Cqes /\ (Brings(queue[i]) => queue[i].result <= Len(memory[queue[i].bid]))
    BY DEF ChunksIn
  <2> QED BY <2>1, ChunkType
<1>3. f \in [1..Len(queue) -> Seq(Bytes)]
  BY <1>1, <1>2
<1>4. WaitingIn(queue, memory) = FlattenSeq(f)
  BY DEF WaitingIn
<1> HIDE DEF f
<1>5. f \in Seq(Seq(Bytes)) /\ Len(f) = Len(queue)
  BY <1>1, <1>3, FunctionIsSeq
<1> QED BY <1>4, <1>5, FlattenType DEF f

\* A completion more.
LEMMA WaitingAppend ==
    ASSUME NEW memory \in [Bids -> Seq(Bytes)], NEW queue \in Seq(Cqes),
           ChunksIn(queue, memory), NEW cqe \in Cqes,
           Brings(cqe) => cqe.result <= Len(memory[cqe.bid])
    PROVE  WaitingIn(Append(queue, cqe), memory)
             = WaitingIn(queue, memory) \o ChunkIn(cqe, memory)
<1> DEFINE longer == Append(queue, cqe)
           f == [i \in DOMAIN queue |-> ChunkIn(queue[i], memory)]
           g == [i \in DOMAIN longer |-> ChunkIn(longer[i], memory)]
           n == Len(queue)
           last == ChunkIn(cqe, memory)
<1>1. /\ longer \in Seq(Cqes) /\ n \in Nat /\ DOMAIN queue = 1..n
      /\ DOMAIN longer = 1..(n + 1) /\ \A i \in 1..n : longer[i] = queue[i]
      /\ longer[n + 1] = cqe /\ Len(longer) = n + 1
  BY AppendFacts
<1>2. f \in Seq(Seq(Bytes)) /\ Len(f) = n
  BY WaitingType
<1>3. WaitingIn(queue, memory) = FlattenSeq(f) /\ WaitingIn(longer, memory) = FlattenSeq(g)
  BY DEF WaitingIn
<1>7. last \in Seq(Bytes)
  BY ChunkType
<1> HIDE DEF longer, n, last
<1>4. ChunksIn(longer, memory)
  <2> SUFFICES ASSUME NEW i \in DOMAIN longer, Brings(longer[i])
               PROVE  longer[i].result <= Len(memory[longer[i].bid])
    BY DEF ChunksIn
  <2>1. CASE i = n + 1
    BY <1>1, <2>1
  <2>2. CASE i # n + 1
    <3>1. i \in 1..n
      BY <1>1, <2>2
    <3> QED BY <1>1, <3>1 DEF ChunksIn
  <2> QED BY <2>1, <2>2
<1>5. g \in Seq(Seq(Bytes)) /\ Len(g) = n + 1
  BY <1>1, <1>4, WaitingType
<1>6. (\A i \in 1..n : g[i] = f[i]) /\ g[n + 1] = last
  <2>1. \A i \in 1..n : g[i] = ChunkIn(longer[i], memory) /\ f[i] = ChunkIn(queue[i], memory)
    BY <1>1
  <2>2. g[n + 1] = ChunkIn(longer[n + 1], memory)
    BY <1>1
  <2> QED BY <1>1, <2>1, <2>2 DEF last
<1> HIDE DEF f, g
<1>8. g = Append(f, last)
  <2> DEFINE h == Append(f, last)
  <2>1. /\ h \in Seq(Seq(Bytes)) /\ Len(h) = n + 1 /\ \A i \in 1..n : h[i] = f[i]
        /\ h[n + 1] = last
    BY <1>2, <1>7, AppendFacts
  <2> HIDE DEF h
  <2>2. \A i \in 1..(n + 1) : g[i] = h[i]
    BY <1>1, <1>6, <2>1
  <2>3. g = h
    BY <1>5, <2>1, <2>2, SeqEqual
  <2> QED BY <2>3 DEF h
<1>9. FlattenSeq(g) = FlattenSeq(f) \o last
  BY <1>2, <1>7, <1>8, FlattenAppend
<1> QED BY <1>3, <1>9 DEF longer, last

\* A completion less.
LEMMA WaitingTail ==
    ASSUME NEW memory \in [Bids -> Seq(Bytes)], NEW queue \in Seq(Cqes), queue # <<>>,
           ChunksIn(queue, memory)
    PROVE  /\ WaitingIn(queue, memory)
                = ChunkIn(Head(queue), memory) \o WaitingIn(Tail(queue), memory)
           /\ ChunkIn(Head(queue), memory) \in Seq(Bytes)
           /\ WaitingIn(Tail(queue), memory) \in Seq(Bytes)
           /\ ChunksIn(Tail(queue), memory)
<1> DEFINE rest == Tail(queue)
           f == [i \in DOMAIN queue |-> ChunkIn(queue[i], memory)]
           g == [i \in DOMAIN rest |-> ChunkIn(rest[i], memory)]
           n == Len(queue)
<1>1. /\ rest \in Seq(Cqes) /\ n \in Nat /\ n >= 1 /\ DOMAIN queue = 1..n
      /\ DOMAIN rest = 1..(n - 1) /\ \A i \in 1..(n - 1) : rest[i] = queue[i + 1]
      /\ Head(queue) = queue[1] /\ Len(rest) = n - 1
  BY TailFacts
<1>2. f \in Seq(Seq(Bytes)) /\ Len(f) = n
  BY WaitingType
<1>3. WaitingIn(queue, memory) = FlattenSeq(f) /\ WaitingIn(rest, memory) = FlattenSeq(g)
  BY DEF WaitingIn
<1> HIDE DEF rest, n
<1>4. ChunksIn(rest, memory)
  <2> SUFFICES ASSUME NEW i \in 1..(n - 1), Brings(rest[i])
               PROVE  rest[i].result <= Len(memory[rest[i].bid])
    BY <1>1 DEF ChunksIn
  <2>1. i + 1 \in DOMAIN queue /\ rest[i] = queue[i + 1]
    BY <1>1
  <2> QED BY <2>1 DEF ChunksIn
<1>5. g \in Seq(Seq(Bytes)) /\ Len(g) = n - 1 /\ WaitingIn(rest, memory) \in Seq(Bytes)
  BY <1>1, <1>4, WaitingType
<1>6. (\A i \in 1..(n - 1) : g[i] = f[i + 1]) /\ f[1] = ChunkIn(Head(queue), memory)
  <2>1. \A i \in 1..(n - 1) : g[i] = ChunkIn(rest[i], memory)
    BY <1>1
  <2>2. \A i \in 1..n : f[i] = ChunkIn(queue[i], memory)
    BY <1>1
  <2>3. \A i \in 1..(n - 1) : i + 1 \in 1..n
    BY <1>1
  <2>4. \A i \in 1..(n - 1) : f[i + 1] = ChunkIn(queue[i + 1], memory)
    BY <2>2, <2>3
  <2>5. 1 \in 1..n
    BY <1>1
  <2> QED BY <1>1, <2>1, <2>2, <2>4, <2>5
<1> HIDE DEF f, g
<1>7. f # <<>>
  BY <1>1, <1>2
<1>8. /\ Tail(f) \in Seq(Seq(Bytes)) /\ Len(Tail(f)) = n - 1 /\ Head(f) = f[1]
      /\ \A i \in 1..(n - 1) : Tail(f)[i] = f[i + 1]
  BY <1>2, <1>7, TailFacts
<1>9. g = Tail(f)
  <2> DEFINE h == Tail(f)
  <2>1. /\ h \in Seq(Seq(Bytes)) /\ Len(h) = n - 1
        /\ \A i \in 1..(n - 1) : h[i] = f[i + 1]
    BY <1>8
  <2> HIDE DEF h
  <2>2. g = h
    BY <1>5, <1>6, <2>1, SeqEqual
  <2> QED BY <2>2 DEF h
<1>10. /\ FlattenSeq(f) = Head(f) \o FlattenSeq(Tail(f)) /\ Head(f) \in Seq(Bytes)
  BY <1>2, <1>7, FlattenTail
<1> QED BY <1>3, <1>4, <1>5, <1>6, <1>8, <1>9, <1>10 DEF rest

\* The chunks keep their bytes while their buffers do.
LEMMA WaitingSame ==
    ASSUME NEW memory, NEW later, NEW queue,
           \A i \in DOMAIN queue :
              Brings(queue[i]) => later[queue[i].bid] = memory[queue[i].bid]
    PROVE  WaitingIn(queue, later) = WaitingIn(queue, memory)
<1>1. \A i \in DOMAIN queue : ChunkIn(queue[i], later) = ChunkIn(queue[i], memory)
  BY DEF ChunkIn
<1>2. [i \in DOMAIN queue |-> ChunkIn(queue[i], later)]
         = [i \in DOMAIN queue |-> ChunkIn(queue[i], memory)]
  BY <1>1
<1> QED BY <1>2 DEF WaitingIn

-----------------------------------------------------------------------------
(* The place of the parser in the stream *)

Tracked ==
    /\ ChunksIn(cq, mem)
    /\ HeaderParsed \in 0..wire_size /\ payload_progress_ \in Nat
    /\ pos \in Nat /\ Len(wire) \in Nat /\ pos <= Len(wire)
    /\ Waiting \in Seq(Bytes)
    /\ input_buffer_queue_ = <<>> => Unparsed = 0
    /\ input_buffer_queue_ # <<>> => /\ Unparsed = Input.size - Input.offset
                                     /\ Input.bid \in Held /\ Input.bid \in Bids
                                     /\ Unparsed \in Nat /\ Input.offset \in Nat
                                     /\ Input.size \in Nat
                                     /\ Input.size <= Len(mem[Input.bid])
    /\ Unparsed \in Nat

\* The counts are as they should be.
LEMMA TrackedFacts == ShapeInv /\ Running => Tracked
<1> SUFFICES ASSUME ShapeInv, Running PROVE Tracked
  OBVIOUS
<1>1. Types /\ Parser /\ Fitting
  BY DEF ShapeInv, Shape
<1>2. ChunksIn(cq, mem)
  BY <1>1 DEF Fitting, Filled, ChunksIn, Brings
<1>3. HeaderParsed \in 0..wire_size /\ payload_progress_ \in Nat
  <2>1. /\ header_progress_ \in 0..(wire_size - 1) /\ payload_progress_ \in 0..(mtu - 1)
        /\ wire_size \in Nat /\ mtu \in Nat
    BY <1>1, WireSizeAssumption, ReceiverAssumption DEF Types
  <2> QED BY <2>1 DEF HeaderParsed
<1>4. pos \in Nat /\ Len(wire) \in Nat /\ pos <= Len(wire)
  BY <1>1 DEF Types
<1>5. Waiting \in Seq(Bytes)
  BY <1>1, <1>2, WaitingType DEF Types, Waiting
<1>6. input_buffer_queue_ = <<>> => Unparsed = 0
  BY DEF Unparsed
<1>7. ASSUME input_buffer_queue_ # <<>>
      PROVE  /\ Unparsed = Input.size - Input.offset
             /\ Input.bid \in Held /\ Input.bid \in Bids
             /\ Unparsed \in Nat /\ Input.offset \in Nat
             /\ Input.size \in Nat
             /\ Input.size <= Len(mem[Input.bid])
  <2>1. /\ Input.bid \in Bids /\ Input.offset \in Nat /\ Input.size \in Nat
        /\ Input.offset < Input.size /\ Input.size <= Len(mem[Input.bid])
        /\ DOMAIN input_buffer_queue_ = {1} /\ Input = input_buffer_queue_[1]
    BY <1>7, InputFacts
  <2>2. Unparsed = Input.size - Input.offset
    BY <1>7 DEF Unparsed
  <2>3. Input.bid \in Held
    BY <2>1 DEF Held
  <2> QED BY <2>1, <2>2, <2>3
<1>8. Unparsed \in Nat
  BY <1>6, <1>7
<1> QED BY <1>2, <1>3, <1>4, <1>5, <1>6, <1>7, <1>8 DEF Tracked

\* The waiting chunks, when none is added or taken.
LEMMA WaitingStays ==
    ASSUME OwnInv, Running, [Next]_vars,
           \/ UNCHANGED cq
           \/ cq # <<>> /\ cq' = Tail(cq) /\ ~Brings(Head(cq))
           \/ \E cqe \in Cqes : ~Brings(cqe) /\ cq' = Append(cq, cqe)
    PROVE  Waiting' = Waiting
<1>1. ShapeInv /\ Types /\ Tracked
  BY TrackedFacts DEF OwnInv, RefsInv, ShapeInv
<1>2. /\ mem' \in [Bids -> Seq(Bytes)] /\ cq \in Seq(Cqes)
      /\ \A bid \in Bids : Len(mem'[bid]) >= Len(mem[bid])
  BY <1>1, BuffersGrow DEF Types
<1>3. \A i \in DOMAIN cq : Brings(cq[i]) => mem'[cq[i].bid] = mem[cq[i].bid]
  <2> SUFFICES ASSUME NEW i \in DOMAIN cq, Brings(cq[i])
               PROVE  mem'[cq[i].bid] = mem[cq[i].bid]
    OBVIOUS
  <2>1. cq[i].bid \in {cq[j].bid : j \in Filled}
    BY DEF Filled, Brings
  <2> QED BY <2>1, BuffersKept
<1>4. WaitingIn(cq, mem') = Waiting
  BY <1>3, WaitingSame DEF Waiting
<1>5. ChunksIn(cq, mem')
  BY <1>1, <1>3 DEF ChunksIn, Tracked
<1>6. Waiting' = WaitingIn(cq', mem')
  BY DEF Waiting
<1> DEFINE m == mem'
<1>7. m \in [Bids -> Seq(Bytes)] /\ ChunksIn(cq, m) /\ Waiting' = WaitingIn(cq', m)
      /\ WaitingIn(cq, m) = Waiting
  BY <1>2, <1>4, <1>5, <1>6
<1> HIDE DEF m
<1>8. CASE UNCHANGED cq
  BY <1>7, <1>8
<1>9. CASE cq # <<>> /\ cq' = Tail(cq) /\ ~Brings(Head(cq))
  <2>1. /\ WaitingIn(cq, m) = ChunkIn(Head(cq), m) \o WaitingIn(Tail(cq), m)
        /\ WaitingIn(Tail(cq), m) \in Seq(Bytes)
    BY <1>2, <1>7, <1>9, WaitingTail
  <2>2. ChunkIn(Head(cq), m) = <<>>
    BY <1>9 DEF ChunkIn
  <2> DEFINE rest == WaitingIn(Tail(cq), m)
  <2>3. rest \in Seq(Bytes) /\ Waiting' = rest /\ Waiting = <<>> \o rest
    BY <1>7, <1>9, <2>1, <2>2
  <2> HIDE DEF rest
  <2> QED BY <2>3, ConcatEmptySeq
<1>10. CASE \E cqe \in Cqes : ~Brings(cqe) /\ cq' = Append(cq, cqe)
  <2>1. PICK cqe \in Cqes : ~Brings(cqe) /\ cq' = Append(cq, cqe)
    BY <1>10
  <2>2. WaitingIn(Append(cq, cqe), m) = WaitingIn(cq, m) \o ChunkIn(cqe, m)
    BY <1>2, <1>7, <2>1, WaitingAppend
  <2>3. ChunkIn(cqe, m) = <<>>
    BY <2>1 DEF ChunkIn
  <2>4. Waiting \in Seq(Bytes) /\ Waiting' = Waiting \o <<>>
    BY <1>1, <1>7, <2>1, <2>2, <2>3 DEF Tracked
  <2> QED BY <2>4, ConcatEmptySeq
<1> QED BY <1>8, <1>9, <1>10

\* The parser stays where it is.
LEMMA PlaceStays ==
    ASSUME UNCHANGED parser_vars, NEW start
    PROVE  HeaderParsed' = HeaderParsed /\ Position(start)' = Position(start)
  BY DEF parser_vars, HeaderParsed, Position

\* What was parsed of the current frame is still in its place.
LEMMA ReadStays ==
    ASSUME OwnInv, Running, [Next]_vars, UNCHANGED parser_vars,
           NEW start, HeaderRead(start), PayloadRead(start)
    PROVE  HeaderRead(start)' /\ PayloadRead(start)'
<1>1. /\ UNCHANGED <<state_, header_, frame_, payload_progress_>> /\ wire' = wire
      /\ HeaderParsed' = HeaderParsed
  BY PlaceStays, WireSame DEF parser_vars
<1>2. IovIn(frame_.segments, mem') = IovIn(frame_.segments, mem)
  BY FramesKept
<1>3. HeaderRead(start)'
  BY <1>1 DEF HeaderRead
<1>4. PayloadRead(start)'
  BY <1>1, <1>2 DEF PayloadRead
<1> QED BY <1>3, <1>4

\* Steps that neither parse nor bring or take a chunk.
LEMMA QuietParses ==
    ASSUME OwnInv, Running, [Next]_vars, UNCHANGED <<parser_vars, input_buffer_queue_, pos>>,
           \/ UNCHANGED cq
           \/ cq # <<>> /\ cq' = Tail(cq) /\ ~Brings(Head(cq))
           \/ \E cqe \in Cqes : ~Brings(cqe) /\ cq' = Append(cq, cqe),
           NEW start, ParsesFrom(start)
    PROVE  ParsesFrom(start)'
<1>1. ShapeInv /\ Tracked
  BY TrackedFacts DEF OwnInv, RefsInv
<1>2. HeaderRead(start)' /\ PayloadRead(start)'
  BY ReadStays DEF ParsesFrom
<1>3. /\ wire' = wire /\ pos' = pos /\ Position(start)' = Position(start)
      /\ input_buffer_queue_' = input_buffer_queue_ /\ Unparsed' = Unparsed
      /\ Input' = Input
  BY PlaceStays, WireSame DEF Unparsed, Input
<1>4. Waiting' = Waiting
  BY WaitingStays
<1>5. ChunkRead(start)'
  <2>1. CASE input_buffer_queue_ = <<>>
    <3>1. Unparsed' = 0
      BY <1>1, <1>3, <2>1 DEF Tracked
    <3> QED BY <3>1 DEF ChunkRead
  <2>2. CASE input_buffer_queue_ # <<>>
    <3>1. mem'[Input.bid] = mem[Input.bid]
      BY <1>1, <2>2, BuffersKept DEF Tracked
    <3> QED BY <1>3, <3>1 DEF ChunkRead, ParsesFrom
  <2> QED BY <2>1, <2>2
<1>6. WaitingRead(start)'
  BY <1>3, <1>4 DEF WaitingRead, ParsesFrom
<1> QED BY <1>2, <1>5, <1>6 DEF ParsesFrom

\* The kernel brings the next bytes of the stream.
LEMMA FillParses ==
    ASSUME OwnInv, NEW n \in 1..buffer_size, NEW more \in BOOLEAN, KernelRecv(n, more),
           NEW start \in Nat, ParsesFrom(start)
    PROVE  ParsesFrom(start)'
<1>1. /\ ShapeInv /\ Types /\ Running /\ [Next]_vars
  BY DEF OwnInv, RefsInv, ShapeInv, KernelRecv, KernelStep, Running, Next, Kernel
<1>2. Tracked
  BY <1>1, TrackedFacts
<1> DEFINE cqe == Cqe("RECV", n, Head(br_), more)
           m == mem'
<1>3. /\ Head(br_) \in Bids /\ n \in Nat /\ pos \in Nat /\ pos' = pos + n /\ pos' \in 0..Len(wire)
      /\ m \in [Bids -> Seq(Bytes)] /\ n <= Len(m[Head(br_)])
      /\ SubSeq(m[Head(br_)], 1, n) = SubSeq(wire, pos + 1, pos + n)
      /\ cqe \in RecvCqes /\ cq' = Append(cq, cqe)
      /\ UNCHANGED <<own_vars, handler_vars, run_result, wire, writing, tun_tx>>
  BY <1>1, KernelRecvFacts
<1>4. /\ UNCHANGED parser_vars /\ wire' = wire
      /\ Position(start)' = Position(start)
      /\ input_buffer_queue_' = input_buffer_queue_ /\ Unparsed' = Unparsed
      /\ Input' = Input
  BY <1>3, PlaceStays DEF own_vars, Unparsed, Input
<1>5. HeaderRead(start)' /\ PayloadRead(start)'
  BY <1>1, <1>4, ReadStays DEF ParsesFrom
<1>6. ChunkRead(start)'
  <2>1. CASE input_buffer_queue_ = <<>>
    <3>1. Unparsed' = 0
      BY <1>2, <1>4, <2>1 DEF Tracked
    <3> QED BY <3>1 DEF ChunkRead
  <2>2. CASE input_buffer_queue_ # <<>>
    <3>1. mem'[Input.bid] = mem[Input.bid]
      BY <1>1, <1>2, <2>2, BuffersKept DEF Tracked
    <3> QED BY <1>4, <3>1 DEF ChunkRead, ParsesFrom
  <2> QED BY <2>1, <2>2
<1>7. \A i \in DOMAIN cq : Brings(cq[i]) => mem'[cq[i].bid] = mem[cq[i].bid]
  <2> SUFFICES ASSUME NEW i \in DOMAIN cq, Brings(cq[i])
               PROVE  mem'[cq[i].bid] = mem[cq[i].bid]
    OBVIOUS
  <2>1. cq[i].bid \in {cq[j].bid : j \in Filled}
    BY DEF Filled, Brings
  <2> QED BY <1>1, <2>1, BuffersKept
<1>8. WaitingIn(cq, m) = Waiting /\ ChunksIn(cq, m)
  <2>1. WaitingIn(cq, mem') = Waiting
    BY <1>7, WaitingSame DEF Waiting
  <2>2. ChunksIn(cq, mem')
    BY <1>2, <1>7 DEF ChunksIn, Tracked
  <2> QED BY <2>1, <2>2
<1>9. /\ cqe \in Cqes /\ cqe.bid = Head(br_) /\ cqe.result = n
      /\ cqe.type = "RECV" /\ Head(br_) # NoBid
  BY <1>3, BidsFacts DEF Cqe, Cqes
<1>10. Waiting' = WaitingIn(Append(cq, cqe), m)
  BY <1>3 DEF Waiting
<1> HIDE DEF m, cqe
<1>11. ChunkIn(cqe, m) = SubSeq(wire, pos + 1, pos + n) /\ Brings(cqe)
       /\ (Brings(cqe) => cqe.result <= Len(m[cqe.bid]))
  BY <1>3, <1>9 DEF ChunkIn, Brings
<1>12. cq \in Seq(Cqes)
  BY <1>1 DEF Types
<1>13. WaitingIn(Append(cq, cqe), m) = WaitingIn(cq, m) \o ChunkIn(cqe, m)
  BY <1>3, <1>8, <1>9, <1>11, <1>12, WaitingAppend
<1>14. WaitingRead(start)'
  <2> DEFINE a == Position(start) + Unparsed
             b == pos
             c == pos + n
  <2>1. /\ a \in Nat /\ b \in Nat /\ c \in Nat /\ a <= b /\ b <= c /\ c <= Len(wire)
    <3>1. Position(start) \in Nat /\ Unparsed \in Nat
      BY <1>2, WireSizeAssumption DEF Tracked, Position
    <3>2. a <= b
      BY DEF ParsesFrom, WaitingRead
    <3> QED BY <1>2, <1>3, <3>1, <3>2 DEF Tracked
  <2>2. wire \in Seq(Bytes)
    BY <1>1 DEF Types
  <2>3. Waiting = SubSeq(wire, a + 1, b)
    BY DEF ParsesFrom, WaitingRead
  <2>4. ChunkIn(cqe, m) = SubSeq(wire, b + 1, c)
    BY <1>11
  <2>5. pos' = c /\ Position(start)' + Unparsed' = a
    BY <1>3, <1>4
  <2> HIDE DEF a, b, c
  <2>6. SubSeq(wire, a + 1, b) \o SubSeq(wire, b + 1, c) = SubSeq(wire, a + 1, c)
    BY <2>1, <2>2, SlicesJoin
  <2>7. Waiting' = SubSeq(wire, a + 1, c)
    BY <1>8, <1>10, <1>13, <2>3, <2>4, <2>6
  <2>8. a <= c
    BY <2>1
  <2> QED BY <1>4, <2>5, <2>7, <2>8 DEF WaitingRead
<1> QED BY <1>5, <1>6, <1>14 DEF ParsesFrom

\* The receiver takes the next chunk.
LEMMA ChunkParses ==
    ASSUME OwnInv, RecvChunk, NEW start \in Nat, ParsesFrom(start)
    PROVE  ParsesFrom(start)'
<1>1. /\ ShapeInv /\ Types /\ Running /\ [Next]_vars /\ Handling
  BY DEF OwnInv, RefsInv, ShapeInv, RecvChunk, Handles, Running, Next, Handle, Shape
<1>2. Tracked
  BY <1>1, TrackedFacts
<1>3. /\ cqe_ = idle /\ cq # <<>> /\ cq' = Tail(cq) /\ UNCHANGED <<mem, wire, pos, tun_tx>>
      /\ Head(cq) \in Cqes /\ Head(cq).type = "RECV"
  BY <1>1, HandlesFacts DEF RecvChunk
<1>4. input_buffer_queue_ = <<>> /\ Unparsed = 0
  BY <1>1, <1>2, <1>3 DEF Handling, idle, Cqe, Tracked
<1> DEFINE chunk == [bid |-> Head(cq).bid, size |-> Head(cq).result, offset |-> 0]
           x == ChunkIn(Head(cq), mem)
           y == WaitingIn(Tail(cq), mem)
<1>5. /\ UNCHANGED parser_vars /\ Brings(Head(cq))
      /\ input_buffer_queue_' = <<chunk>>
  BY <1>3, <1>4 DEF RecvChunk, Brings
<1>6. /\ Head(cq).result \in Nat /\ Len(x) = Head(cq).result
      /\ \A k \in 1..Head(cq).result : x[k] = mem[Head(cq).bid][k]
  <2>1. mem \in [Bids -> Seq(Bytes)] /\ Head(cq).result <= Len(mem[Head(cq).bid])
    <3>1. Head(cq) = cq[1] /\ 1 \in DOMAIN cq
      BY <1>1, <1>3, TakenFacts
    <3> QED BY <1>1, <1>2, <1>5, <3>1 DEF Tracked, ChunksIn, Types
  <2>2. /\ Head(cq).result \in 1..buffer_size
        /\ Len(ChunkIn(Head(cq), mem)) = Head(cq).result
        /\ \A k \in 1..Head(cq).result :
              ChunkIn(Head(cq), mem)[k] = mem[Head(cq).bid][k]
    BY <1>3, <1>5, <2>1, ChunkType
  <2> QED BY <2>2
<1>7. Waiting = x \o y /\ x \in Seq(Bytes) /\ y \in Seq(Bytes)
  BY <1>1, <1>2, <1>3, WaitingTail DEF Waiting, Tracked, Types
<1>8. Waiting' = y
  BY <1>3 DEF Waiting
<1>9. Unparsed' = Head(cq).result /\ Input'.bid = Head(cq).bid /\ Input'.offset = 0
  <2>1. input_buffer_queue_' # <<>> /\ Input' = chunk
    BY <1>5 DEF Input
  <2>2. Unparsed' = chunk.size - chunk.offset
    BY <2>1 DEF Unparsed
  <2> QED BY <1>6, <2>1, <2>2
<1>10. Position(start)' = Position(start)
  BY <1>5, PlaceStays
<1> DEFINE a == Position(start)
           n == Head(cq).result
<1>11. /\ a \in Nat /\ a <= pos /\ pos <= Len(wire) /\ x \o y = SubSeq(wire, a + 1, pos)
       /\ pos \in Nat
  <2>1. Position(start) \in Nat
    BY <1>2, WireSizeAssumption DEF Tracked, Position
  <2>2. Position(start) + 0 <= pos /\ Waiting = SubSeq(wire, (Position(start) + 0) + 1, pos)
    BY <1>4 DEF ParsesFrom, WaitingRead
  <2>3. Position(start) + 0 = Position(start)
    BY <2>1
  <2> QED BY <1>2, <1>7, <2>1, <2>2, <2>3 DEF Tracked
<1>12. wire \in Seq(Bytes)
  BY <1>1 DEF Types
<1> HIDE DEF chunk, x, y, a, n
<1>13. /\ a + Len(x) <= pos /\ x = SubSeq(wire, a + 1, a + Len(x))
       /\ y = SubSeq(wire, a + Len(x) + 1, pos)
  <2>1. Joined(x, y) = Slice(wire, a, pos)
    BY <1>11 DEF Joined, Slice
  <2>2. /\ a \in Nat /\ pos \in Nat /\ a <= pos /\ pos <= Len(wire)
        /\ wire \in Seq(Bytes) /\ x \in Seq(Bytes) /\ y \in Seq(Bytes)
    BY <1>7, <1>11, <1>12
  <2>3. Cuts(wire, a, pos, x, y)
    BY <2>1, <2>2, SliceCut
  <2> QED BY <2>3 DEF Cuts
<1>14. Len(x) = n /\ n \in Nat
  BY <1>6 DEF n
<1>15. ChunkRead(start)'
  <2> SUFFICES ASSUME NEW k \in 1..n
               PROVE  mem'[Input'.bid][Input'.offset + k] = wire'[Position(start)' + k]
    BY <1>9 DEF ChunkRead, n
  <2>1. mem'[Input'.bid][Input'.offset + k] = x[k]
    <3>1. 0 + k = k /\ mem' = mem
      BY <1>3, <1>14
    <3> QED BY <1>6, <1>9, <3>1 DEF n
  <2>2. x[k] = wire[a + k]
    <3> DEFINE b == a + n
    <3>1. /\ b \in Nat /\ a <= b /\ b <= Len(wire) /\ x = SubSeq(wire, a + 1, b)
          /\ b - a = n
      BY <1>11, <1>12, <1>13, <1>14
    <3> HIDE DEF b
    <3>2. \A i \in 1..(b - a) : SubSeq(wire, a + 1, b)[i] = wire[a + i]
      BY <1>11, <1>12, <3>1, SliceFacts
    <3> QED BY <3>1, <3>2
  <2> QED BY <1>3, <1>10, <2>1, <2>2 DEF a
<1>16. WaitingRead(start)'
  <2>1. Position(start)' + Unparsed' = a + Len(x)
    BY <1>9, <1>10, <1>14 DEF a, n
  <2>2. Waiting' = SubSeq(wire, a + Len(x) + 1, pos)
    BY <1>8, <1>13
  <2> QED BY <1>3, <1>13, <2>1, <2>2 DEF WaitingRead
<1>17. HeaderRead(start)' /\ PayloadRead(start)'
  BY <1>1, <1>5, ReadStays DEF ParsesFrom
<1> QED BY <1>15, <1>16, <1>17 DEF ParsesFrom

-----------------------------------------------------------------------------
(* Parsing *)

\* What an iteration of kick_parse_ that goes on consumes.
Consumes(take) ==
    /\ Input.offset + take <= Input.size
    /\ Input.offset + take = Input.size => input_buffer_queue_' = <<>>
    /\ Input.offset + take # Input.size => input_buffer_queue_' = <<Advanced(Input, take)>>

\* Both parts of the parser consume the bytes they take from the current chunk.
LEMMA ParseConsumes ==
    ASSUME ShapeInv, Running'
    PROVE  /\ ParseHeader => Consumes(HeaderTake)
           /\ ParsePayload => Consumes(PayloadTake)
<1>1. Types
  BY DEF ShapeInv
<1>2. ASSUME Running, input_buffer_queue_ # <<>>, NEW take \in Nat,
             Input.offset + take <= Input.size, NEW refcounts \in [Bids -> Int],
             Consume(take, refcounts, "None")
      PROVE  Consumes(take)
  <2>1. /\ input_buffer_queue_ \in Seq(Chunks) /\ Len(input_buffer_queue_) <= 1
        /\ br_ \in Seq(Bids) /\ used_buffers_ \in Int
    BY <1>1, <1>2 DEF Types, ShapeInv, Shape, Handling
  <2>2. Input = Head(input_buffer_queue_)
    BY DEF Input
  <2> DEFINE result == "None"
  <2>3. Consume(take, refcounts, result)
    BY <1>2
  <2> HIDE DEF result
  <2>4. /\ Finishes(Input, take, result) => input_buffer_queue_' = <<>>
        /\ ~Finishes(Input, take, result) => input_buffer_queue_' = <<Advanced(Input, take)>>
    BY <1>2, <2>1, <2>2, <2>3, ConsumeFacts
  <2> QED BY <1>2, <2>4 DEF Finishes, Consumes, result
<1>3. ASSUME ParseHeader PROVE Consumes(HeaderTake)
  <2>1. buffer_refcounts_ \in [Bids -> Int]
    BY <1>1 DEF Types
  <2>2. /\ Running /\ input_buffer_queue_ # <<>> /\ HeaderTake \in Nat
        /\ Input.offset + HeaderTake <= Input.size
        /\ Consume(HeaderTake, buffer_refcounts_, HeaderResult) /\ HeaderResult = "None"
    BY <1>3, HeaderStep, ParseResults
  <2> QED BY <1>2, <2>1, <2>2
<1>4. ASSUME ParsePayload PROVE Consumes(PayloadTake)
  <2>1. /\ Running /\ input_buffer_queue_ # <<>> /\ PayloadTake \in Nat
        /\ Input.offset + PayloadTake <= Input.size
        /\ Referenced(Input.bid) \in [Bids -> Int]
        /\ Consume(PayloadTake, Referenced(Input.bid), PayloadResult)
        /\ PayloadResult = "None"
    BY <1>4, PayloadStep, ParseResults
  <2> QED BY <1>2, <2>1
<1> QED BY <1>3, <1>4

\* The rest of the chunk and the chunks behind it stay in their place.
LEMMA ConsumeReads ==
    ASSUME ShapeInv, Running, input_buffer_queue_ # <<>>, NEW take \in Nat, Consumes(take),
           UNCHANGED <<mem, cq, pos, wire>>, NEW start \in Nat, NEW later \in Nat,
           Position(later)' = Position(start) + take,
           ChunkRead(start), WaitingRead(start)
    PROVE  ChunkRead(later)' /\ WaitingRead(later)'
<1>1. Tracked
  BY TrackedFacts
<1>2. /\ Unparsed = Input.size - Input.offset /\ Input.offset \in Nat /\ Input.size \in Nat
      /\ Position(start) \in Nat /\ Input.offset + take <= Input.size
  BY <1>1, WireSizeAssumption DEF Tracked, Position, Consumes
<1>3. Unparsed' = Unparsed - take
  <2>1. CASE Input.offset + take = Input.size
    <3>1. Unparsed' = 0
      BY <2>1 DEF Consumes, Unparsed
    <3> QED BY <1>2, <2>1, <3>1
  <2>2. CASE Input.offset + take # Input.size
    <3>1. input_buffer_queue_' = <<Advanced(Input, take)>>
      BY <2>2 DEF Consumes
    <3>2. input_buffer_queue_' # <<>> /\ Input' = Advanced(Input, take)
      BY <3>1 DEF Input
    <3>3. Unparsed' = Input.size - (Input.offset + take)
      BY <3>2 DEF Unparsed, Advanced
    <3> QED BY <1>2, <3>3
  <2> QED BY <2>1, <2>2
<1>4. ChunkRead(later)'
  <2> SUFFICES ASSUME NEW k \in 1..Unparsed'
               PROVE  mem'[Input'.bid][Input'.offset + k] = wire'[Position(later)' + k]
    BY DEF ChunkRead
  <2>1. Input.offset + take # Input.size
    BY <1>2, <1>3
  <2>2. Input' = Advanced(Input, take)
    BY <2>1 DEF Consumes, Input
  <2>3. Input'.bid = Input.bid /\ Input'.offset + k = Input.offset + (take + k)
    BY <1>2, <2>2 DEF Advanced
  <2>4. take + k \in 1..Unparsed
    BY <1>2, <1>3
  <2>5. mem[Input.bid][Input.offset + (take + k)] = wire[Position(start) + (take + k)]
    BY <2>4 DEF ChunkRead
  <2>6. Position(later)' + k = Position(start) + (take + k)
    BY <1>2
  <2> QED BY <2>3, <2>5, <2>6
<1>5. Waiting' = Waiting
  BY DEF Waiting
<1>6. Position(later)' + Unparsed' = Position(start) + Unparsed
  BY <1>2, <1>3
<1>7. WaitingRead(later)'
  BY <1>5, <1>6 DEF WaitingRead
<1> QED BY <1>4, <1>7

\* The bytes an iteration consumes are the next ones of the stream.
LEMMA TakenBytes ==
    ASSUME ShapeInv, Running, input_buffer_queue_ # <<>>, NEW take \in Nat,
           Input.offset + take <= Input.size, NEW start \in Nat,
           ChunkRead(start), WaitingRead(start)
    PROVE  /\ Position(start) \in Nat /\ Position(start) + take <= Len(wire)
           /\ \A k \in 1..take : mem[Input.bid][Input.offset + k] = wire[Position(start) + k]
<1>1. Tracked
  BY TrackedFacts
<1>2. /\ Unparsed = Input.size - Input.offset /\ Input.offset \in Nat /\ Input.size \in Nat
      /\ Position(start) \in Nat /\ pos \in Nat /\ Len(wire) \in Nat /\ pos <= Len(wire)
  BY <1>1, WireSizeAssumption DEF Tracked, Position
<1>3. Position(start) + Unparsed <= pos
  BY DEF WaitingRead
<1>4. \A k \in 1..take : k \in 1..Unparsed
  BY <1>2
<1> QED BY <1>2, <1>3, <1>4 DEF ChunkRead

\* A header that has the bytes of the stream is the header of the stream.
LEMMA HeaderIs ==
    ASSUME Types, NEW start \in Nat, start + wire_size <= Len(wire),
           NEW header \in [1..wire_size -> Bytes],
           \A k \in 1..wire_size : header[k] = wire[start + k]
    PROVE  header = HeaderAt(wire, start)
<1>1. wire \in Seq(Bytes)
  BY DEF Types
<1>2. /\ HeaderAt(wire, start) \in [1..wire_size -> Bytes]
      /\ \A k \in 1..wire_size : HeaderAt(wire, start)[k] = wire[start + k]
  BY <1>1, EndFacts
<1> DEFINE h == HeaderAt(wire, start)
<1>3. h \in [1..wire_size -> Bytes] /\ \A k \in 1..wire_size : h[k] = header[k]
  BY <1>2
<1> HIDE DEF h
<1>4. header = h
  <2> DEFINE n == wire_size
  <2>1. /\ h \in [1..n -> Bytes] /\ header \in [1..n -> Bytes]
        /\ \A k \in 1..n : h[k] = header[k]
    BY <1>3
  <2>2. h = [k \in 1..n |-> h[k]] /\ header = [k \in 1..n |-> header[k]]
    BY <2>1
  <2>3. [k \in 1..n |-> h[k]] = [k \in 1..n |-> header[k]]
    BY <2>1
  <2> HIDE DEF n
  <2> QED BY <2>2, <2>3
<1> QED BY <1>4 DEF h

\* The header after an iteration.
LEMMA HeaderGrows ==
    ASSUME ShapeInv, ParseHeader, NEW start \in Nat, ParsesFrom(start)
    PROVE  /\ Position(start) = start + header_progress_
           /\ header_progress_ \in Nat
           /\ start + (header_progress_ + HeaderTake) <= Len(wire)
           /\ \A k \in 1..(header_progress_ + HeaderTake) : header_'[k] = wire[start + k]
           /\ header_' \in [1..wire_size -> Bytes]
<1>1. /\ Running /\ input_buffer_queue_ # <<>> /\ state_ = "PARSING_HEADER"
      /\ HeaderTake \in Nat /\ header_progress_ + HeaderTake <= wire_size
      /\ Input.offset + HeaderTake <= Input.size
      /\ header_' = CopyHeader(Input, HeaderTake) /\ header_' \in [1..wire_size -> Bytes]
  BY HeaderStep
<1>2. /\ header_progress_ \in Nat /\ wire_size \in Nat /\ payload_progress_ = 0
  BY <1>1, WireSizeAssumption DEF ShapeInv, Shape, Parser, Types
<1>3. HeaderParsed = header_progress_ /\ Position(start) = start + header_progress_
  BY <1>1, <1>2 DEF HeaderParsed, Position
<1>4. /\ Position(start) + HeaderTake <= Len(wire)
      /\ \A k \in 1..HeaderTake :
            mem[Input.bid][Input.offset + k] = wire[Position(start) + k]
  BY <1>1, TakenBytes DEF ParsesFrom
<1>5. \A k \in 1..header_progress_ : header_[k] = wire[start + k]
  BY <1>3 DEF ParsesFrom, HeaderRead
<1>6. ASSUME NEW k \in 1..(header_progress_ + HeaderTake) PROVE header_'[k] = wire[start + k]
  <2>1. k \in 1..wire_size
    BY <1>1, <1>2
  <2>2. header_'[k] = IF k > header_progress_ /\ k <= header_progress_ + HeaderTake
                      THEN mem[Input.bid][Input.offset + (k - header_progress_)]
                      ELSE header_[k]
    BY <1>1, <2>1 DEF CopyHeader
  <2>3. CASE k > header_progress_
    <3> DEFINE i == k - header_progress_
    <3>1. i \in 1..HeaderTake /\ Position(start) + i = start + k
      BY <1>1, <1>2, <1>3, <2>3
    <3>2. header_'[k] = mem[Input.bid][Input.offset + i]
      BY <1>1, <1>2, <2>2, <2>3
    <3> HIDE DEF i
    <3> QED BY <1>4, <3>1, <3>2
  <2>4. CASE ~(k > header_progress_)
    <3>1. k \in 1..header_progress_
      BY <1>2, <2>4
    <3> QED BY <1>5, <2>2, <2>4, <3>1
  <2> QED BY <2>3, <2>4
<1>7. Len(wire) \in Nat
  BY <1>1, TrackedFacts DEF Tracked
<1>8. start + (header_progress_ + HeaderTake) <= Len(wire)
  BY <1>1, <1>2, <1>3, <1>4, <1>7
<1> QED BY <1>1, <1>2, <1>3, <1>6, <1>8

\* An iteration that parses header bytes and goes on.
LEMMA HeaderParses ==
    ASSUME ShapeInv, Running', ParseHeader, NEW start \in Nat, ParsesFrom(start)
    PROVE  ParsesFrom(start)'
<1>1. /\ Running /\ input_buffer_queue_ # <<>> /\ state_ = "PARSING_HEADER"
      /\ HeaderTake \in Nat /\ header_progress_ + HeaderTake <= wire_size
      /\ header_' = CopyHeader(Input, HeaderTake)
      /\ header_progress_' = IF HeaderComplete THEN 0 ELSE header_progress_ + HeaderTake
      /\ state_' = IF HeaderComplete /\ HeaderResult = "None"
                   THEN "PARSING_PAYLOAD" ELSE "PARSING_HEADER"
      /\ UNCHANGED <<frame_, payload_progress_, mem, cq, wire, pos>>
      /\ HeaderResult = "None"
  BY HeaderStep, ParseResults
<1>2. /\ header_progress_ \in Nat /\ wire_size \in Nat /\ payload_progress_ = 0
      /\ frame_ = EmptyFrame
  BY <1>1, WireSizeAssumption DEF ShapeInv, Shape, Parser, Types
<1>3. /\ Position(start) = start + header_progress_
      /\ start + (header_progress_ + HeaderTake) <= Len(wire)
      /\ \A k \in 1..(header_progress_ + HeaderTake) : header_'[k] = wire[start + k]
  BY HeaderGrows
<1>4. HeaderParsed' = header_progress_ + HeaderTake
  <2>1. CASE HeaderComplete
    <3>1. state_' = "PARSING_PAYLOAD" /\ header_progress_ + HeaderTake = wire_size
      BY <1>1, <2>1 DEF HeaderComplete
    <3> QED BY <3>1 DEF HeaderParsed
  <2>2. CASE ~HeaderComplete
    <3>1. state_' = "PARSING_HEADER" /\ header_progress_' = header_progress_ + HeaderTake
      BY <1>1, <2>2
    <3> QED BY <3>1 DEF HeaderParsed
  <2> QED BY <2>1, <2>2
<1>5. Position(start)' = Position(start) + HeaderTake
  <2>1. Position(start)' = start + (header_progress_ + HeaderTake) + 0
    BY <1>1, <1>2, <1>4 DEF Position
  <2> QED BY <1>1, <1>2, <1>3, <2>1
<1>6. ChunkRead(start)' /\ WaitingRead(start)'
  <2>1. Consumes(HeaderTake)
    BY ParseConsumes
  <2> QED BY <1>1, <1>5, <2>1, ConsumeReads DEF ParsesFrom
<1>7. HeaderRead(start)'
  <2>1. state_' = "PARSING_PAYLOAD" => is_magic_valid(header_')
    <3>1. ASSUME state_' = "PARSING_PAYLOAD" PROVE HeaderFailure(header_') = "None"
      BY <1>1, <3>1 DEF HeaderResult
    <3> QED BY <3>1 DEF HeaderFailure
  <2>2. \A k \in 1..HeaderParsed' : header_'[k] = wire'[start + k]
    BY <1>1, <1>3, <1>4
  <2> QED BY <2>1, <2>2 DEF HeaderRead
<1>8. PayloadRead(start)'
  <2>1. IovIn(frame_.segments, mem)' = <<>>
    BY <1>1, <1>2, IovEmpty DEF EmptyFrame
  <2> SUFFICES ASSUME state_' = "PARSING_PAYLOAD"
               PROVE  IovIn(frame_.segments, mem)'
                        = SubSeq(wire, start + wire_size + 1, start + wire_size + 0)'
    BY <1>1, <1>2 DEF PayloadRead
  <2> DEFINE a == start + wire_size
  <2>2. HeaderComplete
    BY <1>1
  <2>3. a \in Nat /\ a <= a /\ a <= Len(wire) /\ wire \in Seq(Bytes)
    BY <1>1, <1>2, <1>3, <2>2 DEF HeaderComplete, ShapeInv, Types
  <2>4. a + 0 = a /\ a - a = 0
    BY <2>3
  <2> HIDE DEF a
  <2>5. SubSeq(wire, a + 1, a) \in Seq(Bytes) /\ Len(SubSeq(wire, a + 1, a)) = a - a
    BY <2>3, SliceFacts
  <2>6. SubSeq(wire, a + 1, a) = <<>>
    BY <2>4, <2>5, EmptyFacts
  <2>7. SubSeq(wire, a + 1, a + 0)' = <<>>
    BY <1>1, <2>4, <2>6 DEF a
  <2> QED BY <2>1, <2>7 DEF a
<1> QED BY <1>6, <1>7, <1>8 DEF ParsesFrom

\* A header that is rejected is rejected in the stream.
LEMMA HeaderRejected ==
    ASSUME ShapeInv, ParseHeader, HeaderResult # "None",
           NEW start \in Nat, ParsesFrom(start)
    PROVE  HeaderResult = Rest(start).error
<1>1. /\ HeaderComplete /\ HeaderResult = HeaderFailure(header_')
      /\ HeaderTake \in Nat
  BY HeaderStep DEF HeaderResult
<1>2. /\ header_progress_ + HeaderTake = wire_size
      /\ start + wire_size <= Len(wire)
      /\ \A k \in 1..wire_size : header_'[k] = wire[start + k]
      /\ header_' \in [1..wire_size -> Bytes]
  BY <1>1, HeaderGrows DEF HeaderComplete
<1>3. Types /\ wire \in Seq(Bytes)
  BY DEF ShapeInv, Types
<1> DEFINE header == header_'
<1>4. header = HeaderAt(wire, start)
  BY <1>2, <1>3, HeaderIs
<1>5. header \in [1..wire_size -> Bytes] /\ HeaderResult = HeaderFailure(header)
  BY <1>1, <1>2
<1> HIDE DEF header
<1> DEFINE here == Rest(start)
<1>6. here = Decoded(wire, mtu)[start]
  BY DEF Rest
<1> HIDE DEF here
<1>7. /\ ~is_magic_valid(header) => here.error = "InvalidMagic"
      /\ is_magic_valid(header) /\ get_size(header) \notin 1..mtu
           => here.error = "InvalidSize"
  BY <1>2, <1>3, <1>4, <1>6, FrameRejected
<1>8. get_size(header) \in Nat /\ mtu \in Nat
  BY <1>5, HeaderFacts, ReceiverAssumption
<1>9. HeaderResult = here.error
  BY <1>5, <1>7, <1>8 DEF HeaderFailure
<1> QED BY <1>9 DEF here

\* While a payload is parsed the header is that of the stream.
HeaderKnown(start) ==
    /\ start + wire_size <= Len(wire)
    /\ header_ = HeaderAt(wire, start)
    /\ header_ \in [1..wire_size -> Bytes]
    /\ is_magic_valid(header_) /\ get_size(header_) \in 1..mtu
    /\ EndAt(wire, start) = start + wire_size + get_size(header_)
    /\ Position(start) = start + wire_size + payload_progress_
    /\ get_size(header_) \in Nat /\ payload_progress_ \in Nat /\ wire_size \in Nat
    /\ Len(wire) \in Nat /\ wire \in Seq(Bytes)

\* While a payload is parsed, the header in hand is the one on the wire.
LEMMA HeaderIsKnown ==
    ASSUME ShapeInv, Running, state_ = "PARSING_PAYLOAD", NEW start \in Nat, ParsesFrom(start)
    PROVE  HeaderKnown(start)
<1>1. /\ Types /\ Tracked /\ header_ \in [1..wire_size -> Bytes]
      /\ get_size(header_) \in 1..mtu /\ mtu \in Nat /\ wire_size \in Nat
      /\ payload_progress_ \in Nat /\ Len(wire) \in Nat /\ wire \in Seq(Bytes)
  BY TrackedFacts, WireSizeAssumption, ReceiverAssumption
     DEF ShapeInv, Shape, Parser, Types, Tracked
<1>2. HeaderParsed = wire_size /\ Position(start) = start + wire_size + payload_progress_
  BY DEF HeaderParsed, Position
<1>3. start + wire_size <= Len(wire)
  <2>1. Position(start) + Unparsed <= pos /\ pos <= Len(wire) /\ Unparsed \in Nat /\ pos \in Nat
    BY <1>1 DEF ParsesFrom, WaitingRead, Tracked
  <2> QED BY <1>1, <1>2, <2>1
<1>4. (\A k \in 1..wire_size : header_[k] = wire[start + k]) /\ is_magic_valid(header_)
  BY <1>2 DEF ParsesFrom, HeaderRead
<1>5. header_ = HeaderAt(wire, start)
  BY <1>1, <1>3, <1>4, HeaderIs
<1>6. EndAt(wire, start) = start + wire_size + get_size(header_)
  BY <1>5 DEF EndAt
<1>7. get_size(header_) \in Nat
  BY <1>1
<1> QED BY <1>1, <1>2, <1>3, <1>4, <1>5, <1>6, <1>7 DEF HeaderKnown

\* The payload after an iteration.
LEMMA PayloadGrows ==
    ASSUME ShapeInv, ParsePayload, NEW start \in Nat, ParsesFrom(start)
    PROVE  /\ HeaderKnown(start) /\ PayloadTake \in Nat
           /\ start + wire_size + (payload_progress_ + PayloadTake) <= Len(wire)
           /\ IovIn(PayloadFrame.segments, mem)
                = SubSeq(wire, start + wire_size + 1,
                         start + wire_size + (payload_progress_ + PayloadTake))
<1>1. /\ Running /\ input_buffer_queue_ # <<>> /\ state_ = "PARSING_PAYLOAD"
      /\ PayloadTake \in 1..buffer_size /\ PayloadTake \in Nat
      /\ Input.offset + PayloadTake <= Input.size
  BY PayloadStep
<1>2. HeaderKnown(start)
  BY <1>1, HeaderIsKnown
<1> DEFINE a == start + wire_size
           b == Position(start)
           c == Position(start) + PayloadTake
           segment == [base |-> Input.bid, from |-> Input.offset, len |-> PayloadTake]
           segments == frame_.segments
           piece == PieceOf(segment, mem)
<1>3. /\ b \in Nat /\ c <= Len(wire)
      /\ \A k \in 1..PayloadTake : mem[Input.bid][Input.offset + k] = wire[b + k]
  BY <1>1, TakenBytes DEF ParsesFrom
<1>4. /\ Input.bid \in Bids /\ Input.offset \in Nat /\ Input.offset \in 0..buffer_size
      /\ Input.size <= Len(mem[Input.bid]) /\ Input.size \in Nat
  BY <1>1, InputFacts
<1>5. /\ mem \in [Bids -> Seq(Bytes)] /\ segments \in Seq(Segments)
      /\ \A i \in DOMAIN segments :
            segments[i].from + segments[i].len <= Len(mem[segments[i].base])
  <2>1. frame_ \in FrameType /\ mem \in [Bids -> Seq(Bytes)] /\ Fits(frame_)
    BY <1>1 DEF ShapeInv, Types, Shape, Fitting
  <2> QED BY <2>1 DEF FrameType, Fits, FitsIn
<1>6. segment \in Segments /\ segment.base = Input.bid /\ segment.from = Input.offset
      /\ segment.len = PayloadTake
  BY <1>1, <1>4 DEF Segments
<1>7. segment.from + segment.len <= Len(mem[segment.base])
  <2>1. mem[Input.bid] \in Seq(Bytes)
    BY <1>4, <1>5
  <2>2. Len(mem[Input.bid]) \in Nat
    BY <2>1
  <2> QED BY <1>1, <1>4, <1>6, <2>2
<1>8. PayloadFrame.segments = Append(segments, segment)
  BY DEF PayloadFrame, AddSegment
<1>9. piece \in Seq(Bytes) /\ Len(piece) = PayloadTake
      /\ \A k \in 1..PayloadTake : piece[k] = mem[Input.bid][Input.offset + k]
  <2> DEFINE m == mem[Input.bid]
             x == Input.offset
             y == Input.offset + PayloadTake
  <2>1. m \in Seq(Bytes) /\ x \in Nat /\ y \in Nat /\ x <= y /\ y <= Len(m) /\ y - x = PayloadTake
    BY <1>1, <1>4, <1>5, <1>6, <1>7
  <2>2. piece = SubSeq(m, x + 1, y)
    BY <1>6 DEF PieceOf
  <2> HIDE DEF m, x, y, piece
  <2>3. /\ SubSeq(m, x + 1, y) \in Seq(Bytes) /\ Len(SubSeq(m, x + 1, y)) = y - x
        /\ \A k \in 1..(y - x) : SubSeq(m, x + 1, y)[k] = m[x + k]
    BY <2>1, SliceFacts
  <2> QED BY <2>1, <2>2, <2>3 DEF m, x
<1> HIDE DEF segment, segments, piece
<1>10. IovIn(Append(segments, segment), mem) = IovIn(segments, mem) \o piece
  BY <1>5, <1>6, <1>7, IovAppend DEF piece
<1>11. IovIn(segments, mem) = SubSeq(wire, a + 1, b)
  BY <1>1, <1>2 DEF ParsesFrom, PayloadRead, HeaderKnown, segments
<1>12. /\ a \in Nat /\ c \in Nat /\ a <= b /\ b <= c /\ c - b = PayloadTake
       /\ c = a + (payload_progress_ + PayloadTake) /\ wire \in Seq(Bytes)
  <2>1. /\ a \in Nat /\ wire_size \in Nat /\ payload_progress_ \in Nat
        /\ b = a + payload_progress_ /\ wire \in Seq(Bytes)
    BY <1>2 DEF HeaderKnown
  <2>2. c = b + PayloadTake /\ PayloadTake \in Nat /\ b \in Nat
    BY <1>1, <1>3
  <2> HIDE DEF a, b, c
  <2> QED BY <2>1, <2>2
<1>13. piece = SubSeq(wire, b + 1, c)
  <2>1. \A k \in 1..PayloadTake : piece[k] = wire[b + k]
    BY <1>3, <1>9
  <2> HIDE DEF a, b, c
  <2> QED BY <1>3, <1>9, <1>12, <2>1, SliceIs
<1>14. SubSeq(wire, a + 1, b) \o SubSeq(wire, b + 1, c) = SubSeq(wire, a + 1, c)
  <2> HIDE DEF a, b, c
  <2> QED BY <1>3, <1>12, SlicesJoin
<1>15. IovIn(PayloadFrame.segments, mem) = SubSeq(wire, a + 1, c)
  BY <1>8, <1>10, <1>11, <1>13, <1>14
<1> QED BY <1>1, <1>2, <1>3, <1>12, <1>15

\* An iteration in the middle of a payload.
LEMMA PayloadParses ==
    ASSUME ShapeInv, Running', ParsePayload, ~PayloadComplete,
           NEW start \in Nat, ParsesFrom(start)
    PROVE  ParsesFrom(start)'
<1>1. /\ Running /\ input_buffer_queue_ # <<>> /\ state_ = "PARSING_PAYLOAD"
      /\ frame_' = PayloadFrame /\ payload_progress_' = payload_progress_ + PayloadTake
      /\ UNCHANGED <<state_, header_, header_progress_, mem, cq, wire, pos>>
  BY PayloadStep
<1>2. /\ HeaderKnown(start) /\ PayloadTake \in Nat
      /\ IovIn(PayloadFrame.segments, mem)
           = SubSeq(wire, start + wire_size + 1,
                    start + wire_size + (payload_progress_ + PayloadTake))
  BY PayloadGrows
<1>3. HeaderParsed' = wire_size /\ HeaderParsed = wire_size
  BY <1>1 DEF HeaderParsed
<1>4. Position(start)' = Position(start) + PayloadTake
  <2>1. Position(start)' = start + wire_size + (payload_progress_ + PayloadTake)
    BY <1>1, <1>3 DEF Position
  <2> QED BY <1>2, <2>1 DEF HeaderKnown
<1>5. ChunkRead(start)' /\ WaitingRead(start)'
  <2>1. Consumes(PayloadTake)
    BY ParseConsumes
  <2> QED BY <1>1, <1>2, <1>4, <2>1, ConsumeReads DEF ParsesFrom
<1>6. HeaderRead(start)'
  BY <1>1, <1>3 DEF ParsesFrom, HeaderRead
<1>7. PayloadRead(start)'
  BY <1>1, <1>2 DEF PayloadRead
<1> QED BY <1>5, <1>6, <1>7 DEF ParsesFrom

\* The end of a payload: the parser goes on with the next frame.
LEMMA PayloadEnds ==
    ASSUME ShapeInv, Running', ParsePayload, PayloadComplete,
           NEW start \in Nat, ParsesFrom(start), NEW end, end = EndAt(wire, start)
    PROVE  end \in 0..Len(wire) /\ ParsesFrom(end)'
<1>1. /\ Running /\ input_buffer_queue_ # <<>> /\ state_ = "PARSING_PAYLOAD"
      /\ frame_' = EmptyFrame /\ payload_progress_' = 0 /\ state_' = "PARSING_HEADER"
      /\ UNCHANGED <<header_, header_progress_, mem, cq, wire, pos>>
      /\ PayloadTake = PayloadWanted
  BY PayloadStep, ParseResults DEF PayloadComplete
<1>2. /\ HeaderKnown(start) /\ PayloadTake \in Nat
      /\ start + wire_size + (payload_progress_ + PayloadTake) <= Len(wire)
  BY PayloadGrows
<1>3. /\ end \in Nat /\ end = Position(start) + PayloadTake /\ end <= Len(wire)
  <2>1. payload_progress_ + PayloadTake = get_size(header_)
    BY <1>1, <1>2 DEF PayloadWanted, HeaderKnown
  <2> QED BY <1>2, <2>1 DEF HeaderKnown
<1>4. header_progress_ = 0
  BY <1>1 DEF ShapeInv, Shape, Parser
<1>5. HeaderParsed' = 0
  BY <1>1, <1>4 DEF HeaderParsed
<1>6. Position(end)' = Position(start) + PayloadTake
  <2>1. Position(end)' = end + 0 + 0
    BY <1>1, <1>5 DEF Position
  <2> QED BY <1>3, <2>1
<1>7. ChunkRead(end)' /\ WaitingRead(end)'
  <2>1. Consumes(PayloadTake)
    BY ParseConsumes
  <2> QED BY <1>1, <1>2, <1>3, <1>6, <2>1, ConsumeReads DEF ParsesFrom
<1>8. HeaderRead(end)'
  BY <1>1, <1>5 DEF HeaderRead
<1>9. PayloadRead(end)'
  BY <1>1 DEF PayloadRead
<1>10. ParsesFrom(end)'
  BY <1>7, <1>8, <1>9 DEF ParsesFrom
<1>11. end \in 0..Len(wire)
  BY <1>2, <1>3 DEF HeaderKnown
<1> QED BY <1>10, <1>11

\* The segments of a complete frame have the bytes of its payload.
LEMMA PayloadIs ==
    ASSUME ShapeInv, ParsePayload, PayloadComplete, NEW start \in Nat, ParsesFrom(start)
    PROVE  /\ IovIn(PayloadFrame.segments, mem) = PayloadAt(wire, start)
           /\ EndAt(wire, start) <= Len(wire)
           /\ HeaderKnown(start)
           /\ PayloadResult = (IF get_crc(HeaderAt(wire, start)) # crc32c(PayloadAt(wire, start))
                               THEN "FrameCrcMismatch" ELSE "None")
<1>1. /\ HeaderKnown(start) /\ PayloadTake \in Nat
      /\ start + wire_size + (payload_progress_ + PayloadTake) <= Len(wire)
      /\ IovIn(PayloadFrame.segments, mem)
           = SubSeq(wire, start + wire_size + 1,
                    start + wire_size + (payload_progress_ + PayloadTake))
  BY PayloadGrows
<1>2. start + wire_size + (payload_progress_ + PayloadTake) = EndAt(wire, start)
  <2>1. payload_progress_ + PayloadTake = get_size(header_)
    BY <1>1 DEF PayloadComplete, PayloadWanted, HeaderKnown
  <2> QED BY <1>1, <2>1 DEF HeaderKnown
<1>3. IovIn(PayloadFrame.segments, mem) = PayloadAt(wire, start)
  BY <1>1, <1>2 DEF PayloadAt
<1>4. Iov(PayloadFrame.segments) = PayloadAt(wire, start)
  BY <1>3, IovIs
<1>5. PayloadResult = PayloadFailure(PayloadFrame)
  BY DEF PayloadResult
<1> QED BY <1>1, <1>2, <1>3, <1>4, <1>5 DEF PayloadFailure, HeaderKnown

-----------------------------------------------------------------------------
(* Packets and the frames they come from *)

\* The counts of packets and frames.
OutputTyped ==
    /\ Packets \in Seq(Seq(Bytes)) /\ Len(Packets) \in Nat
    /\ tun_tx \in Seq(Seq(Bytes)) /\ Len(tun_tx) \in Nat
    /\ output_frame_queue_ \in Seq(FrameType) /\ Len(output_frame_queue_) \in Nat
    /\ DOMAIN output_frame_queue_ = 1..Len(output_frame_queue_)
    /\ WrittenHead \in {0, 1}
    /\ WrittenHead = 1 => output_frame_queue_ # <<>>
    /\ FramesParsed \in Nat
    /\ FramesParsed = Len(tun_tx) - WrittenHead + Len(output_frame_queue_)

\* The frames of the output queue are made of byte sequences.
LEMMA OutputTypes == ShapeInv /\ Running => OutputTyped
<1> SUFFICES ASSUME ShapeInv, Running PROVE OutputTyped
  OBVIOUS
<1>1. Types /\ Writing
  BY DEF ShapeInv, Shape
<1>2. Packets \in Seq(Seq(Bytes))
  <2>1. wire \in Seq(Bytes) /\ 0 \in 0..Len(wire)
    BY <1>1 DEF Types
  <2> QED BY <2>1, DecodedType DEF Packets, Decode
<1>3. /\ Len(Packets) \in Nat
      /\ tun_tx \in Seq(Seq(Bytes)) /\ Len(tun_tx) \in Nat
      /\ output_frame_queue_ \in Seq(FrameType) /\ Len(output_frame_queue_) \in Nat
      /\ DOMAIN output_frame_queue_ = 1..Len(output_frame_queue_)
  BY <1>1, <1>2 DEF Types
<1>4. WrittenHead \in {0, 1} /\ (WrittenHead = 1 => cqe_.type = "WRITE" \/ SomeDone)
  BY DEF WrittenHead
<1>5. WrittenHead = 1 => output_frame_queue_ # <<>>
  BY <1>1, <1>4 DEF Writing, SomeDone
<1>6. output_frame_queue_ # <<>> => Len(output_frame_queue_) >= 1
  BY <1>3
<1>7. FramesParsed = Len(tun_tx) - WrittenHead + Len(output_frame_queue_)
  BY DEF FramesParsed
<1>8. FramesParsed \in Nat
  BY <1>3, <1>4, <1>5, <1>6, <1>7
<1> QED BY <1>2, <1>3, <1>4, <1>5, <1>7, <1>8 DEF OutputTyped

\* What is left of the stream from byte `start' on are the packets behind those.
Reaches(start, parsed) ==
    /\ Rest(start).error = Decode(wire, mtu).error
    /\ Len(Packets) = parsed + Len(Rest(start).packets)
    /\ \A i \in 1..Len(Rest(start).packets) : Packets[parsed + i] = Rest(start).packets[i]

\* A complete frame is the next packet.
LEMMA ReachesNext ==
    ASSUME Types, NEW start, HasFrame(wire, start),
           NEW parsed \in Nat, Reaches(start, parsed),
           NEW end, end = EndAt(wire, start)
    PROVE  /\ Reaches(end, parsed + 1)
           /\ parsed + 1 <= Len(Packets)
           /\ Packets[parsed + 1] = PayloadAt(wire, start)
<1> DEFINE here == Rest(start)
           behind == Rest(end)
           payload == PayloadAt(wire, start)
<1>1. here = Decoded(wire, mtu)[start] /\ behind = Decoded(wire, mtu)[EndAt(wire, start)]
  BY DEF Rest
<1>2. wire \in Seq(Bytes)
  BY DEF Types
<1>3. /\ here.error = Decode(wire, mtu).error
      /\ Len(Packets) = parsed + Len(here.packets)
      /\ \A i \in 1..Len(here.packets) : Packets[parsed + i] = here.packets[i]
  BY DEF Reaches
<1>4. Splits(here, behind, payload)
  <2>1. Splits(Decoded(wire, mtu)[start], Decoded(wire, mtu)[EndAt(wire, start)], payload)
    BY <1>2, FrameDecoded
  <2> HIDE DEF here, behind
  <2> QED BY <1>1, <2>1
<1> HIDE DEF here, behind, payload
<1> DEFINE n == Len(behind.packets)
           m == Len(here.packets)
           all == Len(Packets)
<1>5. /\ n \in Nat /\ m = n + 1 /\ all = parsed + m
      /\ here.error = behind.error
      /\ here.packets[1] = payload
      /\ \A i \in 1..n : here.packets[i + 1] = behind.packets[i]
      /\ \A i \in 1..m : Packets[parsed + i] = here.packets[i]
  BY <1>3, <1>4 DEF Splits
<1> HIDE DEF n, m, all
<1>6. parsed + 1 <= all
  BY <1>5
<1>7. Packets[parsed + 1] = payload
  <2>1. 1 \in 1..m
    BY <1>5
  <2> QED BY <1>5, <2>1
<1>8. all = (parsed + 1) + n
  BY <1>5
<1>9. ASSUME NEW i \in 1..n PROVE Packets[(parsed + 1) + i] = behind.packets[i]
  <2>1. i + 1 \in 1..m /\ parsed + (i + 1) = (parsed + 1) + i
    BY <1>5
  <2>2. Packets[parsed + (i + 1)] = here.packets[i + 1]
    BY <1>5, <2>1
  <2> QED BY <1>5, <2>1, <2>2
<1>10. behind.error = Decode(wire, mtu).error
  BY <1>3, <1>5
<1>11. Reaches(end, parsed + 1)
  BY <1>8, <1>9, <1>10 DEF Reaches, behind, n, all
<1> QED BY <1>6, <1>7, <1>11 DEF payload, all

\* The frames the parser went over are the first packets.
LEMMA WalkReaches ==
    ASSUME Types, NEW b, NEW parsed \in Nat, Walks(b, parsed)
    PROVE  /\ \A k \in 0..parsed : Reaches(b[k], k)
           /\ \A k \in 0..(parsed - 1) : /\ k + 1 <= Len(Packets)
                                         /\ Packets[k + 1] = PayloadAt(wire, b[k])
<1>1. /\ b[0] = 0
      /\ \A k \in 0..(parsed - 1) : HasFrame(wire, b[k]) /\ b[k + 1] = EndAt(wire, b[k])
  BY DEF Walks
<1>2. Reaches(b[0], 0)
  <2>1. Rest(b[0]).packets = Packets /\ Rest(b[0]).error = Decode(wire, mtu).error
    BY <1>1 DEF Rest, Packets, Decode
  <2>2. Len(Packets) \in Nat
    <3>1. wire \in Seq(Bytes) /\ 0 \in 0..Len(wire)
      BY DEF Types
    <3>2. Packets \in Seq(Seq(Bytes))
      BY <3>1, DecodedType DEF Packets, Decode
    <3> QED BY <3>2
  <2>3. Len(Packets) = 0 + Len(Rest(b[0]).packets)
    BY <2>1, <2>2
  <2>4. \A i \in 1..Len(Packets) : Packets[0 + i] = Packets[i]
    BY <2>2
  <2> QED BY <2>1, <2>3, <2>4 DEF Reaches
<1>3. ASSUME NEW k \in 0..(parsed - 1), Reaches(b[k], k)
      PROVE  /\ Reaches(b[k + 1], k + 1)
             /\ k + 1 <= Len(Packets)
             /\ Packets[k + 1] = PayloadAt(wire, b[k])
  <2>1. HasFrame(wire, b[k]) /\ b[k + 1] = EndAt(wire, b[k]) /\ k \in Nat
    BY <1>1
  <2> QED BY <1>3, <2>1, ReachesNext
<1> DEFINE P == {k \in Nat : k <= parsed => Reaches(b[k], k)}
<1>4. 0 \in P
  BY <1>2
<1>5. ASSUME NEW k \in Nat, k \in P PROVE k + 1 \in P
  <2> SUFFICES ASSUME k + 1 <= parsed PROVE Reaches(b[k + 1], k + 1)
    OBVIOUS
  <2>1. k \in 0..(parsed - 1) /\ Reaches(b[k], k)
    BY <1>5
  <2> QED BY <1>3, <2>1
<1> HIDE DEF P
<1>6. Nat \subseteq P
  BY <1>4, <1>5, NatSetInduction
<1>7. \A k \in 0..parsed : Reaches(b[k], k)
  BY <1>6 DEF P
<1>8. \A k \in 0..(parsed - 1) : k \in 0..parsed
  OBVIOUS
<1> QED BY <1>3, <1>7, <1>8

\* So what is left are the packets behind them.
LEMMA PassedReaches ==
    ASSUME Types, NEW start, NEW parsed \in Nat, Passed(start, parsed)
    PROVE  Reaches(start, parsed)
<1>1. PICK b : Walks(b, parsed) /\ b[parsed] = start
  BY DEF Passed
<1>2. parsed \in 0..parsed
  OBVIOUS
<1> QED BY <1>1, <1>2, WalkReaches

\* One frame more.
LEMMA PassedNext ==
    ASSUME NEW start, NEW parsed \in Nat, Passed(start, parsed), HasFrame(wire, start),
           NEW end, end = EndAt(wire, start)
    PROVE  Passed(end, parsed + 1)
<1>1. PICK b : Walks(b, parsed) /\ b[parsed] = start
  BY DEF Passed
<1> DEFINE c == [k \in 0..(parsed + 1) |-> IF k <= parsed THEN b[k] ELSE end]
<1>2. (\A k \in 0..parsed : c[k] = b[k]) /\ c[parsed + 1] = end
  OBVIOUS
<1> HIDE DEF c
<1>3. c[0] = 0
  BY <1>1, <1>2 DEF Walks
<1>4. ASSUME NEW k \in 0..parsed PROVE HasFrame(wire, c[k]) /\ c[k + 1] = EndAt(wire, c[k])
  <2>1. CASE k = parsed
    BY <1>1, <1>2, <2>1
  <2>2. CASE k # parsed
    <3>1. k \in 0..(parsed - 1) /\ k + 1 \in 0..parsed
      BY <2>2
    <3> QED BY <1>1, <1>2, <3>1 DEF Walks
  <2> QED BY <2>1, <2>2
<1>5. (parsed + 1) - 1 = parsed
  OBVIOUS
<1>6. Walks(c, parsed + 1)
  BY <1>3, <1>4, <1>5 DEF Walks
<1> QED BY <1>2, <1>6 DEF Passed

\* Completions of WRITE requests after one more was posted, or one was taken.
LEMMA DonePosted ==
    ASSUME Types, NEW cqe \in Cqes, cq' = Append(cq, cqe)
    PROVE  /\ SomeDone' <=> SomeDone \/ (cqe.type = "WRITE" /\ ok(cqe))
           /\ \A i \in WriteDones' : \/ \E j \in WriteDones : cq'[i] = cq[j]
                                     \/ cq'[i] = cqe /\ cqe.type = "WRITE"
<1>1. /\ DOMAIN cq = 1..Len(cq)
      /\ \A i \in 1..Len(cq) : cq'[i] = cq[i]
      /\ cq'[Len(cq) + 1] = cqe
      /\ WriteDones' = WriteDones \cup (IF cqe.type = "WRITE" THEN {Len(cq) + 1} ELSE {})
  BY PostedFacts
<1>2. \A i \in WriteDones : cq'[i] = cq[i]
  BY <1>1 DEF WriteDones
<1>3. \A i \in WriteDones' : \/ i \in WriteDones /\ cq'[i] = cq[i]
                             \/ i = Len(cq) + 1 /\ cq'[i] = cqe /\ cqe.type = "WRITE"
  BY <1>1, <1>2
<1>4. SomeDone' <=> \E i \in WriteDones' : ok(cq'[i])
  BY DEF SomeDone, ok
<1>5. SomeDone <=> \E i \in WriteDones : ok(cq[i])
  BY DEF SomeDone
<1>6. cqe.type = "WRITE" => Len(cq) + 1 \in WriteDones'
  BY <1>1
<1>7. WriteDones \subseteq WriteDones'
  BY <1>1
<1> QED BY <1>1, <1>2, <1>3, <1>4, <1>5, <1>6, <1>7, Zenon

\* Taking a completion from the queue removes at most one successful write.
LEMMA DoneTaken ==
    ASSUME Types, cq # <<>>, cq' = Tail(cq)
    PROVE  /\ SomeDone <=> SomeDone' \/ (Head(cq).type = "WRITE" /\ ok(Head(cq)))
           /\ \A i \in WriteDones' : \E j \in WriteDones : cq'[i] = cq[j]
<1>1. /\ Len(cq) \in Nat /\ Len(cq) >= 1
      /\ DOMAIN cq = 1..Len(cq)
      /\ \A i \in 1..(Len(cq) - 1) : cq'[i] = cq[i + 1] /\ i + 1 \in DOMAIN cq
      /\ Head(cq) = cq[1]
      /\ WriteDones' = {i \in 1..(Len(cq) - 1) : i + 1 \in WriteDones}
      /\ 1 \in WriteDones <=> Head(cq).type = "WRITE"
  BY TakenFacts
<1>2. \A i \in WriteDones' : i + 1 \in WriteDones /\ cq'[i] = cq[i + 1]
  BY <1>1
<1>3. ASSUME NEW j \in WriteDones, j # 1 PROVE \E i \in WriteDones' : cq'[i] = cq[j]
  <2>1. j \in 1..Len(cq)
    BY <1>1 DEF WriteDones
  <2>2. j - 1 \in 1..(Len(cq) - 1) /\ (j - 1) + 1 = j
    BY <1>1, <1>3, <2>1
  <2>3. j - 1 \in WriteDones' /\ cq'[j - 1] = cq[(j - 1) + 1]
    BY <1>1, <2>2
  <2> QED BY <2>2, <2>3
<1>4. SomeDone' <=> \E i \in WriteDones' : ok(cq'[i])
  BY DEF SomeDone, ok
<1>5. SomeDone <=> \E i \in WriteDones : ok(cq[i])
  BY DEF SomeDone
<1> QED BY <1>1, <1>2, <1>3, <1>4, <1>5, Zenon

-----------------------------------------------------------------------------
(* Steps that write nothing and complete no frame *)

\* The packets of a stream are what they are.
LEMMA PacketsSame ==
    ASSUME [Next]_vars
    PROVE  Packets' = Packets
<1>1. wire' = wire
  BY WireSame
<1> QED BY <1>1 DEF Packets

\* A step that leaves the written and the queued frames alone.
LEMMA OutputStays ==
    ASSUME OwnInv, Running, [Next]_vars, Output,
           UNCHANGED <<output_frame_queue_, tun_tx>>, WrittenHead' = WrittenHead,
           cqe_.type = "WRITE" => cqe_'.type = "WRITE",
           \A i \in WriteDones' : ok(cq'[i]) => \E j \in WriteDones : cq'[i] = cq[j]
    PROVE  Output' /\ FramesParsed' = FramesParsed
<1>1. Packets' = Packets
  BY PacketsSame
<1>2. OutputTyped
  BY OutputTypes DEF OwnInv, RefsInv
<1>3. Written'
  BY <1>1 DEF Output, Written
<1>4. Queued'
  <2> SUFFICES ASSUME NEW i \in 1..Len(output_frame_queue_), cqe_'.type = "WRITE" => i # 1
               PROVE  IovIn(output_frame_queue_[i].segments, mem')
                        = Packets[Len(tun_tx) - WrittenHead + i]
    BY <1>1 DEF Queued
  <2>1. i \in DOMAIN output_frame_queue_ /\ (cqe_.type = "WRITE" => i # 1)
    BY <1>2 DEF OutputTyped
  <2>2. IovIn(output_frame_queue_[i].segments, mem')
          = IovIn(output_frame_queue_[i].segments, mem)
    BY <2>1, FramesKept
  <2>3. IovIn(output_frame_queue_[i].segments, mem) = Packets[Len(tun_tx) - WrittenHead + i]
    BY <2>1 DEF Output, Queued
  <2> QED BY <2>2, <2>3
<1>5. Answered'
  <2> SUFFICES ASSUME NEW i \in WriteDones', ok(cq'[i])
               PROVE  Len(tun_tx) >= 1 /\ cq'[i].result = Len(tun_tx[Len(tun_tx)])
    BY DEF Answered, ok
  <2>1. PICK j \in WriteDones : cq'[i] = cq[j]
    OBVIOUS
  <2>2. ok(cq[j])
    BY <2>1
  <2> QED BY <2>1, <2>2 DEF Output, Answered
<1>6. FramesParsed' = FramesParsed
  BY DEF FramesParsed
<1> QED BY <1>3, <1>4, <1>5, <1>6 DEF Output

\* Such a step, if it leaves the parser in its place.
LEMMA FollowingStays ==
    ASSUME [Next]_vars, Following, Output', FramesParsed' = FramesParsed,
           \A start \in 0..Len(wire) : ParsesFrom(start) => ParsesFrom(start)'
    PROVE  Following'
<1>1. PICK start \in 0..Len(wire) : Passed(start, FramesParsed) /\ ParsesFrom(start)
  BY DEF Following
<1>2. Passed(start, FramesParsed)'
  BY <1>1, WireSame DEF Passed, Walks
<1>3. Passed(start, FramesParsed)' /\ ParsesFrom(start)'
  BY <1>1, <1>2
<1>4. start \in 0..Len(wire')
  BY WireSame
<1> QED BY <1>3, <1>4 DEF Following

\* What a step that neither writes a packet nor starts or ends the handling of a
\* WRITE leaves of the completions of WRITE requests.
DonesKept ==
    /\ WrittenHead' = WrittenHead
    /\ cqe_.type = "WRITE" => cqe_'.type = "WRITE"
    /\ \A i \in WriteDones' : ok(cq'[i]) => \E j \in WriteDones : cq'[i] = cq[j]

\* Steps like that: the completions stay, one of no WRITE is taken, or one that
\* does not tell of a packet is posted.
LEMMA DonesStay ==
    ASSUME Types,
           \/ UNCHANGED cq /\ (cqe_'.type = "WRITE" <=> cqe_.type = "WRITE")
           \/ /\ cq # <<>> /\ cq' = Tail(cq) /\ Head(cq).type = "RECV"
              /\ cqe_.type # "WRITE" /\ cqe_'.type # "WRITE"
           \/ /\ \E cqe \in Cqes : cq' = Append(cq, cqe) /\ ~(cqe.type = "WRITE" /\ ok(cqe))
              /\ UNCHANGED cqe_
    PROVE  DonesKept
<1>1. CASE UNCHANGED cq /\ (cqe_'.type = "WRITE" <=> cqe_.type = "WRITE")
  <2>1. WriteDones' = WriteDones
    BY <1>1 DEF WriteDones
  <2>2. SomeDone' <=> SomeDone
    BY <1>1, <2>1 DEF SomeDone, ok
  <2> QED BY <1>1, <2>1, <2>2 DEF DonesKept, WrittenHead
<1>2. CASE /\ cq # <<>> /\ cq' = Tail(cq) /\ Head(cq).type = "RECV"
           /\ cqe_.type # "WRITE" /\ cqe_'.type # "WRITE"
  <2>1. /\ SomeDone <=> SomeDone'
        /\ \A i \in WriteDones' : \E j \in WriteDones : cq'[i] = cq[j]
    BY <1>2, DoneTaken
  <2> QED BY <1>2, <2>1 DEF DonesKept, WrittenHead
<1>3. CASE /\ \E cqe \in Cqes : cq' = Append(cq, cqe) /\ ~(cqe.type = "WRITE" /\ ok(cqe))
           /\ UNCHANGED cqe_
  <2>1. PICK cqe \in Cqes : cq' = Append(cq, cqe) /\ ~(cqe.type = "WRITE" /\ ok(cqe))
    BY <1>3
  <2>2. /\ SomeDone' <=> SomeDone
        /\ \A i \in WriteDones' : \/ \E j \in WriteDones : cq'[i] = cq[j]
                                  \/ cq'[i] = cqe /\ cqe.type = "WRITE"
    BY <2>1, DonePosted
  <2>3. \A i \in WriteDones' : ok(cq'[i]) => \E j \in WriteDones : cq'[i] = cq[j]
    BY <2>1, <2>2
  <2> QED BY <1>3, <2>2, <2>3 DEF DonesKept, WrittenHead
<1> QED BY <1>1, <1>2, <1>3

\* Steps that neither parse nor write.
LEMMA QuietFollows ==
    ASSUME OwnInv, Running, [Next]_vars, Following, DonesKept,
           UNCHANGED <<parser_vars, input_buffer_queue_, pos, output_frame_queue_, tun_tx>>,
           \/ UNCHANGED cq
           \/ cq # <<>> /\ cq' = Tail(cq) /\ ~Brings(Head(cq))
           \/ \E cqe \in Cqes : ~Brings(cqe) /\ cq' = Append(cq, cqe)
    PROVE  Following'
<1>1. Output' /\ FramesParsed' = FramesParsed
  BY OutputStays DEF Following, DonesKept
<1>2. ASSUME NEW start \in 0..Len(wire), ParsesFrom(start) PROVE ParsesFrom(start)'
  BY <1>2, QuietParses
<1> QED BY <1>1, <1>2, FollowingStays

\* The handlers that neither parse nor drop a frame.
LEMMA HandlersFollow ==
    ASSUME OwnInv, Running, Following, Running',
           RecvNoBuffers \/ RecvDone \/ ReleaseBuffer
    PROVE  Following'
<1>1. Types /\ [Next]_vars
  BY DEF OwnInv, RefsInv, ShapeInv, Next, Handle
<1>i. idle.type = "NONE"
  BY DEF idle, Cqe
<1>2. CASE RecvNoBuffers
  <2>1. /\ cq # <<>> /\ cq' = Tail(cq) /\ Head(cq).type = "RECV" /\ Head(cq) \in Cqes
        /\ cqe_ = idle /\ cqe_' = idle /\ ~ok(Head(cq))
        /\ UNCHANGED <<parser_vars, input_buffer_queue_, pos, output_frame_queue_, tun_tx>>
    BY <1>1, <1>2, HandlesFacts DEF RecvNoBuffers, kick_write_, OutOfBuffers, error, ENOBUFS
  <2>2. ~Brings(Head(cq))
    <3>1. Head(cq) \in RecvEndCqes
      BY <2>1, CqeFacts
    <3> QED BY <3>1 DEF RecvEndCqes, Brings
  <2>3. DonesKept
    BY <1>1, <1>i, <2>1, DonesStay
  <2> QED BY <1>1, <2>1, <2>2, <2>3, QuietFollows
<1>3. CASE RecvDone \/ ReleaseBuffer
  <2>1. /\ UNCHANGED cq /\ (cqe_'.type = "WRITE" <=> cqe_.type = "WRITE")
        /\ UNCHANGED <<parser_vars, input_buffer_queue_, pos, output_frame_queue_, tun_tx>>
    BY <1>3, <1>i DEF RecvDone, Parsed, kick_write_, ReleaseBuffer, Releases
  <2>2. DonesKept
    BY <1>1, <2>1, DonesStay
  <2> QED BY <1>1, <2>1, <2>2, QuietFollows
<1> QED BY <1>2, <1>3

\* The kernel ends the RECV request, or refuses a packet.
LEMMA KernelEndsFollow ==
    ASSUME OwnInv, Running, Following,
           KernelRecvNoBuffers \/ KernelRecvError \/ KernelPeerClosed \/ KernelWriteError
    PROVE  Following'
<1>1. Types /\ [Next]_vars
  BY DEF OwnInv, RefsInv, ShapeInv, Next, Kernel
<1>2. /\ \E cqe \in Cqes : ~Brings(cqe) /\ cq' = Append(cq, cqe)
                           /\ ~(cqe.type = "WRITE" /\ ok(cqe))
      /\ UNCHANGED <<own_vars, cqe_, pos, tun_tx>>
  <2>1. CASE KernelRecvNoBuffers \/ KernelRecvError \/ KernelPeerClosed
    <3>1. PICK result \in {-ENOBUFS, -EIO, 0} : EndRecv(result)
      BY <2>1 DEF KernelRecvNoBuffers, KernelRecvError, KernelPeerClosed
    <3> DEFINE cqe == Cqe("RECV", result, NoBid, FALSE)
    <3>2. /\ cqe \in RecvEndCqes /\ cq' = Append(cq, cqe)
          /\ UNCHANGED <<own_vars, handler_vars, pos, tun_tx>>
      BY <1>1, <3>1, EndRecvFacts
    <3>3. ~Brings(cqe) /\ cqe.type # "WRITE"
      BY DEF Brings, Cqe
    <3> HIDE DEF cqe
    <3> QED BY <3>2, <3>3 DEF Cqes, handler_vars
  <2>2. CASE KernelWriteError
    <3> DEFINE cqe == Cqe("WRITE", -EIO, NoBid, FALSE)
    <3>1. /\ cq' = Append(cq, cqe) /\ UNCHANGED <<own_vars, handler_vars, pos, tun_tx>>
      BY <2>2 DEF KernelWriteError, KernelStep
    <3>2. ~Brings(cqe) /\ ~ok(cqe) /\ cqe \in WriteCqes
      BY DEF Brings, Cqe, ok, EIO, WriteCqes
    <3> HIDE DEF cqe
    <3> QED BY <3>1, <3>2 DEF Cqes, handler_vars
  <2> QED BY <2>1, <2>2
<1>3. DonesKept
  BY <1>1, <1>2, DonesStay
<1>4. UNCHANGED <<parser_vars, input_buffer_queue_, output_frame_queue_>>
  BY <1>2 DEF own_vars
<1> QED BY <1>1, <1>2, <1>3, <1>4, QuietFollows

\* The handler of a WRITE starts: the packet is still that of the oldest frame.
LEMMA WriteCompletedFollows ==
    ASSUME OwnInv, Following, WriteCompleted, Running'
    PROVE  Following'
<1>1. /\ Types /\ [Next]_vars /\ Running
      /\ cq # <<>> /\ cq' = Tail(cq) /\ Head(cq).type = "WRITE" /\ cqe_ = idle
      /\ UNCHANGED <<pos, tun_tx>>
  BY HandlesFacts DEF OwnInv, RefsInv, ShapeInv, Next, Handle, WriteCompleted
<1>2. /\ WriteFailure(Head(cq)) = "None" /\ cqe_' = Head(cq)
      /\ UNCHANGED <<parser_vars, input_buffer_queue_, output_frame_queue_>>
  BY DEF WriteCompleted, Running
<1>3. ok(Head(cq)) /\ ~Brings(Head(cq))
  BY <1>1, <1>2 DEF WriteFailure, Brings
<1>4. /\ SomeDone
      /\ \A i \in WriteDones' : \E j \in WriteDones : cq'[i] = cq[j]
  BY <1>1, <1>3, DoneTaken
<1>5. DonesKept
  BY <1>1, <1>2, <1>4 DEF DonesKept, WrittenHead, idle, Cqe
<1> QED BY <1>1, <1>2, <1>3, <1>5, QuietFollows

\* Iterations of kick_parse_ that complete no frame, chunks that arrive and
\* chunks the receiver takes.
LEMMA ParsesFollow ==
    ASSUME OwnInv, Running, [Next]_vars, Following, DonesKept,
           UNCHANGED <<output_frame_queue_, tun_tx>>,
           \A start \in Nat : ParsesFrom(start) => ParsesFrom(start)'
    PROVE  Following'
<1>1. Output' /\ FramesParsed' = FramesParsed
  BY OutputStays DEF Following, DonesKept
<1>2. \A start \in 0..Len(wire) : ParsesFrom(start) => ParsesFrom(start)'
  OBVIOUS
<1> QED BY <1>1, <1>2, FollowingStays

\* Steps that finish no frame keep the chunks in the order of the wire.
LEMMA ChunksFollow ==
    ASSUME OwnInv, Running, Following, Running',
           \/ ParseHeader
           \/ ParsePayload /\ ~PayloadComplete
           \/ RecvChunk
           \/ \E n \in 1..buffer_size, more \in BOOLEAN : KernelRecv(n, more)
    PROVE  Following'
<1>1. ShapeInv /\ Types /\ [Next]_vars
  BY DEF OwnInv, RefsInv, ShapeInv, Next, Handle, Kernel
<1>2. CASE ParseHeader
  <2>1. UNCHANGED <<output_frame_queue_, tun_tx, cq, cqe_>>
    BY <1>1, <1>2, HeaderStep DEF handler_vars
  <2>2. DonesKept
    BY <1>1, <2>1, DonesStay
  <2>3. \A start \in Nat : ParsesFrom(start) => ParsesFrom(start)'
    BY <1>1, <1>2, HeaderParses
  <2> QED BY <1>1, <2>1, <2>2, <2>3, ParsesFollow
<1>3. CASE ParsePayload /\ ~PayloadComplete
  <2>1. UNCHANGED <<output_frame_queue_, tun_tx, cq, cqe_>>
    BY <1>1, <1>3, PayloadStep DEF handler_vars
  <2>2. DonesKept
    BY <1>1, <2>1, DonesStay
  <2>3. \A start \in Nat : ParsesFrom(start) => ParsesFrom(start)'
    BY <1>1, <1>3, PayloadParses
  <2> QED BY <1>1, <2>1, <2>2, <2>3, ParsesFollow
<1>4. CASE RecvChunk
  <2>1. /\ cq # <<>> /\ cq' = Tail(cq) /\ Head(cq).type = "RECV" /\ cqe_ = idle
        /\ cqe_' = Head(cq) /\ UNCHANGED <<output_frame_queue_, tun_tx>>
    BY <1>1, <1>4, HandlesFacts DEF RecvChunk
  <2>2. DonesKept
    BY <1>1, <2>1, DonesStay DEF idle, Cqe
  <2>3. \A start \in Nat : ParsesFrom(start) => ParsesFrom(start)'
    BY <1>4, ChunkParses
  <2> QED BY <1>1, <2>1, <2>2, <2>3, ParsesFollow
<1>5. CASE \E n \in 1..buffer_size, more \in BOOLEAN : KernelRecv(n, more)
  <2>1. PICK n \in 1..buffer_size, more \in BOOLEAN : KernelRecv(n, more)
    BY <1>5
  <2> DEFINE cqe == Cqe("RECV", n, Head(br_), more)
  <2>2. cqe \in RecvCqes /\ cq' = Append(cq, cqe) /\ UNCHANGED <<own_vars, handler_vars, tun_tx>>
    BY <1>1, <2>1, KernelRecvFacts
  <2>3. cqe.type # "WRITE"
    BY DEF Cqe
  <2> HIDE DEF cqe
  <2>4. /\ cqe \in Cqes /\ ~(cqe.type = "WRITE" /\ ok(cqe))
        /\ UNCHANGED <<cqe_, output_frame_queue_, tun_tx>>
    BY <2>2, <2>3 DEF Cqes, own_vars, handler_vars
  <2>5. DonesKept
    BY <1>1, <2>2, <2>4, DonesStay
  <2>6. \A start \in Nat : ParsesFrom(start) => ParsesFrom(start)'
    BY <2>1, FillParses
  <2> QED BY <1>1, <2>4, <2>5, <2>6, ParsesFollow
<1> QED BY <1>2, <1>3, <1>4, <1>5

-----------------------------------------------------------------------------
(* Steps that complete a frame, write it or drop it *)

\* The last iteration of a frame: it is the next packet.
LEMMA FrameFollows ==
    ASSUME OwnInv, Following, ParsePayload, PayloadComplete, Running'
    PROVE  Following'
<1>1. /\ ShapeInv /\ Types /\ [Next]_vars /\ Running
      /\ PayloadResult = "None"
      /\ output_frame_queue_' = Append(output_frame_queue_, PayloadFrame)
      /\ UNCHANGED <<tun_tx, cq, cqe_, mem>>
  <2>1. ShapeInv /\ Types /\ [Next]_vars
    BY DEF OwnInv, RefsInv, ShapeInv, Next, Handle
  <2>2. PayloadResult = "None"
    BY <2>1, ParseResults
  <2> QED BY <2>1, <2>2, PayloadStep DEF handler_vars
<1>2. PayloadFrame \in FrameType
  BY <1>1, PayloadFrameFacts
<1>3. OutputTyped
  BY <1>1, OutputTypes
<1>4. PICK start \in 0..Len(wire) : Passed(start, FramesParsed) /\ ParsesFrom(start)
  BY DEF Following
<1>5. start \in Nat
  OBVIOUS
<1>6. /\ IovIn(PayloadFrame.segments, mem) = PayloadAt(wire, start)
      /\ HasFrame(wire, start)
  <2>1. /\ IovIn(PayloadFrame.segments, mem) = PayloadAt(wire, start)
        /\ EndAt(wire, start) <= Len(wire)
        /\ HeaderKnown(start)
        /\ PayloadResult = (IF get_crc(HeaderAt(wire, start)) # crc32c(PayloadAt(wire, start))
                            THEN "FrameCrcMismatch" ELSE "None")
    BY <1>1, <1>4, <1>5, PayloadIs
  <2>2. crc32c(PayloadAt(wire, start)) = get_crc(HeaderAt(wire, start))
    BY <1>1, <2>1
  <2> QED BY <1>5, <2>1, <2>2 DEF HasFrame, HeaderKnown
<1>7. PICK end \in 0..Len(wire) : end = EndAt(wire, start) /\ ParsesFrom(end)'
  BY <1>1, <1>4, <1>5, PayloadEnds
<1> DEFINE parsed == FramesParsed
           n == Len(output_frame_queue_)
           written == Len(tun_tx)
<1>8. parsed \in Nat /\ parsed = written - WrittenHead + n
      /\ n \in Nat /\ written \in Nat /\ WrittenHead \in {0, 1}
  BY <1>3 DEF OutputTyped
<1>9. /\ Passed(end, parsed + 1) /\ Packets[parsed + 1] = PayloadAt(wire, start)
  <2> HIDE DEF parsed
  <2>1. Passed(start, parsed)
    BY <1>4 DEF parsed
  <2>2. Reaches(start, parsed)
    BY <1>1, <1>8, <2>1, PassedReaches
  <2>3. Packets[parsed + 1] = PayloadAt(wire, start)
    BY <1>1, <1>6, <1>7, <1>8, <2>2, ReachesNext
  <2> QED BY <1>6, <1>7, <1>8, <2>1, <2>3, PassedNext
<1>10. /\ output_frame_queue_' \in Seq(FrameType)
       /\ Len(output_frame_queue_') = n + 1
       /\ \A i \in 1..n : output_frame_queue_'[i] = output_frame_queue_[i]
       /\ output_frame_queue_'[n + 1] = PayloadFrame
  <2>1. output_frame_queue_ \in Seq(FrameType)
    BY <1>1 DEF Types
  <2> QED BY <1>1, <1>2, <2>1, AppendFacts
<1>11. DonesKept
  BY <1>1, DonesStay
<1>12. FramesParsed' = parsed + 1
  <2>1. FramesParsed' = written - WrittenHead + (n + 1)
    BY <1>1, <1>10, <1>11 DEF FramesParsed, DonesKept
  <2> HIDE DEF parsed, n, written
  <2> QED BY <1>8, <2>1
<1>13. Packets' = Packets
  BY <1>1, PacketsSame
<1>14. Written'
  BY <1>1, <1>13 DEF Following, Output, Written
<1>15. Answered'
  <2>1. WriteDones' = WriteDones
    BY <1>1 DEF WriteDones
  <2> QED BY <1>1, <2>1 DEF Following, Output, Answered, ok
<1>16. Queued'
  <2> SUFFICES ASSUME NEW i \in 1..(n + 1), cqe_.type = "WRITE" => i # 1
               PROVE  IovIn(output_frame_queue_'[i].segments, mem)
                        = Packets[written - WrittenHead + i]
    BY <1>1, <1>10, <1>11, <1>13 DEF Queued, DonesKept
  <2>1. CASE i \in 1..n
    <3>1. IovIn(output_frame_queue_[i].segments, mem) = Packets[written - WrittenHead + i]
      BY <2>1 DEF Following, Output, Queued
    <3> QED BY <1>10, <2>1, <3>1
  <2>2. CASE i = n + 1
    <3>1. written - WrittenHead + i = parsed + 1
      <4> HIDE DEF parsed, n, written
      <4> QED BY <1>8, <2>2
    <3> HIDE DEF parsed, n, written
    <3> QED BY <1>6, <1>9, <1>10, <2>2, <3>1
  <2>3. i \in 1..n \/ i = n + 1
    <3> HIDE DEF n
    <3> QED BY <1>8
  <2> QED BY <2>1, <2>2, <2>3
<1>17. Passed(end, FramesParsed)'
  <2> HIDE DEF parsed
  <2> QED BY <1>1, <1>9, <1>12, WireSame DEF Passed, Walks
<1>18. end \in 0..Len(wire')
  BY <1>1, WireSame
<1>19. Output'
  BY <1>14, <1>15, <1>16 DEF Output
<1> QED BY <1>7, <1>17, <1>18, <1>19 DEF Following

\* A packet is written: it is the next one.
LEMMA PacketFollows ==
    ASSUME OwnInv, Following, KernelWrite
    PROVE  Following'
<1>1. /\ ShapeInv /\ Types /\ [Next]_vars /\ Writing /\ Running
      /\ writing /\ output_frame_queue_ # <<>>
      /\ UNCHANGED <<own_vars, handler_vars, mem, pos>>
  <2>1. ShapeInv /\ Types /\ [Next]_vars
    BY DEF OwnInv, RefsInv, ShapeInv, Next, Kernel
  <2>2. Running /\ writing /\ output_frame_queue_ # <<>>
        /\ UNCHANGED <<own_vars, handler_vars, mem, pos>>
    BY <2>1, KernelWriteFacts
  <2> QED BY <2>1, <2>2 DEF ShapeInv, Shape
<1> DEFINE packet == Iov(Head(output_frame_queue_).segments)
<1>2. PICK result \in Int :
        /\ cq' = Append(cq, Cqe("WRITE", result, NoBid, FALSE))
        /\ \/ tun_tx' = Append(tun_tx, packet) /\ result = Len(packet)
           \/ tun_tx' = tun_tx /\ result < 0
  BY <1>1, KernelWriteFacts
<1> DEFINE cqe == Cqe("WRITE", result, NoBid, FALSE)
<1>3. /\ cqe \in Cqes /\ cqe.type = "WRITE" /\ cqe.result = result /\ ~Brings(cqe)
      /\ (ok(cqe) <=> result >= 0) /\ cq' = Append(cq, cqe)
  BY <1>2 DEF Cqe, Cqes, WriteCqes, Brings, ok
<1>4. packet \in Seq(Bytes) /\ Len(packet) \in Nat
  BY <1>1, KernelWriteFacts
<1> HIDE DEF cqe
<1>5. /\ UNCHANGED <<parser_vars, input_buffer_queue_, output_frame_queue_, cqe_>>
  BY <1>1 DEF own_vars, handler_vars
<1>6. CASE tun_tx' = tun_tx /\ result < 0
  <2>1. ~ok(cqe)
    BY <1>3, <1>6
  <2>2. DonesKept
    BY <1>1, <1>3, <1>5, <2>1, DonesStay
  <2> QED BY <1>1, <1>3, <1>5, <1>6, <2>2, QuietFollows
<1>7. CASE tun_tx' = Append(tun_tx, packet) /\ result = Len(packet)
  <2>1. ok(cqe)
    BY <1>3, <1>4, <1>7
  <2>2. WriteDones = {} /\ cqe_.type # "WRITE"
    BY <1>1 DEF Writing
  <2>3. WrittenHead = 0
    BY <2>2 DEF WrittenHead, SomeDone
  <2>4. /\ SomeDone' /\ WrittenHead' = 1
        /\ \A i \in WriteDones' : cq'[i] = cqe
    BY <1>1, <1>3, <2>1, <2>2, DonePosted DEF WrittenHead
  <2>5. OutputTyped
    BY <1>1, OutputTypes
  <2> DEFINE n == Len(output_frame_queue_)
             written == Len(tun_tx)
  <2>6. /\ FramesParsed = written + n /\ n \in Nat /\ written \in Nat
        /\ DOMAIN output_frame_queue_ = 1..n
    BY <2>3, <2>5 DEF OutputTyped
  <2>7. /\ n >= 1 /\ Head(output_frame_queue_) = output_frame_queue_[1]
    BY <1>1, <2>5 DEF OutputTyped
  <2>8. /\ Len(tun_tx') = written + 1
        /\ \A i \in 1..written : tun_tx'[i] = tun_tx[i]
        /\ tun_tx'[written + 1] = packet
    <3>1. tun_tx \in Seq(Seq(Bytes))
      BY <1>1 DEF Types
    <3> HIDE DEF packet
    <3> QED BY <1>4, <1>7, <3>1, AppendFacts
  <2>9. packet = Packets[written + 1]
    <3>1. 1 \in 1..n
      BY <2>6, <2>7
    <3>2. IovIn(output_frame_queue_[1].segments, mem) = Packets[Len(tun_tx) - WrittenHead + 1]
      BY <2>2, <3>1 DEF Following, Output, Queued
    <3>3. Len(tun_tx) - WrittenHead + 1 = written + 1
      BY <2>3, <2>6
    <3> QED BY <2>7, <3>2, <3>3, IovIs
  <2>10. PICK start \in 0..Len(wire) : Reaches(start, FramesParsed)
    BY <1>1, <2>5, PassedReaches DEF Following, OutputTyped
  <2>11. written + 1 <= Len(Packets)
    <3> DEFINE rest == Len(Rest(start).packets)
    <3>1. Len(Packets) = FramesParsed + rest
      BY <2>10 DEF Reaches
    <3>2. rest \in Nat
      <4>1. Rest(start).packets \in Seq(Seq(Bytes))
        BY <1>1, DecodedType DEF Rest, Types
      <4> QED BY <4>1
    <3> HIDE DEF rest, n, written
    <3> QED BY <2>6, <2>7, <3>1, <3>2
  <2>12. Packets' = Packets
    BY <1>1, PacketsSame
  <2> HIDE DEF packet
  <2>13. Written'
    <3> SUFFICES ASSUME NEW i \in 1..(written + 1) PROVE tun_tx'[i] = Packets[i]
      BY <2>8, <2>11, <2>12 DEF Written
    <3>1. CASE i \in 1..written
      BY <2>8, <3>1 DEF Following, Output, Written
    <3>2. CASE i = written + 1
      BY <2>8, <2>9, <3>2
    <3>3. i \in 1..written \/ i = written + 1
      <4> HIDE DEF written
      <4> QED BY <2>6
    <3> QED BY <3>1, <3>2, <3>3
  <2>14. Answered'
    <3> SUFFICES ASSUME NEW i \in WriteDones'
                 PROVE  Len(tun_tx') >= 1 /\ cq'[i].result = Len(tun_tx'[Len(tun_tx')])
      BY DEF Answered
    <3>1. cq'[i].result = Len(packet)
      BY <1>3, <1>7, <2>4
    <3>2. tun_tx'[Len(tun_tx')] = packet
      BY <2>8
    <3>3. written + 1 >= 1
      <4> HIDE DEF written
      <4> QED BY <2>6
    <3> QED BY <2>8, <3>1, <3>2, <3>3
  <2>15. Queued'
    <3> SUFFICES ASSUME NEW i \in 1..n
                 PROVE  IovIn(output_frame_queue_[i].segments, mem)
                          = Packets[(written + 1) - 1 + i]
      BY <1>1, <1>5, <2>4, <2>8, <2>12 DEF Queued
    <3>1. IovIn(output_frame_queue_[i].segments, mem) = Packets[written - WrittenHead + i]
      BY <2>2 DEF Following, Output, Queued
    <3>2. written - WrittenHead + i = (written + 1) - 1 + i
      <4>1. i \in Nat
        BY <2>6
      <4> HIDE DEF written
      <4> QED BY <2>3, <2>6, <4>1
    <3> QED BY <3>1, <3>2
  <2>16. FramesParsed' = FramesParsed
    <3>1. FramesParsed' = (written + 1) - 1 + n
      BY <1>5, <2>4, <2>8 DEF FramesParsed
    <3> HIDE DEF written, n
    <3> QED BY <2>6, <3>1
  <2>17. Output'
    BY <2>13, <2>14, <2>15 DEF Output
  <2>18. \A s \in 0..Len(wire) : ParsesFrom(s) => ParsesFrom(s)'
    BY <1>1, <1>3, <1>5, QuietParses
  <2> QED BY <1>1, <2>16, <2>17, <2>18, FollowingStays
<1> QED BY <1>2, <1>6, <1>7

\* A frame whose packet was written is dropped.
LEMMA DropFollows ==
    ASSUME OwnInv, Following, WriteDone, Running'
    PROVE  Following'
<1>1. /\ ShapeInv /\ Types /\ [Next]_vars /\ Writing /\ Running
      /\ cqe_.type = "WRITE" /\ cqe_' = idle
      /\ output_frame_queue_' = Tail(output_frame_queue_)
      /\ UNCHANGED <<parser_vars, input_buffer_queue_, cq, mem, pos, tun_tx>>
  BY DEF OwnInv, RefsInv, ShapeInv, Shape, Next, Handle, WriteDone, Released, Releases,
         Running, kick_write_
<1>2. WriteDones = {} /\ WriteDones' = {} /\ output_frame_queue_ # <<>>
  <2>1. WriteDones = {} /\ output_frame_queue_ # <<>>
    BY <1>1 DEF Writing
  <2>2. WriteDones' = WriteDones
    BY <1>1 DEF WriteDones
  <2> QED BY <2>1, <2>2
<1>3. WrittenHead = 1 /\ WrittenHead' = 0
  BY <1>1, <1>2 DEF WrittenHead, SomeDone, idle, Cqe
<1>4. OutputTyped
  BY <1>1, OutputTypes
<1> DEFINE n == Len(output_frame_queue_)
           written == Len(tun_tx)
<1>5. /\ n \in Nat /\ written \in Nat /\ FramesParsed = written - 1 + n
      /\ Len(output_frame_queue_') = n - 1 /\ n >= 1
      /\ \A i \in 1..(n - 1) : output_frame_queue_'[i] = output_frame_queue_[i + 1]
  <2>1. output_frame_queue_ \in Seq(FrameType)
    BY <1>1 DEF Types
  <2> QED BY <1>1, <1>2, <1>3, <1>4, <2>1, TailFacts DEF OutputTyped
<1>6. Packets' = Packets
  BY <1>1, PacketsSame
<1>7. Written' /\ Answered'
  BY <1>1, <1>2, <1>6 DEF Following, Output, Written, Answered
<1>8. Queued'
  <2> SUFFICES ASSUME NEW i \in 1..(n - 1)
               PROVE  IovIn(output_frame_queue_'[i].segments, mem) = Packets[written - 0 + i]
    BY <1>1, <1>3, <1>5, <1>6 DEF Queued
  <2>1. i + 1 \in 1..n /\ i + 1 # 1 /\ written - 1 + (i + 1) = written - 0 + i
    <3> HIDE DEF n, written
    <3> QED BY <1>5
  <2>2. IovIn(output_frame_queue_[i + 1].segments, mem) = Packets[written - WrittenHead + (i + 1)]
    BY <2>1 DEF Following, Output, Queued
  <2> HIDE DEF n, written
  <2> QED BY <1>3, <1>5, <2>1, <2>2
<1>9. FramesParsed' = FramesParsed
  <2>1. FramesParsed' = written - 0 + (n - 1)
    BY <1>1, <1>3, <1>5 DEF FramesParsed
  <2> HIDE DEF n, written
  <2> QED BY <1>5, <2>1
<1>10. Output'
  BY <1>7, <1>8 DEF Output
<1>11. \A s \in 0..Len(wire) : ParsesFrom(s) => ParsesFrom(s)'
  BY <1>1, QuietParses
<1> QED BY <1>1, <1>9, <1>10, <1>11, FollowingStays

\* Every step keeps the packets, the frames and the parser in the stream.
LEMMA NextFollowing ==
    OwnInv /\ (Running => Following) /\ [Next]_vars /\ Running' => Following'
<1> SUFFICES ASSUME OwnInv, Running => Following, [Next]_vars, Running' PROVE Following'
  OBVIOUS
<1>1. ShapeInv /\ Types /\ Running
  <2>1. ShapeInv /\ Types
    BY DEF OwnInv, RefsInv, ShapeInv
  <2>2. Running
    <3>1. CASE UNCHANGED vars
      BY <3>1 DEF vars, Running
    <3>2. CASE Kernel
      BY <3>2 DEF Kernel, KernelRecv, KernelRecvNoBuffers, KernelRecvError, KernelPeerClosed,
                  EndRecv, KernelWrite, KernelWriteError, KernelStep, Running
    <3>3. CASE Handle
      BY <3>3 DEF Handle, RecvNoBuffers, RecvFailed, RecvChunk, Handles, ParseHeader,
                  ParsePayload, ParseNoMemory, Parses, RecvDone, RecvRearmFailed, Parsed,
                  WriteCompleted, ReleaseBuffer, Releases, WriteDone, WriteRearmFailed,
                  Released, Running
    <3> QED BY <3>1, <3>2, <3>3 DEF Next
  <2> QED BY <2>1, <2>2
<1>2. CASE RecvNoBuffers \/ RecvDone \/ ReleaseBuffer
  BY <1>1, <1>2, HandlersFollow
<1>3. CASE KernelRecvNoBuffers \/ KernelRecvError \/ KernelPeerClosed \/ KernelWriteError
  BY <1>1, <1>3, KernelEndsFollow
<1>4. CASE WriteCompleted
  BY <1>1, <1>4, WriteCompletedFollows
<1>5. CASE \/ ParseHeader
           \/ ParsePayload /\ ~PayloadComplete
           \/ RecvChunk
           \/ \E n \in 1..buffer_size, more \in BOOLEAN : KernelRecv(n, more)
  BY <1>1, <1>5, ChunksFollow
<1>6. CASE ParsePayload /\ PayloadComplete
  BY <1>1, <1>6, FrameFollows
<1>7. CASE KernelWrite
  BY <1>1, <1>7, PacketFollows
<1>8. CASE WriteDone
  BY <1>1, <1>8, DropFollows
<1>9. CASE UNCHANGED vars
  <2>1. UNCHANGED <<parser_vars, input_buffer_queue_, pos, output_frame_queue_, tun_tx, cq, cqe_>>
    BY <1>9 DEF vars, own_vars, kernel_vars, handler_vars
  <2>2. DonesKept
    BY <1>1, <2>1, DonesStay
  <2> QED BY <1>1, <2>1, <2>2, QuietFollows
<1> QED BY <1>1, <1>2, <1>3, <1>4, <1>5, <1>6, <1>7, <1>8, <1>9, ParseResults
        DEF Next, Handle, Kernel

-----------------------------------------------------------------------------
(* Errors *)

\* The errors a protocol error is reported with, and those that must not occur.
ProtocolErrors == {"InvalidMagic", "InvalidSize", "FrameCrcMismatch"}
BrokenErrors == {"InvalidState", "InvalidBid", "RecvCqeMissingBid", "WriteUnknownFrame",
                 "TunPartialWrite"}

\* A handler of a WRITE knows the frame, and the device took all of its packet.
LEMMA WriteErrors ==
    ASSUME OwnInv, Following, WriteCompleted
    PROVE  run_result' \in {"None", "TunWriteFailed"}
<1>1. /\ ShapeInv /\ Types /\ Writing /\ Running
      /\ cq # <<>> /\ cq' = Tail(cq) /\ Head(cq).type = "WRITE" /\ cqe_ = idle
      /\ run_result' = WriteFailure(Head(cq))
  <2>1. ShapeInv /\ Types
    BY DEF OwnInv, RefsInv, ShapeInv
  <2> QED BY <2>1, HandlesFacts DEF WriteCompleted, ShapeInv, Shape
<1>2. 1 \in WriteDones /\ Head(cq) = cq[1]
  BY <1>1, TakenFacts
<1>3. output_frame_queue_ # <<>> /\ cqe_.type # "WRITE"
  BY <1>1, <1>2 DEF Writing, idle, Cqe
<1>4. ASSUME ok(Head(cq)) PROVE Head(cq).result = FrameSize(Head(output_frame_queue_))
  <2>1. WrittenHead = 1
    BY <1>2, <1>4 DEF WrittenHead, SomeDone
  <2>2. Len(tun_tx) >= 1 /\ Head(cq).result = Len(tun_tx[Len(tun_tx)])
    BY <1>2, <1>4 DEF Following, Output, Answered
  <2>3. OutputTyped
    BY <1>1, OutputTypes
  <2>4. /\ Len(tun_tx) \in Nat /\ 1 \in 1..Len(output_frame_queue_)
        /\ Head(output_frame_queue_) = output_frame_queue_[1]
    BY <1>3, <2>3 DEF OutputTyped
  <2>5. IovIn(output_frame_queue_[1].segments, mem) = Packets[Len(tun_tx) - WrittenHead + 1]
    BY <1>3, <2>4 DEF Following, Output, Queued
  <2>6. Len(tun_tx) - WrittenHead + 1 = Len(tun_tx) /\ Len(tun_tx) \in 1..Len(tun_tx)
    BY <2>1, <2>2, <2>4
  <2>7. tun_tx[Len(tun_tx)] = Packets[Len(tun_tx)]
    BY <2>6 DEF Following, Output, Written
  <2>8. Iov(Head(output_frame_queue_).segments) = tun_tx[Len(tun_tx)]
    BY <2>4, <2>5, <2>6, <2>7, IovIs
  <2> QED BY <2>2, <2>8 DEF FrameSize
<1> QED BY <1>1, <1>3, <1>4 DEF WriteFailure

\* A header or a payload is rejected only if the stream's next frame is.
LEMMA ParseErrors ==
    ASSUME OwnInv, Following, ParseHeader \/ ParsePayload
    PROVE  \/ run_result' = "None"
           \/ run_result' \in ProtocolErrors /\ run_result' = Decode(wire, mtu).error
<1>1. ShapeInv /\ Types /\ Running
  BY DEF OwnInv, RefsInv, ShapeInv, ParseHeader, ParsePayload, Parses, Running
<1>2. PICK start \in 0..Len(wire) : Passed(start, FramesParsed) /\ ParsesFrom(start)
  BY DEF Following
<1>3. start \in Nat /\ Rest(start).error = Decode(wire, mtu).error
  <2>1. FramesParsed \in Nat
    BY <1>1, OutputTypes DEF OutputTyped
  <2>2. Reaches(start, FramesParsed)
    BY <1>1, <1>2, <2>1, PassedReaches
  <2> QED BY <2>2 DEF Reaches
<1>4. CASE ParseHeader
  <2>1. run_result' = HeaderResult
    BY <1>1, <1>4, HeaderStep DEF Consume
  <2>2. HeaderResult \in ProtocolErrors \cup {"None"}
    BY DEF HeaderResult, HeaderFailure, ProtocolErrors
  <2>3. HeaderResult # "None" => HeaderResult = Rest(start).error
    BY <1>1, <1>2, <1>3, <1>4, HeaderRejected
  <2> QED BY <1>3, <2>1, <2>2, <2>3
<1>5. CASE ParsePayload
  <2>1. run_result' = PayloadResult
    BY <1>1, <1>5, PayloadStep DEF Consume
  <2>2. PayloadResult \in {"None", "FrameCrcMismatch"} /\ (PayloadResult # "None" => PayloadComplete)
    BY DEF PayloadResult, PayloadFailure
  <2>3. ASSUME PayloadResult # "None" PROVE Rest(start).error = "FrameCrcMismatch"
    <3>1. /\ EndAt(wire, start) <= Len(wire)
          /\ HeaderKnown(start)
          /\ PayloadResult = (IF get_crc(HeaderAt(wire, start)) # crc32c(PayloadAt(wire, start))
                              THEN "FrameCrcMismatch" ELSE "None")
      BY <1>1, <1>2, <1>3, <1>5, <2>2, <2>3, PayloadIs
    <3>2. crc32c(PayloadAt(wire, start)) # get_crc(HeaderAt(wire, start))
      BY <2>3, <3>1
    <3>3. /\ wire \in Seq(Bytes) /\ start + wire_size <= Len(wire)
          /\ is_magic_valid(HeaderAt(wire, start))
          /\ get_size(HeaderAt(wire, start)) \in 1..mtu
      BY <3>1 DEF HeaderKnown
    <3> DEFINE header == HeaderAt(wire, start)
               here == Rest(start)
    <3>4. here = Decoded(wire, mtu)[start]
      BY DEF Rest
    <3>5. is_magic_valid(header) /\ get_size(header) \in 1..mtu
          /\ EndAt(wire, start) <= Len(wire)
          /\ crc32c(PayloadAt(wire, start)) # get_crc(header)
      BY <3>1, <3>2, <3>3
    <3> HIDE DEF here
    <3>6. here.error = "FrameCrcMismatch"
      BY <1>3, <3>3, <3>4, <3>5, FrameRejected
    <3> QED BY <3>6 DEF here
  <2> QED BY <1>3, <2>1, <2>2, <2>3 DEF ProtocolErrors
<1> QED BY <1>4, <1>5

\* Every step keeps the errors honest.
LEMMA NextNoSpuriousError ==
    OwnInv /\ (Running => Following) /\ NoSpuriousError /\ [Next]_vars => NoSpuriousError'
<1> SUFFICES ASSUME OwnInv, Running => Following, NoSpuriousError, [Next]_vars
             PROVE  NoSpuriousError'
  OBVIOUS
<1>1. wire' = wire /\ ShapeInv /\ Types
  BY WireSame DEF OwnInv, RefsInv, ShapeInv
<1>2. CASE run_result' = run_result
  BY <1>1, <1>2 DEF NoSpuriousError
<1>3. CASE run_result' \notin ProtocolErrors \cup BrokenErrors
  BY <1>3 DEF NoSpuriousError, ProtocolErrors, BrokenErrors
<1>4. CASE ParseHeader \/ ParsePayload
  <2>1. Running
    BY <1>1, <1>4, HeaderStep, PayloadStep
  <2>2. \/ run_result' = "None"
        \/ run_result' \in ProtocolErrors /\ run_result' = Decode(wire, mtu).error
    BY <1>4, <2>1, ParseErrors
  <2> QED BY <1>1, <2>2 DEF NoSpuriousError, ProtocolErrors
<1>5. CASE WriteCompleted
  <2>1. Running
    BY <1>5 DEF WriteCompleted, Handles, Running
  <2>2. run_result' \in {"None", "TunWriteFailed"}
    BY <1>5, <2>1, WriteErrors
  <2> QED BY <1>3, <2>2 DEF ProtocolErrors, BrokenErrors
<1>6. CASE RecvFailed
  <2>1. Handles("RECV") /\ run_result' \in RecvFailures(Head(cq))
    BY <1>6 DEF RecvFailed
  <2>2. Head(cq) \in Cqes /\ Head(cq).type = "RECV"
    BY <1>1, <2>1, HandlesFacts
  <2>3. ok(Head(cq)) /\ Head(cq).result # 0 => Head(cq).bid # NoBid
    BY <2>2, CqeFacts, BidsFacts
  <2>4. run_result' \in {"RecvFailed", "PeerClosed", "NotEnoughMemory"}
    BY <2>1, <2>3 DEF RecvFailures
  <2> QED BY <1>3, <2>4 DEF ProtocolErrors, BrokenErrors
<1>7. CASE RecvNoBuffers \/ RecvDone \/ WriteDone
  <2>1. PICK queue, in_progress : kick_write_(queue, in_progress)
    BY <1>7 DEF RecvNoBuffers, RecvDone, WriteDone
  <2>2. run_result' \in {"None", "NotEnoughSqe", "RingSubmitFailed"}
    BY <2>1 DEF kick_write_, SubmitResults
  <2> QED BY <1>3, <2>2 DEF ProtocolErrors, BrokenErrors
<1>8. CASE RecvRearmFailed \/ WriteRearmFailed \/ ParseNoMemory
  <2>1. run_result' \in {"NotEnoughSqe", "RingSubmitFailed", "NotEnoughMemory"}
    BY <1>8 DEF RecvRearmFailed, WriteRearmFailed, ParseNoMemory, SubmitResults
  <2> QED BY <1>3, <2>1 DEF ProtocolErrors, BrokenErrors
<1>9. CASE RecvChunk \/ ReleaseBuffer \/ Kernel \/ UNCHANGED vars
  <2>1. run_result' = run_result
    BY <1>9 DEF RecvChunk, ReleaseBuffer, Kernel, KernelRecv, KernelRecvNoBuffers,
                KernelRecvError, KernelPeerClosed, EndRecv, KernelWrite, KernelWriteError,
                KernelStep, vars
  <2> QED BY <1>2, <2>1
<1> QED BY <1>4, <1>5, <1>6, <1>7, <1>8, <1>9 DEF Next, Handle

-----------------------------------------------------------------------------
(* The theorems *)

\* Packets that are the first ones of the stream, one by one, are a prefix of them.
LEMMA WrittenIsPrefix == Types /\ Written => WrittenInOrder
<1> SUFFICES ASSUME Types, Written PROVE WrittenInOrder
  OBVIOUS
<1> DEFINE s == tun_tx
           t == Packets
<1>1. s \in Seq(Seq(Bytes)) /\ t \in Seq(Seq(Bytes))
  <2>1. wire \in Seq(Bytes) /\ 0 \in 0..Len(wire) /\ tun_tx \in Seq(Seq(Bytes))
    BY DEF Types
  <2> QED BY <2>1, DecodedType DEF Packets, Decode
<1>2. Len(s) <= Len(t) /\ \A i \in 1..Len(s) : s[i] = t[i]
  BY DEF Written
<1>3. WrittenInOrder = IsPrefix(s, t)
  BY DEF WrittenInOrder, Packets
<1> HIDE DEF s, t
<1>4. Len(s) \in Nat /\ Len(t) \in Nat
  BY <1>1
<1>5. SubSeq(s, 1, Len(s)) = SubSeq(t, 1, Len(s))
  BY <1>1, <1>2, <1>4
<1> QED BY <1>2, <1>3, <1>5 DEF IsPrefix

\* Packets leave the receiver in the kernel's steps only, which end no session.
LEMMA NextWrittenInOrder ==
    OwnInv /\ OwnInv' /\ WrittenInOrder /\ (Running' => Following') /\ [Next]_vars
      => WrittenInOrder'
<1> SUFFICES ASSUME OwnInv, OwnInv', WrittenInOrder, Running' => Following', [Next]_vars
             PROVE  WrittenInOrder'
  OBVIOUS
<1>1. CASE Running'
  <2>1. Types' /\ Written'
    BY <1>1 DEF OwnInv, RefsInv, ShapeInv, Following, Output
  <2> QED BY <2>1, WrittenIsPrefix, PTL
<1>2. CASE ~Running'
  <2>1. tun_tx' = tun_tx
    <3>1. CASE UNCHANGED vars
      BY <3>1 DEF vars, kernel_vars
    <3>2. CASE Kernel
      BY <1>2, <3>2 DEF Kernel, KernelRecv, KernelRecvNoBuffers, KernelRecvError,
                  KernelPeerClosed, EndRecv, KernelWrite, KernelWriteError, KernelStep, Running
    <3>3. CASE Handle
      BY <3>3 DEF Handle, RecvNoBuffers, RecvFailed, RecvChunk, Handles, ParseHeader,
                  ParsePayload, ParseNoMemory, Parses, RecvDone, RecvRearmFailed, Parsed,
                  WriteCompleted, ReleaseBuffer, Releases, WriteDone, WriteRearmFailed,
                  Released
    <3> QED BY <3>1, <3>2, <3>3 DEF Next
  <2> QED BY <2>1, WireSame DEF WrittenInOrder
<1> QED BY <1>1, <1>2

\* In the beginning nothing is written, queued or parsed.
LEMMA InitFollowing == Init => Following
<1> SUFFICES ASSUME Init PROVE Following
  OBVIOUS
<1>1. /\ cq = <<>> /\ tun_tx = <<>> /\ output_frame_queue_ = <<>> /\ cqe_ = idle
      /\ input_buffer_queue_ = <<>> /\ state_ = "PARSING_HEADER" /\ header_progress_ = 0
      /\ payload_progress_ = 0 /\ pos = 0
  BY DEF Init, Created
<1>2. Types /\ ShapeInv /\ Running
  BY InitShapeInv DEF ShapeInv, Init, Created, Running
<1>3. WriteDones = {} /\ Len(tun_tx) = 0 /\ Len(output_frame_queue_) = 0
  BY <1>1 DEF WriteDones
<1>4. WrittenHead = 0
  BY <1>1, <1>3 DEF WrittenHead, SomeDone, idle, Cqe
<1>5. OutputTyped
  BY <1>2, OutputTypes
<1>6. Written /\ Queued /\ Answered
  <2>1. Written
    BY <1>3, <1>5 DEF Written, OutputTyped
  <2>2. Queued
    BY <1>3 DEF Queued
  <2>3. Answered
    BY <1>3 DEF Answered
  <2> QED BY <2>1, <2>2, <2>3
<1>7. FramesParsed = 0
  BY <1>3, <1>4 DEF FramesParsed
<1>8. wire \in Seq(Bytes) /\ 0 \in 0..Len(wire) /\ Len(wire) \in Nat
  BY <1>2 DEF Types
<1>9. Passed(0, 0)
  <2> DEFINE b == [k \in {0} |-> 0]
  <2>1. b[0] = 0 /\ \A k \in 0..(0 - 1) : FALSE
    OBVIOUS
  <2>2. Walks(b, 0) /\ b[0] = 0
    <3> HIDE DEF b
    <3> QED BY <2>1 DEF Walks
  <2> QED BY <2>2 DEF Passed
<1>10. HeaderParsed = 0 /\ Position(0) = 0 /\ Unparsed = 0
  BY <1>1 DEF HeaderParsed, Position, Unparsed
<1>11. HeaderRead(0) /\ PayloadRead(0) /\ ChunkRead(0)
  BY <1>1, <1>10 DEF HeaderRead, PayloadRead, ChunkRead
<1>12. Waiting = <<>>
  <2>1. Waiting = FlattenSeq([i \in DOMAIN <<>> |-> ChunkIn(<<>>[i], mem)])
    BY <1>1 DEF Waiting, WaitingIn
  <2>2. [i \in DOMAIN <<>> |-> ChunkIn(<<>>[i], mem)] = <<>>
    OBVIOUS
  <2> QED BY <2>1, <2>2, FlattenEmpty
<1>13. WaitingRead(0)
  <2>1. Position(0) + Unparsed <= pos /\ Position(0) + Unparsed = 0
    BY <1>1, <1>10
  <2>2. SubSeq(wire, 0 + 1, 0) = <<>>
    BY <1>8, SliceFacts, EmptyFacts
  <2> QED BY <1>1, <1>12, <2>1, <2>2 DEF WaitingRead
<1> QED BY <1>6, <1>7, <1>8, <1>9, <1>11, <1>13 DEF Following, Output, ParsesFrom

\* The account of the stream holds in every behaviour.
LEMMA AlwaysStreamInv == Spec => []StreamInv
<1>1. Init => WrittenInOrder /\ NoSpuriousError
  <2> SUFFICES ASSUME Init PROVE WrittenInOrder /\ NoSpuriousError
    OBVIOUS
  <2>1. Types /\ Written
    BY InitShapeInv, InitFollowing DEF ShapeInv, Following, Output
  <2>2. NoSpuriousError
    BY DEF NoSpuriousError, Init, Created
  <2> QED BY <2>1, <2>2, WrittenIsPrefix
<1>2. Init => OwnInv
  BY InitShapeInv, InitRefsExact, InitOwning DEF OwnInv, RefsInv
<1>3. Init => StreamInv
  BY <1>1, <1>2, InitFollowing DEF StreamInv
<1>4. OwnInv /\ [Next]_vars => OwnInv'
  BY NextShapeInv, NextRefsExact, NextOwning DEF OwnInv, RefsInv
<1>5. StreamInv /\ [Next]_vars => StreamInv'
  <2> SUFFICES ASSUME StreamInv, [Next]_vars PROVE StreamInv'
    OBVIOUS
  <2>1. OwnInv /\ OwnInv' /\ WrittenInOrder /\ NoSpuriousError /\ (Running => Following)
    BY <1>4 DEF StreamInv
  <2>2. Running' => Following'
    BY <2>1, NextFollowing
  <2>3. NoSpuriousError'
    BY <2>1, NextNoSpuriousError
  <2>4. WrittenInOrder'
    BY <2>1, <2>2, NextWrittenInOrder
  <2> QED BY <2>1, <2>2, <2>3, <2>4 DEF StreamInv
<1> QED BY <1>3, <1>5, PTL DEF Spec

\* What the TUN device gets are the packets of the stream, whole, once and in
\* order, up to the first frame that must be rejected: kick_parse_'s cutting of
\* chunks into frames, the WRITE of the oldest frame and the reuse of buffers
\* never mix up bytes, for any stream, any chunks and any number of buffers.
THEOREM PacketsInOrder == Spec => []WrittenInOrder
<1>1. StreamInv => WrittenInOrder
  BY DEF StreamInv
<1> QED BY <1>1, AlwaysStreamInv, PTL

\* InvalidMagic, InvalidSize and FrameCrcMismatch end the session only if they are
\* what the first bad frame of the stream has; the errors for impossible states
\* (InvalidState, InvalidBid, RecvCqeMissingBid, WriteUnknownFrame, TunPartialWrite)
\* never do.
THEOREM ErrorsHonest == Spec => []NoSpuriousError
<1>1. StreamInv => NoSpuriousError
  BY DEF StreamInv
<1> QED BY <1>1, AlwaysStreamInv, PTL

-----------------------------------------------------------------------------
(* A stream that grows *)

\* The peer sends more bytes, and nothing else happens.
Grows ==
    /\ wire' \in Seq(Bytes) /\ Extends(wire, wire')
    /\ UNCHANGED <<own_vars, handler_vars, run_result, br_, mem, recving, writing, cq, pos,
                   tun_tx>>

\* What was sent keeps its place.
LEMMA SliceExtends ==
    ASSUME NEW bytes \in Seq(Bytes), NEW longer \in Seq(Bytes), Extends(bytes, longer),
           NEW a \in Nat, NEW b \in Nat, b <= Len(bytes)
    PROVE  SubSeq(longer, a + 1, b) = SubSeq(bytes, a + 1, b)
<1>1. Len(bytes) \in Nat /\ Len(longer) \in Nat /\ b <= Len(longer)
  BY DEF Extends
<1>2. CASE a <= b
  <2> DEFINE t == SubSeq(bytes, a + 1, b)
  <2>1. /\ t \in Seq(Bytes) /\ Len(t) = b - a
        /\ \A k \in 1..(b - a) : t[k] = bytes[a + k]
    BY <1>2, SliceFacts
  <2> HIDE DEF t
  <2>2. \A k \in 1..(b - a) : a + k \in 1..Len(bytes)
    BY <1>1, <1>2
  <2>3. \A k \in 1..(b - a) : t[k] = longer[a + k]
    BY <2>1, <2>2 DEF Extends
  <2>4. t = SubSeq(longer, a + 1, b)
    BY <1>1, <1>2, <2>1, <2>3, SliceIs
  <2> QED BY <2>4 DEF t
<1>3. CASE ~(a <= b)
  <2>1. SubSeq(longer, a + 1, b) = <<>> /\ SubSeq(bytes, a + 1, b) = <<>>
    BY <1>3, SubSeqEmpty
  <2> QED BY <2>1
<1> QED BY <1>2, <1>3

\* Frames that were sent stay frames.
LEMMA FrameExtends ==
    ASSUME NEW bytes \in Seq(Bytes), NEW longer \in Seq(Bytes), Extends(bytes, longer),
           NEW from, HasFrame(bytes, from)
    PROVE  /\ HasFrame(longer, from) /\ EndAt(longer, from) = EndAt(bytes, from)
           /\ PayloadAt(longer, from) = PayloadAt(bytes, from)
<1>1. /\ from \in Nat /\ from + wire_size <= Len(bytes)
      /\ EndAt(bytes, from) <= Len(bytes)
      /\ wire_size \in Nat
  BY WireSizeAssumption DEF HasFrame
<1>2. EndAt(bytes, from) \in Nat /\ Len(bytes) \in Nat /\ Len(longer) \in Nat
      /\ Len(bytes) <= Len(longer)
  BY <1>1, EndFacts DEF Extends
<1>3. HeaderAt(longer, from) = HeaderAt(bytes, from)
  <2> DEFINE b == from + wire_size
  <2>1. b \in Nat /\ b <= Len(bytes) /\ from \in Nat
    BY <1>1
  <2> HIDE DEF b
  <2>2. SubSeq(longer, from + 1, b) = SubSeq(bytes, from + 1, b)
    BY <2>1, SliceExtends
  <2> QED BY <2>2 DEF HeaderAt, b
<1>4. EndAt(longer, from) = EndAt(bytes, from)
  BY <1>3 DEF EndAt
<1>5. PayloadAt(longer, from) = PayloadAt(bytes, from)
  <2> DEFINE a == from + wire_size
             b == EndAt(bytes, from)
  <2>1. a \in Nat /\ b \in Nat /\ b <= Len(bytes)
    BY <1>1, <1>2
  <2> HIDE DEF a, b
  <2>2. SubSeq(longer, a + 1, b) = SubSeq(bytes, a + 1, b)
    BY <2>1, SliceExtends
  <2> QED BY <1>4, <2>2 DEF PayloadAt, a, b
<1>6. from + wire_size <= Len(longer) /\ EndAt(longer, from) <= Len(longer)
  BY <1>1, <1>2, <1>4
<1> QED BY <1>1, <1>3, <1>4, <1>5, <1>6 DEF HasFrame

\* The walk over a stream that grew, and its packets.
WalkPackets ==
    \A b : \A parsed \in Nat :
       Walks(b, parsed) => \A k \in 0..(parsed - 1) : /\ k + 1 <= Len(Packets)
                                                      /\ Packets[k + 1] = PayloadAt(wire, b[k])

\* They are those of the frames it went over.
LEMMA WalkHasPackets == Types => WalkPackets
  BY WalkReaches DEF WalkPackets

\* The buffers and requests have nothing to do with the stream.
LEMMA GrowsOwned == OwnInv /\ Grows => OwnInv'
<1> SUFFICES ASSUME OwnInv, Grows PROVE OwnInv'
  OBVIOUS
<1>1. /\ UNCHANGED <<cooling_down_, used_buffers_, input_buffer_queue_, buffer_refcounts_,
                     state_, header_, header_progress_, frame_, payload_progress_,
                     output_frame_queue_, write_in_progress_, cqe_, released, run_result,
                     br_, mem, recving, writing, cq, pos, tun_tx>>
      /\ wire' \in Seq(Bytes) /\ Len(wire) <= Len(wire')
  BY DEF Grows, Extends, own_vars, parser_vars, handler_vars
<1>2. Types'
  <2>1. Types /\ wire \in Seq(Bytes)
    BY DEF OwnInv, RefsInv, ShapeInv, Types
  <2>2. pos' \in 0..Len(wire')
    BY <1>1, <2>1 DEF Types
  <2> QED BY <1>1, <2>1, <2>2 DEF Types
<1>3. Running' <=> Running
  BY <1>1 DEF Running
<1>4. ASSUME Running PROVE Shape'
  <2>1. Parser /\ Handling /\ Fitting /\ Writing
    BY <1>4 DEF OwnInv, RefsInv, ShapeInv, Shape
  <2>2. Parser'
    BY <1>1, <2>1 DEF Parser
  <2>3. Handling'
    BY <1>1, <2>1 DEF Handling
  <2>4. Fitting'
    BY <1>1, <2>1 DEF Fitting, Fits, FitsIn, Filled
  <2>5. Writing'
    BY <1>1, <2>1 DEF Writing, WriteDones
  <2> QED BY <2>2, <2>3, <2>4, <2>5 DEF Shape
<1>5. ASSUME Running PROVE RefsExact'
  BY <1>1, <1>5 DEF OwnInv, RefsInv, RefsExact, QueueBids
<1>6. ASSUME Running PROVE Owning'
  <2>1. OneOwner /\ Counted /\ Bounded
    BY <1>6 DEF OwnInv, Owning
  <2>2. Held' = Held /\ CqBids' = CqBids /\ Input' = Input
    BY <1>1 DEF Held, CqBids, Input
  <2>3. OneOwner'
    BY <1>1, <2>1, <2>2 DEF OneOwner, HeldOnce
  <2>4. Counted'
    BY <1>1, <2>1, <2>2 DEF Counted
  <2>5. Bounded'
    BY <1>1, <2>1, <2>2 DEF Bounded
  <2> QED BY <2>3, <2>4, <2>5 DEF Owning
<1> QED BY <1>2, <1>3, <1>4, <1>5, <1>6 DEF OwnInv, RefsInv, ShapeInv


\* The packets of the frames gone over are the same in the longer stream.
PacketsGrow(parsed) ==
    /\ parsed <= Len(Packets')
    /\ \A i \in 1..parsed : Packets'[i] = Packets[i]

\* What has been passed of the wire stays passed when bytes are added behind it.
LEMMA PassedGrows ==
    ASSUME Types, Types', wire' \in Seq(Bytes), Extends(wire, wire'),
           NEW start, NEW parsed \in Nat, Passed(start, parsed)
    PROVE  Passed(start, parsed)' /\ PacketsGrow(parsed)
<1>1. PICK b : Walks(b, parsed) /\ b[parsed] = start
  BY DEF Passed
<1>2. ASSUME NEW k \in 0..(parsed - 1)
      PROVE  /\ HasFrame(wire', b[k]) /\ b[k + 1] = EndAt(wire', b[k])
             /\ PayloadAt(wire', b[k]) = PayloadAt(wire, b[k])
  <2>1. HasFrame(wire, b[k]) /\ b[k + 1] = EndAt(wire, b[k])
    BY <1>1 DEF Walks
  <2>2. wire \in Seq(Bytes)
    BY DEF Types
  <2> QED BY <2>1, <2>2, FrameExtends
<1>3. Walks(b, parsed)'
  <2>1. b[0] = 0
    BY <1>1 DEF Walks
  <2> QED BY <1>2, <2>1 DEF Walks
<1>4. \A k \in 0..(parsed - 1) : k + 1 <= Len(Packets) /\ Packets[k + 1] = PayloadAt(wire, b[k])
  <2>1. WalkPackets
    BY WalkHasPackets
  <2> QED BY <1>1, <2>1 DEF WalkPackets
<1>5. \A k \in 0..(parsed - 1) :
          k + 1 <= Len(Packets') /\ Packets'[k + 1] = PayloadAt(wire', b[k])
  <2>1. WalkPackets'
    BY WalkHasPackets, PTL
  <2>2. \A c : \A n \in Nat :
            Walks(c, n)' => \A k \in 0..(n - 1) : /\ k + 1 <= Len(Packets')
                                                  /\ Packets'[k + 1] = PayloadAt(wire', c[k])
    BY <2>1 DEF WalkPackets
  <2> QED BY <1>3, <2>2
<1>6. ASSUME NEW i \in 1..parsed PROVE i <= Len(Packets') /\ Packets'[i] = Packets[i]
  <2> DEFINE k == i - 1
  <2>1. k \in 0..(parsed - 1) /\ k + 1 = i
    OBVIOUS
  <2> HIDE DEF k
  <2>2. Packets'[k + 1] = Packets[k + 1] /\ k + 1 <= Len(Packets')
    BY <1>2, <1>4, <1>5, <2>1
  <2> QED BY <2>1, <2>2
<1>7. parsed <= Len(Packets')
  <2>1. CASE parsed = 0
    <3>1. Packets' \in Seq(Seq(Bytes))
      <4>1. Len(wire') \in Nat /\ 0 \in 0..Len(wire')
        OBVIOUS
      <4> QED BY <4>1, DecodedType DEF Packets, Decode
    <3> QED BY <2>1, <3>1
  <2>2. CASE parsed # 0
    <3>1. parsed \in 1..parsed
      BY <2>2
    <3> QED BY <1>6, <3>1
  <2> QED BY <2>1, <2>2
<1>8. Passed(start, parsed)'
  BY <1>1, <1>3 DEF Passed
<1>9. PacketsGrow(parsed)
  BY <1>6, <1>7 DEF PacketsGrow
<1> QED BY <1>8, <1>9

\* What the receiver has, and where its parser is, does not change when the peer
\* sends more bytes.
LEMMA GrowsFollows == OwnInv /\ Running /\ Following /\ Grows => Following'
<1> SUFFICES ASSUME OwnInv, Running, Following, Grows PROVE Following'
  OBVIOUS
<1>1. /\ UNCHANGED <<input_buffer_queue_, state_, header_, header_progress_, frame_,
                     payload_progress_, output_frame_queue_, cqe_, mem, cq, pos, tun_tx>>
      /\ wire' \in Seq(Bytes) /\ Extends(wire, wire')
  BY DEF Grows, own_vars, parser_vars, handler_vars
<1>2. Types /\ Types' /\ ShapeInv /\ wire \in Seq(Bytes) /\ Len(wire) <= Len(wire')
      /\ Len(wire) \in Nat /\ Len(wire') \in Nat
  BY <1>1, GrowsOwned DEF OwnInv, RefsInv, ShapeInv, Types, Extends
<1>3. OutputTyped /\ Tracked
  BY <1>2, OutputTypes, TrackedFacts
<1>4. PICK start \in 0..Len(wire) : Passed(start, FramesParsed) /\ ParsesFrom(start)
  BY DEF Following
<1>5. /\ SomeDone' = SomeDone /\ WrittenHead' = WrittenHead /\ FramesParsed' = FramesParsed
      /\ WriteDones' = WriteDones
  BY <1>1 DEF SomeDone, WriteDones, WrittenHead, FramesParsed
<1>6. FramesParsed \in Nat /\ Written /\ Queued /\ Answered
  BY <1>3 DEF OutputTyped, Following, Output
<1>7. Passed(start, FramesParsed)' /\ PacketsGrow(FramesParsed)
  <2>1. ASSUME NEW n \in Nat, Passed(start, n) PROVE Passed(start, n)' /\ PacketsGrow(n)
    BY <1>1, <1>2, <2>1, PassedGrows
  <2>2. PICK n \in Nat : n = FramesParsed
    BY <1>6
  <2>3. Passed(start, n)' /\ PacketsGrow(n)
    BY <1>4, <2>1, <2>2
  <2> QED BY <1>5, <2>2, <2>3 DEF Passed
<1>8. FramesParsed <= Len(Packets') /\ \A i \in 1..FramesParsed : Packets'[i] = Packets[i]
  BY <1>7 DEF PacketsGrow
<1>9. /\ Len(tun_tx) \in Nat /\ Len(output_frame_queue_) \in Nat /\ WrittenHead \in {0, 1}
      /\ WrittenHead = 1 => Len(output_frame_queue_) >= 1
      /\ FramesParsed = Len(tun_tx) - WrittenHead + Len(output_frame_queue_)
      /\ Len(Packets') \in Nat
  <2>1. Packets' \in Seq(Seq(Bytes))
    <3>1. Len(wire') \in Nat /\ 0 \in 0..Len(wire')
      BY <1>2
    <3> QED BY <1>1, <3>1, DecodedType DEF Packets, Decode
  <2> QED BY <1>3, <2>1 DEF OutputTyped
<1>10. Written'
  <2>1. Len(tun_tx) <= FramesParsed
    BY <1>9
  <2>2. Len(tun_tx) <= Len(Packets')
    BY <1>6, <1>8, <1>9, <2>1
  <2>3. \A i \in 1..Len(tun_tx) : i \in 1..FramesParsed
    BY <1>6, <1>9, <2>1
  <2> QED BY <1>1, <1>6, <1>8, <2>2, <2>3 DEF Written
<1>11. Answered'
  BY <1>1, <1>5, <1>6 DEF Answered, ok
<1>12. Queued'
  <2> SUFFICES ASSUME NEW i \in 1..Len(output_frame_queue_), cqe_.type = "WRITE" => i # 1
               PROVE  IovIn(output_frame_queue_[i].segments, mem)
                        = Packets'[Len(tun_tx) - WrittenHead + i]
    BY <1>1, <1>5 DEF Queued
  <2>1. WrittenHead = 1 /\ cqe_.type # "WRITE" => Len(tun_tx) >= 1
    BY <1>6 DEF WrittenHead, SomeDone, Answered
  <2> DEFINE j == Len(tun_tx) - WrittenHead + i
  <2>2. j \in 1..FramesParsed
    BY <1>9, <2>1
  <2>3. IovIn(output_frame_queue_[i].segments, mem) = Packets[j]
    BY <1>6 DEF Queued
  <2> HIDE DEF j
  <2>4. IovIn(output_frame_queue_[i].segments, mem) = Packets'[j]
    BY <1>8, <2>2, <2>3
  <2> QED BY <2>4 DEF j
<1>13. /\ HeaderParsed' = HeaderParsed /\ Position(start)' = Position(start)
       /\ Unparsed' = Unparsed /\ Input' = Input /\ Waiting' = Waiting
  BY <1>1 DEF HeaderParsed, Position, Unparsed, Input, Waiting
<1>14. /\ HeaderParsed \in Nat /\ payload_progress_ \in Nat /\ Unparsed \in Nat /\ start \in Nat
       /\ pos \in Nat /\ pos <= Len(wire) /\ wire_size \in Nat
       /\ Position(start) = start + HeaderParsed + payload_progress_
       /\ Position(start) + Unparsed <= pos
       /\ (state_ = "PARSING_PAYLOAD" => HeaderParsed = wire_size)
       /\ \A k \in 1..Len(wire) : wire'[k] = wire[k]
  BY <1>1, <1>2, <1>3, <1>4, WireSizeAssumption
     DEF Tracked, Position, ParsesFrom, WaitingRead, HeaderParsed, Extends
<1>15. HeaderRead(start)'
  <2>1. \A k \in 1..HeaderParsed : start + k \in 1..Len(wire)
    BY <1>2, <1>14
  <2>2. \A k \in 1..HeaderParsed : header_[k] = wire[start + k]
    BY <1>4 DEF ParsesFrom, HeaderRead
  <2>3. \A k \in 1..HeaderParsed : header_[k] = wire'[start + k]
    BY <1>14, <2>1, <2>2
  <2>4. state_ = "PARSING_PAYLOAD" => is_magic_valid(header_)
    BY <1>4 DEF ParsesFrom, HeaderRead
  <2> QED BY <1>1, <1>13, <2>3, <2>4 DEF HeaderRead
<1>16. PayloadRead(start)'
  <2> SUFFICES ASSUME state_ = "PARSING_PAYLOAD"
               PROVE  IovIn(frame_.segments, mem)
                        = SubSeq(wire', start + wire_size + 1,
                                 start + wire_size + payload_progress_)
    BY <1>1 DEF PayloadRead
  <2> DEFINE a == start + wire_size
             b == start + wire_size + payload_progress_
  <2>1. a \in Nat /\ b \in Nat /\ b <= Len(wire)
    BY <1>2, <1>14
  <2>2. IovIn(frame_.segments, mem) = SubSeq(wire, a + 1, b)
    BY <1>4 DEF ParsesFrom, PayloadRead
  <2> HIDE DEF a, b
  <2>3. SubSeq(wire', a + 1, b) = SubSeq(wire, a + 1, b)
    BY <1>1, <1>2, <2>1, SliceExtends
  <2> QED BY <2>2, <2>3 DEF a, b
<1>17. ChunkRead(start)'
  <2>1. \A k \in 1..Unparsed : mem[Input.bid][Input.offset + k] = wire[Position(start) + k]
    BY <1>4 DEF ParsesFrom, ChunkRead
  <2>2. \A k \in 1..Unparsed : Position(start) + k \in 1..Len(wire)
    BY <1>2, <1>14
  <2>3. \A k \in 1..Unparsed : mem[Input.bid][Input.offset + k] = wire'[Position(start) + k]
    BY <1>14, <2>1, <2>2
  <2> QED BY <1>1, <1>13, <2>3 DEF ChunkRead
<1>18. WaitingRead(start)'
  <2> DEFINE a == Position(start) + Unparsed
  <2>1. a \in Nat
    BY <1>14
  <2>2. Waiting = SubSeq(wire, a + 1, pos)
    BY <1>4 DEF ParsesFrom, WaitingRead
  <2> HIDE DEF a
  <2>3. SubSeq(wire', a + 1, pos) = SubSeq(wire, a + 1, pos)
    BY <1>1, <1>2, <1>14, <2>1, SliceExtends
  <2>4. Waiting = SubSeq(wire', Position(start) + Unparsed + 1, pos)
    BY <2>2, <2>3 DEF a
  <2> QED BY <1>1, <1>13, <1>14, <2>4 DEF WaitingRead
<1>19. start \in 0..Len(wire')
  BY <1>2
<1>20. ParsesFrom(start)'
  BY <1>15, <1>16, <1>17, <1>18 DEF ParsesFrom
<1> QED BY <1>7, <1>10, <1>11, <1>12, <1>19, <1>20 DEF Following, Output


-----------------------------------------------------------------------------
(* A stream of frames *)

\* What the frames of packets of these sizes mean after the first `done' of them:
\* packets that are theirs, up to the first that is too large.
Means(here, done, sizes) ==
    /\ here.packets \in Seq(Seq(Bytes))
    /\ done + Len(here.packets) <= Len(sizes)
    /\ \A i \in 1..Len(here.packets) :
          /\ here.packets[i] = PacketBytes(done + i, sizes[done + i])
          /\ sizes[done + i] <= mtu
    /\ here.error \in {"None", "InvalidSize"}
    /\ here.error = "InvalidSize" => \E p \in 1..Len(sizes) : sizes[p] > mtu

\* Nothing means nothing wrong.
LEMMA NoneMeans ==
    ASSUME NEW sizes \in Seq(PacketSizes), NEW done \in 0..Len(sizes)
    PROVE  Means(Stop("None"), done, sizes)
<1>1. /\ Stop("None").packets = <<>> /\ Stop("None").error = "None"
      /\ <<>> \in Seq(Seq(Bytes)) /\ Len(<<>>) = 0
  BY DEF Stop
<1>2. Stop("None").packets \in Seq(Seq(Bytes)) /\ Len(Stop("None").packets) = 0
  BY <1>1
<1> QED BY <1>1, <1>2 DEF Means

\* One frame of the stream.
LEMMA FrameMeans ==
    ASSUME NEW sizes \in Seq(PacketSizes), NEW stream, NEW ends, Layout(ends, stream, sizes),
           NEW bytes \in Seq(Bytes), Extends(bytes, stream),
           NEW done \in 0..(Len(sizes) - 1), ends[done] <= Len(bytes),
           ends[done + 1] <= Len(bytes)
             => Means(Decoded(bytes, mtu)[ends[done + 1]], done + 1, sizes)
    PROVE  Means(Decoded(bytes, mtu)[ends[done]], done, sizes)
<1> DEFINE p == done + 1
           size == sizes[p]
           start == ends[done]
           end == ends[p]
           here == Decoded(bytes, mtu)[start]
           behind == Decoded(bytes, mtu)[end]
           payload == PacketBytes(p, size)
<1>1. /\ p \in 1..Len(sizes) /\ p - 1 = done /\ p \in 0..Len(sizes) /\ done \in 0..Len(sizes)
      /\ done \in Nat /\ p \in Nat /\ Len(sizes) \in Nat
  OBVIOUS
<1>2. /\ size \in PacketSizes /\ size \in Nat /\ size >= 1 /\ wire_size \in Nat /\ mtu \in Nat
  BY <1>1, WireSizeAssumption, ReceiverAssumption DEF PacketSizes
<1>3. /\ start \in Nat /\ end \in Nat /\ end = start + wire_size + size
      /\ \A k \in 1..(wire_size + size) : stream[start + k] = FrameBytes(p, size)[k]
  BY <1>1 DEF Layout
<1>4. /\ Len(bytes) \in Nat /\ start <= Len(bytes)
      /\ \A k \in 1..Len(bytes) : bytes[k] = stream[k]
  BY DEF Extends
<1>5. end <= Len(bytes) => Means(behind, p, sizes)
  OBVIOUS
<1> HIDE DEF p, size, start, end
<1>6. here = DecodeStep(Decoded(bytes, mtu), bytes, start)
  <2>1. start \in 0..Len(bytes)
    BY <1>3, <1>4
  <2> QED BY <2>1, DecodedIs
<1>7. CASE start + wire_size > Len(bytes)
  <2>1. here = Stop("None")
    BY <1>6, <1>7 DEF DecodeStep
  <2> HIDE DEF here
  <2>2. Means(here, done, sizes)
    BY <1>1, <2>1, NoneMeans
  <2> QED BY <2>2 DEF here, start
<1>8. CASE ~(start + wire_size > Len(bytes))
  <2> DEFINE header == HeaderAt(bytes, start)
  <2>1. start + wire_size <= Len(bytes)
    BY <1>2, <1>3, <1>4, <1>8
  <2>2. \A k \in 1..wire_size : header[k] = bytes[start + k]
    BY <1>3, <2>1, EndFacts
  <2>3. ASSUME NEW k \in 1..wire_size PROVE header[k] = HeaderByte(PacketHeader(p, size), k)
    <3>1. start + k \in 1..Len(bytes) /\ k \in 1..(wire_size + size)
      BY <1>2, <1>3, <1>4, <2>1
    <3>2. header[k] = FrameBytes(p, size)[k]
      BY <1>3, <1>4, <2>2, <3>1
    <3> QED BY <1>1, <1>2, <3>2, FrameBytesAre
  <2>4. /\ is_magic_valid(header) = PacketHeader(p, size).magic
        /\ get_size(header) = PacketHeader(p, size).size
        /\ get_crc(header) = PacketHeader(p, size).crc
    <3> HIDE DEF header
    <3> QED BY <2>3, HeaderFields
  <2>5. is_magic_valid(header) /\ get_size(header) = size /\ get_crc(header) = crc32c(payload)
    BY <2>4 DEF PacketHeader, FrameHeader
  <2>6. EndAt(bytes, start) = end
    BY <1>3, <2>5 DEF EndAt
  <2>7. CASE size > mtu
    <3>1. here = Stop("InvalidSize")
      BY <1>2, <1>6, <1>8, <2>5, <2>7 DEF DecodeStep
    <3>2. here.packets = <<>> /\ here.error = "InvalidSize"
      BY <3>1 DEF Stop
    <3> HIDE DEF here
    <3>3. here.packets \in Seq(Seq(Bytes)) /\ Len(here.packets) = 0
      BY <3>2
    <3>4. \E q \in 1..Len(sizes) : sizes[q] > mtu
      BY <1>1, <2>7 DEF size
    <3>5. Means(here, done, sizes)
      BY <1>1, <3>2, <3>3, <3>4 DEF Means
    <3> QED BY <3>5 DEF here, start
  <2>8. CASE size <= mtu /\ end > Len(bytes)
    <3>1. size \in 1..mtu
      BY <1>2, <2>8
    <3>2. here = Stop("None")
      BY <1>6, <1>8, <2>5, <2>6, <2>8, <3>1 DEF DecodeStep
    <3> HIDE DEF here
    <3>3. Means(here, done, sizes)
      BY <1>1, <3>2, NoneMeans
    <3> QED BY <3>3 DEF here, start
  <2>9. CASE size <= mtu /\ ~(end > Len(bytes))
    <3>1. size \in 1..mtu /\ end <= Len(bytes)
      BY <1>2, <1>3, <1>4, <2>9
    <3>2. PayloadAt(bytes, start) = payload
      <4> DEFINE a == start + wire_size
                 s == SubSeq(bytes, a + 1, end)
      <4>1. a \in Nat /\ a <= end /\ end - a = size
        BY <1>2, <1>3
      <4>2. PayloadAt(bytes, start) = s
        BY <2>6 DEF PayloadAt
      <4> HIDE DEF a
      <4>3. s \in Seq(Bytes) /\ Len(s) = size /\ \A k \in 1..size : s[k] = bytes[a + k]
        BY <1>3, <3>1, <4>1, SliceFacts, SMTT(30)
      <4> HIDE DEF s
      <4>4. ASSUME NEW k \in 1..size PROVE s[k] = PayloadByte(p, k)
        <5>1. /\ a + k \in 1..Len(bytes) /\ a + k = start + (wire_size + k)
              /\ wire_size + k \in 1..(wire_size + size)
          <6>1. /\ start \in Nat /\ wire_size \in Nat /\ size \in Nat /\ Len(bytes) \in Nat
                /\ a = start + wire_size /\ start + wire_size + size <= Len(bytes)
                /\ k \in Nat /\ k >= 1 /\ k <= size
            BY <1>2, <1>3, <1>4, <3>1 DEF a
          <6> QED BY <6>1
        <5>2. s[k] = FrameBytes(p, size)[wire_size + k]
          BY <1>3, <1>4, <4>3, <5>1
        <5> QED BY <1>1, <1>2, <5>2, FrameBytesAre
      <4>5. s = [k \in 1..size |-> s[k]]
        BY <1>2, <4>3
      <4>6. s = [k \in 1..size |-> PayloadByte(p, k)]
        BY <4>4, <4>5
      <4> QED BY <4>2, <4>6 DEF PacketBytes
    <3>3. HasFrame(bytes, start)
      BY <1>3, <2>1, <2>5, <2>6, <3>1, <3>2 DEF HasFrame
    <3>4. Splits(here, behind, payload)
      BY <2>6, <3>2, <3>3, FrameDecoded
    <3> HIDE DEF here, behind, payload
    <3>5. /\ behind.packets \in Seq(Seq(Bytes)) /\ Len(behind.packets) \in Nat
          /\ here.error = behind.error
          /\ Len(here.packets) = Len(behind.packets) + 1
          /\ here.packets[1] = payload
          /\ \A i \in 1..Len(behind.packets) : here.packets[i + 1] = behind.packets[i]
      BY <3>4 DEF Splits
    <3>6. Means(behind, p, sizes)
      BY <1>5, <3>1 DEF behind
    <3>7. here.packets \in Seq(Seq(Bytes))
      <4>1. start \in 0..Len(bytes)
        BY <1>3, <1>4
      <4> QED BY <4>1, DecodedType DEF here
    <3>8. ASSUME NEW i \in 1..Len(here.packets)
          PROVE  /\ here.packets[i] = PacketBytes(done + i, sizes[done + i])
                 /\ sizes[done + i] <= mtu
      <4>1. CASE i = 1
        <5>1. done + i = p
          BY <1>1, <4>1 DEF p
        <5> QED BY <3>1, <3>5, <4>1, <5>1 DEF payload, size
      <4>2. CASE i # 1
        <5> DEFINE j == i - 1
        <5>1. j \in 1..Len(behind.packets) /\ j + 1 = i /\ p + j = done + i
          BY <1>1, <3>5, <4>2 DEF p
        <5> HIDE DEF j
        <5>2. here.packets[j + 1] = behind.packets[j]
          BY <3>5, <5>1
        <5>3. /\ behind.packets[j] = PacketBytes(p + j, sizes[p + j])
              /\ sizes[p + j] <= mtu
          BY <3>6, <5>1 DEF Means
        <5> QED BY <5>1, <5>2, <5>3
      <4> QED BY <4>1, <4>2
    <3>9. done + Len(here.packets) <= Len(sizes)
      <4>1. p + Len(behind.packets) <= Len(sizes)
        BY <3>6 DEF Means
      <4> QED BY <1>1, <3>5, <4>1 DEF p
    <3>10. Means(here, done, sizes)
      BY <3>5, <3>6, <3>7, <3>8, <3>9 DEF Means
    <3> QED BY <3>10 DEF here, start
  <2> QED BY <1>2, <1>3, <1>4, <2>7, <2>8, <2>9
<1> QED BY <1>7, <1>8

\* Any first bytes of the frames of packets mean some of these packets, whole and
\* in order, and what follows them is not complete or is too large.
LEMMA StreamDecoded ==
    ASSUME NEW sizes \in Seq(PacketSizes), NEW bytes \in Seq(Bytes),
           Extends(bytes, FrameStream(sizes))
    PROVE  Means(Decode(bytes, mtu), 0, sizes)
<1>1. PICK ends : Layout(ends, FrameStream(sizes), sizes)
  BY StreamLayout
<1> DEFINE stream == FrameStream(sizes)
           n == Len(sizes)
           P == {j \in Nat : j <= n /\ ends[n - j] <= Len(bytes)
                               => Means(Decoded(bytes, mtu)[ends[n - j]], n - j, sizes)}
<1> HIDE DEF stream
<1>2. /\ Layout(ends, stream, sizes) /\ Extends(bytes, stream) /\ n \in Nat
      /\ Len(bytes) \in Nat
  BY <1>1 DEF stream
<1>3. /\ ends[0] = 0 /\ ends \in [0..n -> Nat] /\ Len(stream) = ends[n]
      /\ Len(bytes) <= Len(stream)
  BY <1>2 DEF Layout, Extends
<1>4. 0 \in P
  <2> SUFFICES ASSUME ends[n] <= Len(bytes)
               PROVE  Means(Decoded(bytes, mtu)[ends[n]], n, sizes)
    BY <1>2
  <2>1. ends[n] \in 0..Len(bytes) /\ ends[n] + wire_size > Len(bytes)
    BY <1>2, <1>3, WireSizeAssumption
  <2>2. Decoded(bytes, mtu)[ends[n]] = DecodeStep(Decoded(bytes, mtu), bytes, ends[n])
    BY <2>1, DecodedIs
  <2>3. Decoded(bytes, mtu)[ends[n]] = Stop("None")
    BY <2>1, <2>2 DEF DecodeStep
  <2>4. n \in 0..Len(sizes)
    BY <1>2
  <2> QED BY <2>3, <2>4, NoneMeans
<1>5. ASSUME NEW j \in Nat, j \in P PROVE j + 1 \in P
  <2> DEFINE done == n - (j + 1)
  <2> SUFFICES ASSUME j + 1 <= n, ends[done] <= Len(bytes)
               PROVE  Means(Decoded(bytes, mtu)[ends[done]], done, sizes)
    OBVIOUS
  <2>1. done \in 0..(Len(sizes) - 1) /\ done + 1 = n - j /\ j <= n
    BY <1>2
  <2>2. ends[done + 1] <= Len(bytes)
          => Means(Decoded(bytes, mtu)[ends[done + 1]], done + 1, sizes)
    BY <1>5, <2>1
  <2> HIDE DEF done
  <2> QED BY <1>2, <2>1, <2>2, FrameMeans
<1> HIDE DEF P
<1>6. n \in P
  BY <1>2, <1>4, <1>5, NatSetInduction
<1>7. n - n = 0 /\ n <= n /\ 0 <= Len(bytes)
  BY <1>2
<1>8. Means(Decoded(bytes, mtu)[0], 0, sizes)
  <2> HIDE DEF n
  <2> QED BY <1>3, <1>6, <1>7 DEF P
<1> QED BY <1>8 DEF Decode


-----------------------------------------------------------------------------
(* What the other side of the stream sees *)

\* A packet leaves.
Delivers == Running /\ run_result' = run_result /\ \E packet : tun_tx' = Append(tun_tx, packet)

\* Packets leave one by one, while the session runs and goes on running.
LEMMA PacketsLeave == [Next]_vars => UNCHANGED tun_tx \/ Delivers
<1> SUFFICES ASSUME [Next]_vars PROVE UNCHANGED tun_tx \/ Delivers
  OBVIOUS
<1>1. CASE Handle
  BY <1>1 DEF Handle, RecvNoBuffers, RecvFailed, RecvChunk, Handles, ParseHeader,
              ParsePayload, ParseNoMemory, Parses, RecvDone, RecvRearmFailed, Parsed,
              WriteCompleted, ReleaseBuffer, Releases, WriteDone, WriteRearmFailed,
              Released
<1>2. CASE UNCHANGED vars
  BY <1>2 DEF vars, kernel_vars
<1>3. CASE \/ \E n \in 1..buffer_size, more \in BOOLEAN : KernelRecv(n, more)
           \/ KernelRecvNoBuffers \/ KernelRecvError \/ KernelPeerClosed \/ KernelWriteError
  BY <1>3 DEF KernelRecv, KernelRecvNoBuffers, KernelRecvError, KernelPeerClosed, EndRecv,
              KernelWriteError
<1>4. CASE KernelWrite
  <2>1. Running /\ run_result' = run_result
    BY <1>4 DEF KernelWrite, KernelStep, Running
  <2>2. UNCHANGED tun_tx \/ \E packet : tun_tx' = Append(tun_tx, packet)
    BY <1>4 DEF KernelWrite
  <2> QED BY <2>1, <2>2 DEF Delivers
<1> QED BY <1>1, <1>2, <1>3, <1>4 DEF Next, Kernel

\* A session that has ended takes no more steps.
LEMMA EndedRests == [Next]_vars /\ ~Running => UNCHANGED vars
<1>1. Kernel => Running
  BY DEF Kernel, KernelRecv, KernelRecvNoBuffers, KernelRecvError, KernelPeerClosed,
         EndRecv, KernelWrite, KernelWriteError, KernelStep, Running
<1>2. Handle => Running
  BY DEF Handle, RecvNoBuffers, RecvFailed, RecvChunk, Handles, ParseHeader,
         ParsePayload, ParseNoMemory, Parses, RecvDone, RecvRearmFailed, Parsed,
         WriteCompleted, ReleaseBuffer, Releases, WriteDone, WriteRearmFailed,
         Released, Running
<1> QED BY <1>1, <1>2 DEF Next

=============================================================================
