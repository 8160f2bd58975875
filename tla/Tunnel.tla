------------------------------- MODULE Tunnel -------------------------------
(***************************************************************************)
(* One direction of a tunnel: the transmitter of one session, the TCP      *)
(* stream and the receiver of the peer's session.  The stream delivers     *)
(* every byte once and in order (TCP does), in chunks of any size.  It     *)
(* implements PacketChannel.                                               *)
(***************************************************************************)
EXTENDS Integers, Sequences

CONSTANTS
    wire_size,          \* FrameHeader::wire_size
    tx_buffer_count,    \* tx_queue_length of the sending session
    tx_mtu,             \* MTU of the sending side's TUN device
    rx_buffer_count,    \* rx_queue_length of the receiving session
    rx_buffer_size,     \* size of its buffers
    rx_mtu,             \* MTU of the receiving side's TUN device
    IOV_MAX,            \* segments a vectored write accepts
    MaxPackets,         \* bound: packets the sending TUN device delivers
    IoErrors            \* whether the kernel may fail requests

ASSUME TunnelAssumption ==
    /\ wire_size \in Nat \ {0}
    /\ tx_buffer_count \in Nat \ {0}
    /\ tx_mtu \in Nat \ {0}
    /\ rx_buffer_count \in Nat \ {0}
    /\ rx_buffer_size \in Nat \ {0}
    /\ rx_mtu \in Nat \ {0}
    /\ IOV_MAX \in Nat \ {0}
    /\ MaxPackets \in Nat
    /\ IoErrors \in BOOLEAN

VARIABLES
    tx_frame_queue, tx_cooling_down, tx_send_in_progress, tx_current_frame,
    tx_run_result, tx_br, tx_mem, reading, sending, tx_cq, tun_rx,
    rx_cooling_down, rx_used_buffers, rx_input_queue, rx_refcounts, rx_state,
    rx_header, rx_header_progress, rx_frame, rx_payload_progress,
    rx_output_queue, rx_write_in_progress, rx_cqe, rx_released, rx_run_result,
    rx_br, rx_mem, recving, writing, rx_cq, pos, tun_tx,
    wire

tx_vars == <<tx_frame_queue, tx_cooling_down, tx_send_in_progress,
             tx_current_frame, tx_run_result, tx_br, tx_mem, reading, sending,
             tx_cq, tun_rx>>
rx_vars == <<rx_cooling_down, rx_used_buffers, rx_input_queue, rx_refcounts,
             rx_state, rx_header, rx_header_progress, rx_frame,
             rx_payload_progress, rx_output_queue, rx_write_in_progress, rx_cqe,
             rx_released, rx_run_result, rx_br, rx_mem, recving, writing, rx_cq,
             pos, tun_tx>>
vars == <<tx_vars, rx_vars, wire>>

Tx == INSTANCE Transmitter WITH
        BufferCount <- tx_buffer_count, mtu <- tx_mtu,
        frame_queue_ <- tx_frame_queue, cooling_down_ <- tx_cooling_down,
        send_in_progress_ <- tx_send_in_progress,
        current_frame_state_ <- tx_current_frame, run_result <- tx_run_result,
        br_ <- tx_br, mem <- tx_mem, cq <- tx_cq

Rx == INSTANCE Receiver WITH
        BufferCount <- rx_buffer_count, buffer_size <- rx_buffer_size,
        mtu <- rx_mtu, Wires <- {<<>>},
        cooling_down_ <- rx_cooling_down, used_buffers_ <- rx_used_buffers,
        input_buffer_queue_ <- rx_input_queue, buffer_refcounts_ <- rx_refcounts,
        state_ <- rx_state, header_ <- rx_header,
        header_progress_ <- rx_header_progress, frame_ <- rx_frame,
        payload_progress_ <- rx_payload_progress,
        output_frame_queue_ <- rx_output_queue,
        write_in_progress_ <- rx_write_in_progress, cqe_ <- rx_cqe,
        released <- rx_released, run_result <- rx_run_result, br_ <- rx_br,
        mem <- rx_mem, cq <- rx_cq

Init == Tx!Init /\ Rx!Init

\* The two sessions run in different processes and share only the stream.
TxStep == Tx!Next /\ UNCHANGED rx_vars
RxStep == Rx!Next /\ UNCHANGED tx_vars

Next == TxStep \/ RxStep

Spec == Init /\ [][Next]_vars

\* Both session loops run, both sockets make progress while there are bytes,
\* and the receiving TUN device takes packets.
FairSpec ==
    /\ Spec
    /\ WF_vars(Tx!Handle /\ UNCHANGED rx_vars)
    /\ WF_vars(Tx!Sends /\ UNCHANGED rx_vars)
    /\ WF_vars(Rx!Handle /\ UNCHANGED tx_vars)
    /\ WF_vars(Rx!Recvs /\ UNCHANGED tx_vars)
    /\ WF_vars(Rx!Writes /\ UNCHANGED tx_vars)

-----------------------------------------------------------------------------
(* Properties *)

\* The packets read from the sending TUN device, as bytes.
Sent == [p \in DOMAIN tun_rx |-> [k \in 1..tun_rx[p] |-> Tx!PayloadByte(p, k)]]

Channel == INSTANCE PacketChannel WITH
    accepted <- Sent,
    delivered <- tun_tx,
    broken <- (tx_run_result # "None" \/ rx_run_result # "None")

\* The tunnel implements the channel: the packets written to the receiving TUN
\* device are those read from the sending one, whole, once and in order, and
\* every one of them is written unless one of the two sessions ends.
ImplementsChannel == Channel!Spec

\* A protocol error is raised only for a reason: the sending side has a larger
\* MTU and has read a packet longer than the receiving side accepts.  Nothing of
\* that packet is written, nor anything behind it.
OnlyLargePacketsRejected ==
    /\ rx_run_result \notin {"InvalidMagic", "FrameCrcMismatch"}
    /\ rx_run_result = "InvalidSize" => \E p \in DOMAIN tun_rx : tun_rx[p] > rx_mtu
    /\ \A p \in DOMAIN tun_tx : Len(tun_tx[p]) <= rx_mtu

=============================================================================
