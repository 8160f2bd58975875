--------------------------- MODULE PacketChannel ---------------------------
(***************************************************************************)
(* What a tunnel promises in one direction: packets accepted on one side   *)
(* come out on the other side whole, once and in order, and all of them    *)
(* do unless the channel breaks.  A break may lose the packets still       *)
(* inside, and those only.                                                 *)
(***************************************************************************)
EXTENDS Integers, Sequences

CONSTANT MaxPackets     \* bound: packets accepted in a behaviour

VARIABLES
    accepted,   \* packets that entered the channel
    delivered,  \* packets that left it
    broken      \* the session of one of the two sides has ended

vars == <<accepted, delivered, broken>>

Init ==
    /\ accepted = <<>>
    /\ delivered = <<>>
    /\ broken = FALSE

Accept ==
    /\ Len(accepted) < MaxPackets
    /\ Len(accepted') = Len(accepted) + 1
    /\ accepted = SubSeq(accepted', 1, Len(accepted))
    /\ UNCHANGED <<delivered, broken>>

Deliver ==
    /\ Len(delivered) < Len(accepted)
    /\ delivered' = Append(delivered, accepted[Len(delivered) + 1])
    /\ UNCHANGED <<accepted, broken>>

Break ==
    /\ broken' = TRUE
    /\ UNCHANGED <<accepted, delivered>>

Next == Accept \/ Deliver \/ Break

\* Packets inside a channel that is not broken do come out.
Spec == Init /\ [][Next]_vars /\ WF_vars(~broken /\ Deliver)

=============================================================================
