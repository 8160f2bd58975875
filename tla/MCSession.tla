----------------------------- MODULE MCSession -----------------------------
(* A session with small buffer groups, for TLC. *)
EXTENDS Session, Sequences

CONSTANT MaxFrames

Wire == INSTANCE Frame

\* The peer sends packets of the MTU.
MCWires == {Wire!FrameStream([p \in 1..MaxFrames |-> mtu])}
=============================================================================
