--------------------------- MODULE MCTransmitter ---------------------------
(* The transmitter on small buffer groups, for TLC. *)
EXTENDS Transmitter
=============================================================================
