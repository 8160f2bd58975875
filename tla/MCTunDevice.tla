---------------------------- MODULE MCTunDevice ----------------------------
(* The TUN device with few sequence numbers, for TLC. *)
EXTENDS TunDevice
=============================================================================
