------------------------------ MODULE MCTunnel ------------------------------
(* One direction of a tunnel with small buffer groups, for TLC. *)
EXTENDS Tunnel
=============================================================================
