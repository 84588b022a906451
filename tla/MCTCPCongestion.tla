-------------------------- MODULE MCTCPCongestion --------------------------
(* TLC instances of TCPCongestion; the constants are given in each cfg. *)
EXTENDS TCPCongestion
=============================================================================
