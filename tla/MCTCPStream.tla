---------------------------- MODULE MCTCPStream ----------------------------
(* TLC instances of TCPStream; the constants are given in each cfg. *)
EXTENDS TCPStream
=============================================================================
