--------------------------- MODULE MCTCPSession ---------------------------
(* TLC instances of TCPSession; the constants are given in each cfg. *)
EXTENDS TCPSession
=============================================================================
