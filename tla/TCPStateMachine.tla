-------------------------- MODULE TCPStateMachine --------------------------
(***************************************************************************)
(* The eleven-state machine one TCPConnection owns (TCPStateMachine.hpp).  *)
(*                                                                         *)
(* An event of the machine is the function from the states that accept it  *)
(* to the states they lead to; outside its domain the event is refused:    *)
(* the C++ method returns false and the state stays.                       *)
(***************************************************************************)

TCPState == {"CLOSED", "LISTEN", "SYN_SENT", "SYN_RECEIVED", "ESTABLISHED",
             "FIN_WAIT_1", "FIN_WAIT_2", "CLOSE_WAIT", "CLOSING", "LAST_ACK",
             "TIME_WAIT"}

OnListen == [s \in {"CLOSED", "LISTEN"} |-> "LISTEN"]

OnSynSent == [s \in {"CLOSED", "LISTEN"} |-> "SYN_SENT"]

OnSynReceived == [s \in {"CLOSED", "LISTEN", "SYN_SENT"} |-> "SYN_RECEIVED"]

OnEstablished ==
  [s \in {"SYN_SENT", "SYN_RECEIVED", "FIN_WAIT_1", "FIN_WAIT_2", "CLOSE_WAIT"}
     |-> "ESTABLISHED"]

OnFinSent == [s \in {"ESTABLISHED", "CLOSE_WAIT"} |->
                IF s = "ESTABLISHED" THEN "FIN_WAIT_1" ELSE "LAST_ACK"]

OnFinAcked == [s \in {"FIN_WAIT_1", "LAST_ACK"} |->
                 IF s = "FIN_WAIT_1" THEN "FIN_WAIT_2" ELSE "CLOSED"]

OnPeerFin == [s \in {"ESTABLISHED", "FIN_WAIT_1", "FIN_WAIT_2"} |->
                CASE s = "ESTABLISHED" -> "CLOSE_WAIT"
                  [] s = "FIN_WAIT_1"  -> "CLOSING"
                  [] s = "FIN_WAIT_2"  -> "TIME_WAIT"]

OnTimeWaitDone == [s \in {"TIME_WAIT"} |-> "CLOSED"]

OnRetransmissionFailure == [s \in TCPState \ {"CLOSED"} |-> "CLOSED"]

\* The event's return value in state s.
Accepts(event, s) == s \in DOMAIN event

=============================================================================
