-------------------------- MODULE CongestionControl --------------------------
(***************************************************************************)
(* A congestion controller and every sequence of calls its interface       *)
(* allows (CongestionControl.hpp): acknowledgements, duplicates, fast      *)
(* retransmits, recovery acknowledgements, timeouts and resets, in any     *)
(* order.  TCPCongestion restricts them to the calls a session makes.      *)
(***************************************************************************)
EXTENDS CongestionAlgorithms

CONSTANT Bytes  \* byte counts: acknowledged at once, or in flight

ASSUME BytesAssumption == Bytes \subseteq 0 .. MaxWindow

VARIABLE control

Init == \E algorithm \in Algorithm : control = NewControl(algorithm)

Ack(acked) == control' \in OnAck(control, acked)

DuplicateAck == control' = OnDuplicateAck(control)

RecoveryAck(acked, complete) == control' = OnRecoveryAck(control, acked, complete)

Loss == control' = OnLoss(control)

FastRetransmit(flight) == control' = OnFastRetransmit(control, flight)

Restart == control' = Reset(control)

Next ==
  \/ \E acked \in Bytes : Ack(acked)
  \/ DuplicateAck
  \/ \E acked \in Bytes, complete \in BOOLEAN : RecoveryAck(acked, complete)
  \/ Loss
  \/ \E flight \in Bytes : FastRetransmit(flight)
  \/ Restart

Spec == Init /\ [][Next]_control

-----------------------------------------------------------------------------

TypeOK == control \in Control

(***************************************************************************)
(* Whatever is lost, acknowledged or deflated, in any order, the window    *)
(* never falls below one segment nor the threshold below two: a sender is  *)
(* never locked out (the minimum_window and minimum_ssthresh of the four   *)
(* implementations).                                                       *)
(***************************************************************************)
WindowFloor == control.cwnd >= Mss /\ control.ssthresh >= 2 * Mss

(***************************************************************************)
(* In fast recovery the window of Reno and of CUBIC is at least ssthresh,  *)
(* for as long as it lasts: a complete recovery ACK, which sets the window *)
(* to ssthresh, never raises it, and Reno, whose onAck does not look at    *)
(* fast_recovery_, is never in slow start there.  NewReno is not part of   *)
(* it: its partial ACKs deflate the window below ssthresh.                 *)
(***************************************************************************)
RecoveryWindow ==
  control.recovery /\ control.algorithm # "NEW_RENO"
    => control.cwnd >= control.ssthresh

(***************************************************************************)
(* In fast recovery NewReno remembers the threshold it entered it with,    *)
(* which nothing has changed since; out of it no partial ACK is pending.   *)
(* Tahoe never recovers.                                                   *)
(***************************************************************************)
RecoveryRemembered ==
  /\ control.recovery /\ control.algorithm = "NEW_RENO"
       => control.remembered = control.ssthresh
  /\ control.partial => control.recovery
  /\ control.recovery => control.algorithm # "TAHOE"

(***************************************************************************)
(* No ACK, new, duplicate or partial, opens the window of Tahoe, Reno or   *)
(* NewReno by more than one segment: the congestion avoidance step         *)
(* Mss * Mss / cwnd is bounded only because the window never falls below   *)
(* Mss.                                                                    *)
(***************************************************************************)
OpensBySegment ==
  [][control.algorithm # "CUBIC"
     /\ (DuplicateAck \/ \E acked \in Bytes : Ack(acked) \/ RecoveryAck(acked, FALSE))
       => control'.cwnd <= control.cwnd + Mss]_control

(***************************************************************************)
(* A timeout in fast recovery does not undo it: NewReno leaves it with the *)
(* threshold it had, however far duplicate ACKs have inflated the window   *)
(* (onLoss and recovery_ssthresh_).                                        *)
(***************************************************************************)
RecoveryThresholdKept ==
  [][control.algorithm = "NEW_RENO" /\ control.recovery /\ ~ control'.recovery
       => control'.ssthresh = control.ssthresh \/ control' = Reset(control)]_control

=============================================================================
