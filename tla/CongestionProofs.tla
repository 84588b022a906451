-------------------------- MODULE CongestionProofs --------------------------
(***************************************************************************)
(* The invariants of every sequence of calls to a congestion controller    *)
(* (CongestionControl), from what each call does to one in good order.     *)
(***************************************************************************)
EXTENDS CongestionControl, CongestionAlgorithmsProofs

Inv == Good(control)

-----------------------------------------------------------------------------

(***************************************************************************)
(* Whatever calls are made in whatever order, a controller stays in good   *)
(* order: the inductive invariant behind the theorems below.               *)
(***************************************************************************)
LEMMA AlwaysGood == Spec => []Inv
<1>1. Init => Inv
  BY NewControlGood DEF Init, Inv
<1>2. Inv /\ [Next]_control => Inv'
  <2> SUFFICES ASSUME Inv, [Next]_control PROVE Inv'
    OBVIOUS
  <2>1. ASSUME NEW acked \in Bytes, Ack(acked)
        PROVE  Inv'
    BY <2>1, OnAckGood, BytesAssumption, CongestionAssumption DEF Ack, Inv
  <2>2. CASE DuplicateAck
    BY <2>2, OnDuplicateAckGood DEF DuplicateAck, Inv
  <2>3. ASSUME NEW acked \in Bytes, NEW complete \in BOOLEAN, RecoveryAck(acked, complete)
        PROVE  Inv'
    BY <2>3, OnRecoveryAckGood, BytesAssumption, CongestionAssumption DEF RecoveryAck, Inv
  <2>4. CASE Loss
    BY <2>4, OnLossGood DEF Loss, Inv
  <2>5. ASSUME NEW flight \in Bytes, FastRetransmit(flight)
        PROVE  Inv'
    BY <2>5, OnFastRetransmitGood, BytesAssumption DEF FastRetransmit, Inv
  <2>6. CASE Restart
    BY <2>6, NewControlGood DEF Restart, Reset, Inv, Good, GoodOrder, Control
  <2>7. CASE UNCHANGED control
    BY <2>7 DEF Inv
  <2> QED
    BY <2>1, <2>2, <2>3, <2>4, <2>5, <2>6, <2>7 DEF Next
<1> QED
  BY <1>1, <1>2, PTL DEF Spec

(***************************************************************************)
(* A controller keeps its type: no window passes the largest value of a    *)
(* std::uint32_t (the saturating additions).                               *)
(***************************************************************************)
THEOREM ControlTypeCorrect == Spec => []TypeOK
<1>1. Inv => TypeOK
  BY DEF Inv, Good, GoodOrder, TypeOK
<1> QED
  BY <1>1, AlwaysGood, PTL

(***************************************************************************)
(* No sequence of calls takes the window below one segment or the          *)
(* threshold below two (minimum_window and minimum_ssthresh).              *)
(***************************************************************************)
THEOREM WindowNeverBelowFloor == Spec => []WindowFloor
<1>1. Inv => WindowFloor
  BY DEF Inv, Good, GoodOrder, WindowFloor
<1> QED
  BY <1>1, AlwaysGood, PTL

(***************************************************************************)
(* In fast recovery the windows of Reno and CUBIC stay at or above their   *)
(* threshold, so that leaving it never raises them.                        *)
(***************************************************************************)
THEOREM RecoveryStaysAboveThreshold == Spec => []RecoveryWindow
<1>1. Inv => RecoveryWindow
  BY DEF Inv, Good, RecoversAbove, RecoveryWindow
<1> QED
  BY <1>1, AlwaysGood, PTL

(***************************************************************************)
(* NewReno remembers the threshold of the recovery it is in, and no        *)
(* partial acknowledgement outlives the recovery (recovery_ssthresh_,      *)
(* partial_ack_observed_).                                                 *)
(***************************************************************************)
THEOREM RecoveryAlwaysRemembered == Spec => []RecoveryRemembered
<1>1. Inv => RecoveryRemembered
  BY DEF Inv, Good, Remembers, RecoveryRemembered
<1> QED
  BY <1>1, AlwaysGood, PTL

(***************************************************************************)
(* No ACK opens the window of Tahoe, Reno or NewReno by more than one      *)
(* segment (onAck, onDuplicateAck, and onRecoveryAck of a partial ACK):    *)
(* the avoidance step is at most a segment because the window is at least  *)
(* one.                                                                    *)
(***************************************************************************)
THEOREM OpensBySegmentOnly == Spec => OpensBySegment
<1> DEFINE window == control.cwnd
<1>1. ASSUME Inv
      PROVE  /\ control \in Control
             /\ window \in Nat \ {0} /\ window >= Mss /\ window <= MaxWindow
             /\ Mss \in Nat \ {0} /\ MaxWindow \in Nat
  BY <1>1, CongestionAssumption DEF Inv, Good, GoodOrder, Control
<1>2. ASSUME NEW w \in Nat \ {0}, w >= Mss
      PROVE  Larger(1, (Mss * Mss) \div w) \in 0 .. Mss
  <2>1. Mss * Mss \in Nat /\ Mss * Mss <= Mss * w
    BY <1>2, CongestionAssumption
  <2> DEFINE q == (Mss * Mss) \div w
  <2>2. q \in Nat /\ q * w <= Mss * Mss
    BY <2>1
  <2> HIDE DEF q
  <2>3. q * w <= Mss * w
    BY <2>1, <2>2, <1>2, CongestionAssumption
  <2>4. q <= Mss
    BY <2>2, <2>3, CongestionAssumption
  <2> QED
    BY <2>2, <2>4, CongestionAssumption DEF Larger, q
<1>3. ASSUME NEW bytes \in 0 .. Mss, Inv
      PROVE  Opened(control, bytes).cwnd <= control.cwnd + Mss
  BY <1>1, <1>3 DEF Opened, Saturated, Smaller, Control
<1>4. ASSUME Inv, control.algorithm # "CUBIC", NEW acked \in Bytes, Ack(acked)
      PROVE  control'.cwnd <= control.cwnd + Mss
  <2>1. acked \in Nat
    BY BytesAssumption, CongestionAssumption
  <2>2. SlowStartIncrease(acked) \in 0 .. Mss
    BY <2>1, CongestionAssumption DEF SlowStartIncrease, Smaller
  <2>3. AvoidanceIncreases(control) \subseteq 0 .. Mss
    BY <1>1, <1>2, <1>4 DEF AvoidanceIncreases
  <2>4. control' = control \/ \E bytes \in 0 .. Mss : control' = Opened(control, bytes)
    BY <1>4, <2>2, <2>3 DEF Ack, OnAck
  <2> QED
    BY <1>1, <1>3, <1>4, <2>4
<1>5. ASSUME Inv, DuplicateAck
      PROVE  control'.cwnd <= control.cwnd + Mss
  BY <1>1, <1>3, <1>5 DEF DuplicateAck, OnDuplicateAck
<1>6. ASSUME Inv, NEW acked \in Bytes, RecoveryAck(acked, FALSE)
      PROVE  control'.cwnd <= control.cwnd + Mss
  <2>1. Deflated(control.cwnd, acked) <= control.cwnd + Mss
    BY <1>1, <1>6, BytesAssumption DEF Deflated, Larger, Saturated, Smaller
  <2>2. \/ control' = control
        \/ control' = [control EXCEPT !.cwnd = Deflated(control.cwnd, acked), !.partial = TRUE]
    BY <1>6 DEF RecoveryAck, OnRecoveryAck
  <2>3. control'.cwnd \in {control.cwnd, Deflated(control.cwnd, acked)}
    BY <1>1, <1>6, <2>2 DEF Control
  <2> QED
    BY <1>1, <1>6, <2>1, <2>3
<1> DEFINE opens == control.algorithm # "CUBIC"
              /\ (DuplicateAck \/ \E acked \in Bytes : Ack(acked) \/ RecoveryAck(acked, FALSE))
              => control'.cwnd <= control.cwnd + Mss
<1>7. Inv => opens
  BY <1>4, <1>5, <1>6
<1> HIDE DEF opens
<1>8. Inv => [opens]_control
  BY <1>7
<1>9. Spec => [][opens]_control
  BY <1>8, AlwaysGood, PTL
<1> QED
  BY <1>9 DEF OpensBySegment, opens

(***************************************************************************)
(* A timeout that ends NewReno's fast recovery leaves it the threshold the *)
(* recovery began with (onLoss and recovery_ssthresh_).                    *)
(***************************************************************************)
THEOREM RecoveryThresholdAlwaysKept == Spec => RecoveryThresholdKept
<1> DEFINE leaves == control.algorithm = "NEW_RENO" /\ control.recovery /\ ~ control'.recovery
           keeps == leaves => control'.ssthresh = control.ssthresh \/ control' = Reset(control)
<1>1. ASSUME Inv, Next, leaves
      PROVE  control'.ssthresh = control.ssthresh \/ control' = Reset(control)
  <2>1. /\ control \in Control
        /\ control.remembered = control.ssthresh /\ control.ssthresh >= 2 * Mss
        /\ control.ssthresh \in Nat
    BY <1>1, CongestionAssumption DEF Inv, Good, GoodOrder, Remembers, Control
  <2>2. ASSUME NEW acked \in Bytes, Ack(acked)
        PROVE  FALSE
    BY <1>1, <2>2 DEF Ack, OnAck, IgnoresAck
  <2>3. CASE DuplicateAck
    BY <1>1, <2>1, <2>3 DEF DuplicateAck, OnDuplicateAck, Opened, Control
  <2>4. ASSUME NEW acked \in Bytes, NEW complete \in BOOLEAN, RecoveryAck(acked, complete)
        PROVE  control'.ssthresh = control.ssthresh
    <3>1. CASE complete
      <4>1. control' = [algorithm |-> control.algorithm, cwnd |-> control.ssthresh,
                        ssthresh |-> control.ssthresh, recovery |-> FALSE,
                        partial |-> FALSE, remembered |-> control.remembered]
        BY <1>1, <2>1, <2>4, <3>1 DEF RecoveryAck, OnRecoveryAck, Control
      <4> QED
        BY <4>1
    <3>2. CASE ~ complete /\ acked > 0
      <4>1. control'.recovery
        BY <1>1, <2>1, <2>4, <3>2 DEF RecoveryAck, OnRecoveryAck, Control
      <4> QED
        BY <1>1, <4>1
    <3>3. CASE ~ complete /\ ~ acked > 0
      BY <2>4, <3>3 DEF RecoveryAck, OnRecoveryAck
    <3> QED
      BY <3>1, <3>2, <3>3
  <2>5. CASE Loss
    <3>1. control' = [algorithm |-> control.algorithm, cwnd |-> Mss,
                      ssthresh |-> Larger(2 * Mss, control.remembered), recovery |-> FALSE,
                      partial |-> FALSE, remembered |-> control.remembered]
      BY <1>1, <2>1, <2>5 DEF Loss, OnLoss, ThresholdAfterLoss, Control
    <3> QED
      BY <2>1, <3>1, CongestionAssumption DEF Larger
  <2>6. ASSUME NEW flight \in Bytes, FastRetransmit(flight)
        PROVE  FALSE
    <3>1. control'.recovery
      BY <1>1, <2>1, <2>6 DEF FastRetransmit, OnFastRetransmit, Control
    <3> QED
      BY <1>1, <3>1
  <2>7. CASE Restart
    BY <2>7 DEF Restart
  <2> QED
    BY <1>1, <2>2, <2>3, <2>4, <2>5, <2>6, <2>7 DEF Next
<1>2. Inv /\ Next => keeps
  BY <1>1
<1> HIDE DEF keeps
<1>3. Spec => [][keeps]_control
  BY <1>2, AlwaysGood, PTL DEF Spec
<1> QED
  BY <1>3 DEF RecoveryThresholdKept, keeps

=============================================================================
