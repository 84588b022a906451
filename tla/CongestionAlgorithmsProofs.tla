--------------------- MODULE CongestionAlgorithmsProofs ---------------------
(***************************************************************************)
(* What each method of the congestion control algorithms does to a         *)
(* controller in good order, for every segment size, initial threshold and *)
(* window bound.                                                           *)
(***************************************************************************)
EXTENDS CongestionAlgorithms, TLAPS

\* A controller whose fields have their types and whose windows their floors.
GoodOrder(c) ==
  /\ c \in Control
  /\ c.cwnd >= Mss
  /\ c.ssthresh >= 2 * Mss

\* The two remaining invariants, of a single controller.
RecoversAbove(c) ==
  c.recovery /\ c.algorithm # "NEW_RENO" => c.cwnd >= c.ssthresh

Remembers(c) ==
  /\ c.recovery /\ c.algorithm = "NEW_RENO" => c.remembered = c.ssthresh
  /\ c.partial => c.recovery
  /\ c.recovery => c.algorithm # "TAHOE"

Good(c) ==
  /\ GoodOrder(c) /\ RecoversAbove(c) /\ Remembers(c)
  /\ c.partial => c.algorithm = "NEW_RENO"

-----------------------------------------------------------------------------
(* Windows. *)

(***************************************************************************)
(* Saturated, halved and reduced windows are windows (the minimum_ssthresh *)
(* of the implementations fits because two segments do).                   *)
(***************************************************************************)
LEMMA Windows ==
  ASSUME NEW w \in 0 .. MaxWindow
  PROVE  /\ Halved(w) \in 2 * Mss .. MaxWindow
         /\ CubicReduced(w) \in 2 * Mss .. MaxWindow
         /\ \A bytes \in Nat : Saturated(w + bytes) \in w .. MaxWindow
<1> USE CongestionAssumption
<1>1. (w * BetaPercent) \div 100 \in 0 .. w
  <2>1. w * BetaPercent \in Nat /\ w * BetaPercent <= w * 100
    OBVIOUS
  <2> DEFINE product == w * BetaPercent
  <2> HIDE DEF product
  <2>2. product \in Nat /\ product <= w * 100
    BY <2>1 DEF product
  <2>3. product \div 100 \in 0 .. w
    BY <2>2
  <2> QED
    BY <2>3 DEF product
<1>2. w \div 2 \in 0 .. w
  OBVIOUS
<1>3. Halved(w) \in 2 * Mss .. MaxWindow
  BY <1>2 DEF Halved, Larger
<1>4. CubicReduced(w) \in 2 * Mss .. MaxWindow
  BY <1>1 DEF CubicReduced, Larger
<1>5. \A bytes \in Nat : Saturated(w + bytes) \in w .. MaxWindow
  BY DEF Saturated, Smaller
<1> QED
  BY <1>3, <1>4, <1>5

(***************************************************************************)
(* A new controller, and one that is reset, is in good order (the          *)
(* constructors and reset).                                                *)
(***************************************************************************)
LEMMA NewControlGood ==
  ASSUME NEW a \in Algorithm
  PROVE  Good(NewControl(a)) /\ NewControl(a).algorithm = a
BY CongestionAssumption
DEF Good, GoodOrder, RecoversAbove, Remembers, NewControl, Control, Larger

(***************************************************************************)
(* Opening the window keeps all the rest (onAck and onDuplicateAck).       *)
(***************************************************************************)
LEMMA OpenedGood ==
  ASSUME NEW c, Good(c), NEW bytes \in Nat
  PROVE  Good(Opened(c, bytes))
<1>1. c.cwnd \in 0 .. MaxWindow
  BY DEF Good, GoodOrder, Control
<1>2. Saturated(c.cwnd + bytes) \in c.cwnd .. MaxWindow
  BY <1>1, Windows
<1> QED
  BY <1>1, <1>2, CongestionAssumption
  DEF Good, GoodOrder, RecoversAbove, Remembers, Opened, Control

(***************************************************************************)
(* An acknowledgement leaves the controller alone or opens its window; the *)
(* avoidance step is a number because the window is not 0 (onAck).         *)
(***************************************************************************)
LEMMA OnAckOpens ==
  ASSUME NEW c, Good(c), NEW acked \in Nat, NEW d \in OnAck(c, acked)
  PROVE  d = c \/ \E bytes \in Nat : d = Opened(c, bytes)
<1>1. c.cwnd \in Nat \ {0} /\ Mss * Mss \in Nat
  BY CongestionAssumption DEF Good, GoodOrder, Control
<1>2. (Mss * Mss) \div c.cwnd \in Nat
  BY <1>1
<1>3. AvoidanceIncreases(c) \subseteq Nat
  <2>1. Larger(1, (Mss * Mss) \div c.cwnd) \in Nat
    BY <1>2 DEF Larger
  <2> QED
    BY <2>1, CongestionAssumption DEF AvoidanceIncreases
<1>4. SlowStartIncrease(acked) \in Nat
  BY CongestionAssumption DEF SlowStartIncrease, Smaller
<1> QED
  BY <1>3, <1>4 DEF OnAck

LEMMA OnAckGood ==
  ASSUME NEW c, Good(c), NEW acked \in Nat, NEW d \in OnAck(c, acked)
  PROVE  Good(d)
BY OnAckOpens, OpenedGood

LEMMA OnDuplicateAckGood ==
  ASSUME NEW c, Good(c)
  PROVE  Good(OnDuplicateAck(c))
BY OpenedGood, CongestionAssumption DEF OnDuplicateAck

(***************************************************************************)
(* A recovery acknowledgement leaves recovery at the threshold, or deflates *)
(* NewReno's window, never below one segment (onRecoveryAck).              *)
(***************************************************************************)
LEMMA OnRecoveryAckGood ==
  ASSUME NEW c, Good(c), NEW acked \in Nat, NEW complete \in BOOLEAN
  PROVE  Good(OnRecoveryAck(c, acked, complete))
<1>1. c.cwnd \in 0 .. MaxWindow /\ c.cwnd >= Mss
  BY DEF Good, GoodOrder, Control
<1>2. Deflated(c.cwnd, acked) \in Mss .. MaxWindow
  BY <1>1, CongestionAssumption DEF Deflated, Larger, Saturated, Smaller
<1>3. c \in Control /\ c.ssthresh \in 0 .. MaxWindow /\ c.ssthresh >= Mss
  BY CongestionAssumption DEF Good, GoodOrder, Control
<1>4. CASE c.recovery /\ complete
  <2>1. OnRecoveryAck(c, acked, complete) =
        [algorithm |-> c.algorithm, cwnd |-> c.ssthresh, ssthresh |-> c.ssthresh,
         recovery |-> FALSE, partial |-> FALSE, remembered |-> c.remembered]
    BY <1>3, <1>4 DEF OnRecoveryAck, Control
  <2> QED
    BY <1>3, <2>1 DEF Good, GoodOrder, RecoversAbove, Remembers, Control
<1>5. CASE c.recovery /\ ~ complete /\ acked > 0 /\ c.algorithm = "NEW_RENO"
  <2>1. OnRecoveryAck(c, acked, complete) =
        [algorithm |-> c.algorithm, cwnd |-> Deflated(c.cwnd, acked), ssthresh |-> c.ssthresh,
         recovery |-> c.recovery, partial |-> TRUE, remembered |-> c.remembered]
    BY <1>3, <1>5 DEF OnRecoveryAck, Control
  <2> QED
    BY <1>2, <1>3, <1>5, <2>1, CongestionAssumption
    DEF Good, GoodOrder, RecoversAbove, Remembers, Control
<1>6. CASE /\ ~ (c.recovery /\ complete)
           /\ ~ (c.recovery /\ ~ complete /\ acked > 0 /\ c.algorithm = "NEW_RENO")
  BY <1>6 DEF OnRecoveryAck
<1> QED
  BY <1>4, <1>5, <1>6

(***************************************************************************)
(* A timeout ends recovery with the windows at their floors or above       *)
(* (onLoss).                                                               *)
(***************************************************************************)
LEMMA OnLossGood ==
  ASSUME NEW c, Good(c)
  PROVE  Good(OnLoss(c)) /\ ~ OnLoss(c).recovery
<1>1. /\ c.cwnd \in 0 .. MaxWindow /\ c.remembered \in 0 .. MaxWindow
      /\ c \in Control
  BY DEF Good, GoodOrder, Control
<1>2. /\ Halved(c.cwnd) \in 2 * Mss .. MaxWindow
      /\ CubicReduced(c.cwnd) \in 2 * Mss .. MaxWindow
  BY <1>1, Windows
<1>3. ThresholdAfterLoss(c) \in 2 * Mss .. MaxWindow
  BY <1>1, <1>2, CongestionAssumption DEF ThresholdAfterLoss, Larger
<1>4. CASE c.algorithm = "CUBIC"
  <2>1. OnLoss(c) =
        [algorithm |-> c.algorithm, cwnd |-> CubicReduced(c.cwnd), ssthresh |-> CubicReduced(c.cwnd),
         recovery |-> FALSE, partial |-> c.partial, remembered |-> c.remembered]
    BY <1>1, <1>4 DEF OnLoss, Control
  <2>2. ~ c.partial
    BY <1>4 DEF Good
  <2> QED
    BY <1>1, <1>2, <2>1, <2>2, CongestionAssumption
    DEF Good, GoodOrder, RecoversAbove, Remembers, Control
<1>5. CASE c.algorithm # "CUBIC"
  <2>1. OnLoss(c) =
        [algorithm |-> c.algorithm, cwnd |-> Mss, ssthresh |-> ThresholdAfterLoss(c),
         recovery |-> FALSE, partial |-> FALSE, remembered |-> c.remembered]
    BY <1>1, <1>5 DEF OnLoss, Control
  <2> QED
    BY <1>1, <1>3, <2>1, CongestionAssumption
    DEF Good, GoodOrder, RecoversAbove, Remembers, Control
<1> QED
  BY <1>4, <1>5

(***************************************************************************)
(* Fast recovery begins at or above its threshold (onFastRetransmit).      *)
(***************************************************************************)
LEMMA OnFastRetransmitGood ==
  ASSUME NEW c, Good(c), NEW flight \in 0 .. MaxWindow
  PROVE  Good(OnFastRetransmit(c, flight))
<1>1. c \in Control
  BY DEF Good, GoodOrder
<1>2. /\ Halved(flight) \in 2 * Mss .. MaxWindow
      /\ CubicReduced(flight) \in 2 * Mss .. MaxWindow
      /\ Saturated(Halved(flight) + 3 * Mss) \in Halved(flight) .. MaxWindow
  BY Windows, CongestionAssumption
<1>3. CASE c.algorithm = "TAHOE"
  BY <1>3, OnLossGood DEF OnFastRetransmit
<1>4. CASE c.algorithm = "CUBIC"
  <2>1. OnFastRetransmit(c, flight) =
        [algorithm |-> c.algorithm, cwnd |-> CubicReduced(flight), ssthresh |-> CubicReduced(flight),
         recovery |-> TRUE, partial |-> c.partial, remembered |-> c.remembered]
    BY <1>1, <1>4 DEF OnFastRetransmit, Control
  <2> QED
    BY <1>1, <1>2, <1>4, <2>1, CongestionAssumption
    DEF Good, GoodOrder, RecoversAbove, Remembers, Control
<1>5. CASE c.algorithm \notin {"TAHOE", "CUBIC"}
  <2> DEFINE kept == IF c.algorithm = "NEW_RENO" THEN Halved(flight) ELSE c.remembered
  <2>1. OnFastRetransmit(c, flight) =
        [algorithm |-> c.algorithm, cwnd |-> Saturated(Halved(flight) + 3 * Mss), ssthresh |-> Halved(flight),
         recovery |-> TRUE, partial |-> FALSE, remembered |-> kept]
    BY <1>1, <1>5 DEF OnFastRetransmit, Control
  <2>2. kept \in 0 .. MaxWindow
    BY <1>1, <1>2, CongestionAssumption DEF Control
  <2>3. c.algorithm = "NEW_RENO" => kept = Halved(flight)
    OBVIOUS
  <2> HIDE DEF kept
  <2> QED
    BY <1>1, <1>2, <1>5, <2>1, <2>2, <2>3, CongestionAssumption
    DEF Good, GoodOrder, RecoversAbove, Remembers, Control
<1> QED
  BY <1>3, <1>4, <1>5

=============================================================================
