------------------------ MODULE CongestionAlgorithms ------------------------
(***************************************************************************)
(* The four congestion control algorithms a TCPConnection may be built     *)
(* with (CongestionControlFactory::create), as a record and one operator   *)
(* per method of the CongestionControl interface.                          *)
(*                                                                         *)
(* Windows are std::uint32_t: they saturate at MaxWindow.  CUBIC's growth  *)
(* past ssthresh comes out of a formula in floating point (onAck); all the *)
(* rest relies on is that it is at least one byte, so it is any member of  *)
(* CubicIncreases.  Its w_max_ feeds that formula only and is left out.    *)
(***************************************************************************)
EXTENDS Integers

CONSTANTS
  Mss,              \* mss_
  InitialSsthresh,  \* initial_ssthresh_
  MaxWindow,        \* largest value of a window (2^32 - 1 in the code)
  BetaPercent,      \* CUBIC's beta_, in hundredths
  CubicIncreases    \* what CUBIC's formula may add to the window

ASSUME CongestionAssumption ==
  /\ Mss \in Nat \ {0}
  /\ InitialSsthresh \in Nat
  /\ MaxWindow \in Nat
  /\ InitialSsthresh <= MaxWindow
  /\ 2 * Mss <= MaxWindow
  /\ BetaPercent \in 1 .. 99
  /\ CubicIncreases \subseteq Nat \ {0}

Algorithm == {"TAHOE", "RENO", "NEW_RENO", "CUBIC"}

Larger(m, n) == IF m >= n THEN m ELSE n
Smaller(m, n) == IF m <= n THEN m ELSE n

\* Mutant: the sum is left as it is.
Unsaturated(n) == n

\* Addition that stops at the largest std::uint32_t.
Saturated(n) == Smaller(n, MaxWindow)

\* recovery is fast_recovery_; partial and remembered are NewReno's
\* partial_ack_observed_ and recovery_ssthresh_.
Control ==
  [algorithm  : Algorithm,
   cwnd       : 0 .. MaxWindow,
   ssthresh   : 0 .. MaxWindow,
   recovery   : BOOLEAN,
   partial    : BOOLEAN,
   remembered : 0 .. MaxWindow]

NewControl(algorithm) ==
  [algorithm |-> algorithm, cwnd |-> Mss,
   ssthresh |-> Larger(InitialSsthresh, 2 * Mss),
   recovery |-> FALSE, partial |-> FALSE, remembered |-> 0]

Reset(c) == NewControl(c.algorithm)

Opened(c, bytes) == [c EXCEPT !.cwnd = Saturated(c.cwnd + bytes)]

-----------------------------------------------------------------------------
(* Acknowledgements. *)

\* Tahoe and Reno grow in fast recovery as they do out of it.
IgnoresAck(c, acked) ==
  \/ acked = 0
  \/ c.recovery /\ c.algorithm \in {"NEW_RENO", "CUBIC"}

\* Mutant: an ACK of more than one segment is not capped.
SlowStartIncreaseUncapped(acked) == acked

SlowStartIncrease(acked) == Smaller(acked, Mss)

AvoidanceIncreases(c) ==
  IF c.algorithm = "CUBIC"
    THEN CubicIncreases
    ELSE {Larger(1, (Mss * Mss) \div c.cwnd)}

\* The states onAck may lead to.
OnAck(c, acked) ==
  IF IgnoresAck(c, acked)
    THEN {c}
    ELSE {Opened(c, bytes) :
            bytes \in IF c.cwnd < c.ssthresh THEN {SlowStartIncrease(acked)}
                                             ELSE AvoidanceIncreases(c)}

\* Mutant: every duplicate opens the window.
OnDuplicateAckAlways(c) == Opened(c, Mss)

OnDuplicateAck(c) == IF c.recovery THEN Opened(c, Mss) ELSE c

\* Mutant: nothing keeps the window at one segment.
DeflatedToNothing(window, acked) ==
  LET left == IF acked >= window THEN 0 ELSE window - acked
  IN  IF acked >= Mss THEN Saturated(left + Mss) ELSE left

\* NewReno after a partial ACK: down by what was acknowledged, up again by
\* one segment if that was at least a segment, never below one.
Deflated(window, acked) ==
  LET left == IF acked >= window THEN Mss ELSE window - acked
  IN  Larger(Mss, IF acked >= Mss THEN Saturated(left + Mss) ELSE left)

\* Mutant: the end of recovery leaves the partial ACK pending.
OnRecoveryAckKeepsPartial(c, acked, complete) ==
  CASE c.recovery /\ complete -> [c EXCEPT !.cwnd = c.ssthresh, !.recovery = FALSE]
    [] c.recovery /\ ~ complete /\ acked > 0 /\ c.algorithm = "NEW_RENO" ->
         [c EXCEPT !.cwnd = Deflated(c.cwnd, acked), !.partial = TRUE]
    [] OTHER -> c

OnRecoveryAck(c, acked, complete) ==
  CASE c.recovery /\ complete ->
         [c EXCEPT !.cwnd = c.ssthresh, !.recovery = FALSE, !.partial = FALSE]
    [] c.recovery /\ ~ complete /\ acked > 0 /\ c.algorithm = "NEW_RENO" ->
         [c EXCEPT !.cwnd = Deflated(c.cwnd, acked), !.partial = TRUE]
    [] OTHER -> c

-----------------------------------------------------------------------------
(* Losses. *)

\* Mutant: half of what was in use, however little.
HalvedUnbounded(window) == window \div 2

Halved(window) == Larger(2 * Mss, window \div 2)

CubicReduced(window) == Larger(2 * Mss, (window * BetaPercent) \div 100)

\* Mutant: NewReno halves the window that duplicate ACKs have inflated.
ThresholdAfterLossHalved(c) == Halved(c.cwnd)

\* A timeout in NewReno's fast recovery keeps the threshold it began with.
ThresholdAfterLoss(c) ==
  IF c.algorithm = "NEW_RENO" /\ c.recovery
    THEN Larger(2 * Mss, c.remembered)
    ELSE Halved(c.cwnd)

OnLoss(c) ==
  IF c.algorithm = "CUBIC"
    THEN [c EXCEPT !.cwnd = CubicReduced(c.cwnd),
                   !.ssthresh = CubicReduced(c.cwnd), !.recovery = FALSE]
    ELSE [c EXCEPT !.cwnd = Mss, !.ssthresh = ThresholdAfterLoss(c),
                   !.recovery = FALSE, !.partial = FALSE]

\* Mutant: recovery starts from the window of a timeout.
OnFastRetransmitFromOne(c, flight) ==
  [OnLoss(c) EXCEPT !.recovery = c.algorithm # "TAHOE"]

\* Tahoe inherits the default, which treats it as any loss.
OnFastRetransmit(c, flight) ==
  CASE c.algorithm = "TAHOE" -> OnLoss(c)
    [] c.algorithm = "CUBIC" ->
         [c EXCEPT !.cwnd = CubicReduced(flight),
                   !.ssthresh = CubicReduced(flight), !.recovery = TRUE]
    [] OTHER ->
         [c EXCEPT !.cwnd = Saturated(Halved(flight) + 3 * Mss),
                   !.ssthresh = Halved(flight), !.recovery = TRUE,
                   !.partial = FALSE,
                   !.remembered = IF c.algorithm = "NEW_RENO"
                                    THEN Halved(flight) ELSE c.remembered]

=============================================================================
