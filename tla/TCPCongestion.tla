--------------------------- MODULE TCPCongestion ---------------------------
(***************************************************************************)
(* A TCP session together with what its connections tell the congestion    *)
(* controller and the retransmission timer of the sender: each step of     *)
(* TCPSession, with the calls the same handler makes.                      *)
(*                                                                         *)
(* The engine builds every connection with the default algorithm, Reno,    *)
(* and a segment size as large as the send window (DEFAULT_CONGESTION_MSS).*)
(* The server's controller is left out: it sends no data, so it gets no    *)
(* call but onDuplicateAck, which does nothing out of fast recovery.       *)
(* Nothing in the engine calls onRecoveryAck: only a timeout ends fast     *)
(* recovery.                                                               *)
(*                                                                         *)
(* Of the RTO only the backoff is kept: the RTT estimator dates timers,    *)
(* which here may fire at any time.                                        *)
(***************************************************************************)
EXTENDS TCPSession, CongestionAlgorithms

CONSTANT MaxBackoff  \* RTOManager::MAX_BACKOFF

ASSUME BackoffAssumption == MaxBackoff \in Nat \ {0}
ASSUME SegmentAssumption ==
  /\ Mss = SendWindow
  /\ InitialSsthresh <= 2 * Mss
  /\ 5 * Mss <= MaxWindow

VARIABLES
  control,   \* congestion_control_ of the client
  recorded,  \* cwnd and ssthresh of the last sample in congestion_history_
  backoff,   \* RTOManager::backoff_ of the client
  resent     \* history: segments sent more than once

congestionVars == <<control, recorded, backoff, resent>>

\* What recordCongestionSample appends, unless it is the last sample again.
Sample(c) == <<c.cwnd, c.ssthresh>>

CongestionInit ==
  /\ Init
  /\ control = NewControl("RENO")
  /\ recorded = Sample(NewControl("RENO"))
  /\ backoff = 1
  /\ resent = {}

\* Mutant: a sample is taken of retransmitted segments too (Karn's rule).
CanMeasureAny(client, ack) == Popped(client.sendBuf, ack) > 0

\* acknowledgeAndGetRtt finds an entry that was sent only once.
CanMeasure(client, ack) ==
  \E i \in 1 .. Popped(client.sendBuf, ack) : client.sendBuf[i].retx = 0

\* onAcknowledged: the acknowledged bytes open the window; a round-trip time
\* ends the backoff.
Acknowledged(ack, after) ==
  LET client == conn["client"] IN
  /\ after \in OnAck(control, ack - client.una)
  /\ recorded' = Sample(after)
  /\ backoff' = IF CanMeasure(client, ack) THEN 1 ELSE backoff

\* The client's receive_ack, and the onDuplicateAck that the handler adds to
\* it for every ACK, be it new, duplicate or neither.
AckReceived ==
  \E i \in DOMAIN net["client"] :
    LET client == conn["client"]
        ack == net["client"][i].ack
    IN
    /\ ReceiveAckPacket("client", i)
    /\ UNCHANGED resent
    /\ \/ /\ AckDuplicate(client, ack)
          /\ control' = OnDuplicateAck(OnDuplicateAck(control))
          /\ recorded' = Sample(OnDuplicateAck(control))
          /\ UNCHANGED backoff
       \/ /\ AckAdvances(client, ack)
          /\ \E after \in OnAck(control, ack - client.una) :
               Acknowledged(ack, after) /\ control' = OnDuplicateAck(after)
       \/ /\ ~ AckDuplicate(client, ack) /\ ~ AckAdvances(client, ack)
          /\ control' = OnDuplicateAck(control)
          /\ UNCHANGED <<recorded, backoff>>

\* failRetransmission resets the timer, and not the congestion controller.
BackoffAfterFailure ==
  IF conn["client"].state \in DOMAIN OnRetransmissionFailure THEN 1 ELSE backoff

\* Mutant: the backoff doubles without end.
BackedOffUncapped(b) == 2 * b

BackedOff(b) == Smaller(2 * b, MaxBackoff)

\* onSendTimeout comes before TCPTimeoutEvent looks whether the connection is
\* still established.
TimerFires(s) ==
  LET client == conn["client"]
      expires == HasOutstandingSegment(client, s) /\ OldestOutstanding(client) = s
  IN
  /\ Timeout(s)
  /\ UNCHANGED resent
  /\ \/ ~ expires /\ UNCHANGED <<control, recorded, backoff>>
     \/ /\ expires /\ ~ CanRetransmit(client, s)
        /\ backoff' = BackoffAfterFailure
        /\ UNCHANGED <<control, recorded>>
     \/ /\ expires /\ CanRetransmit(client, s)
        /\ backoff' = BackedOff(backoff)
        /\ control' = OnLoss(control)
        /\ recorded' = Sample(control')

\* The event a timeout scheduled.
TimeoutResend ==
  LET client == conn["client"]
      s == Head(due).seq
      live == Resendable(client, s)
      able == CanRetransmit(client, s)
  IN
  /\ Retransmission
  /\ backoff' = IF live /\ ~ able THEN BackoffAfterFailure ELSE backoff
  /\ resent' = IF live /\ able THEN resent \union {s} ELSE resent
  /\ UNCHANGED <<control, recorded>>

\* The event three duplicate acknowledgements scheduled.
FastResend ==
  LET client == conn["client"]
      live == IsEstablished(client) /\ HasOutstanding(client)
      able == CanRetransmit(client, OldestOutstanding(client))
  IN
  /\ FastRetransmit
  /\ \/ ~ live /\ UNCHANGED congestionVars
     \/ /\ live /\ ~ able
        /\ backoff' = BackoffAfterFailure
        /\ UNCHANGED <<control, recorded, resent>>
     \/ /\ live /\ able
        /\ control' = OnFastRetransmit(control, InFlight(client))
        /\ recorded' = Sample(control')
        /\ resent' = resent \union {OldestOutstanding(client)}
        /\ UNCHANGED backoff

\* The handlers that leave the controller and the timer alone.
OtherEvent ==
  \/ HandshakeEvent \/ GenerationEnds \/ PacketGeneration \/ ConnectionClose
  \/ ReceiveAtServer
  \/ \E i \in DOMAIN net["client"] :
       ReceiveSynAckPacket(i) \/ ReceiveFinPacket("client", i)
  \/ HandshakeTimeoutIgnored \/ HandshakeTimeout \/ TimeWaitTimeout
  \/ \E a \in SeqNumber :
       DelayedAckIgnored(a) \/ DelayedAckObsolete(a) \/ DelayedAckSent(a)
  \/ Lose

CongestionNext ==
  \/ OtherEvent /\ UNCHANGED congestionVars
  \/ AckReceived
  \/ \E s \in SeqNumber : TimerFires(s)
  \/ TimeoutResend
  \/ FastResend

CongestionSpec == CongestionInit /\ [][CongestionNext]_<<vars, congestionVars>>

-----------------------------------------------------------------------------

CongestionTypeOK ==
  /\ TypeOK
  /\ control \in Control
  /\ recorded \in (0 .. MaxWindow) \X (0 .. MaxWindow)
  /\ backoff \in 1 .. MaxBackoff

(***************************************************************************)
(* What the client has outstanding always fits in the congestion window,   *)
(* although canSend looks at the send window only and nothing compares the *)
(* two: however often it is cut, the window stays a segment wide, and a    *)
(* segment is as large as the send window.                                 *)
(***************************************************************************)
FlightFitsWindow == InFlight(conn["client"]) <= control.cwnd

(***************************************************************************)
(* Out of fast recovery the last sample in the congestion history is the   *)
(* window the controller has now, so the chart of TcpCongestionPanel ends  *)
(* with it.  In fast recovery it lags: the handler's own onDuplicateAck    *)
(* takes no sample.                                                        *)
(***************************************************************************)
HistoryCurrent == ~ control.recovery => recorded = Sample(control)

(***************************************************************************)
(* Fast recovery always begins with the threshold at its minimum, two      *)
(* segments, and a window of five or more: what is in flight, which        *)
(* onFastRetransmit halves, is never more than one segment.  The sender    *)
(* answers the loss with a wider window than it started with.              *)
(***************************************************************************)
RecoveryPinned ==
  control.recovery => control.ssthresh = 2 * Mss /\ control.cwnd >= 5 * Mss

(***************************************************************************)
(* Karn's rule (TCPSendEntry.hpp): as long as the connection lives, a      *)
(* backed-off RTO is restored only by the acknowledgement of a segment     *)
(* that was sent once, whichever of the two handlers resent the others.    *)
(***************************************************************************)
KarnRule ==
  [][backoff' < backoff /\ IsEstablished(conn'["client"])
       => \E i \in DOMAIN conn["client"].sendBuf :
            LET s == conn["client"].sendBuf[i].seq
            IN  s \notin resent /\ ~ HasOutstandingSegment(conn'["client"], s)
    ]_<<vars, congestionVars>>

=============================================================================
