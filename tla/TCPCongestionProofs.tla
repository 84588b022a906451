------------------------ MODULE TCPCongestionProofs ------------------------
(***************************************************************************)
(* The congestion controller of a session's sender for every value of the  *)
(* constants: what is outstanding fits the congestion window that nothing  *)
(* compares it with (FlightFitsWindow), what recovery and the recorded     *)
(* history of the window amount to, and when a backed-off RTO is restored  *)
(* (KarnRule).                                                             *)
(***************************************************************************)
EXTENDS TCPStreamProofs, TCPCongestion, CongestionAlgorithmsProofs

-----------------------------------------------------------------------------
(* The congestion controller of the client. *)

\* RecoveryPinned of one controller.
Pinned(c) ==
  /\ c.algorithm = "RENO"
  /\ c.recovery => c.ssthresh = 2 * Mss /\ c.cwnd >= 5 * Mss

\* What a step keeps besides the session's own invariant.
ControlInv ==
  /\ Good(control) /\ Pinned(control)
  /\ HistoryCurrent
  /\ recorded \in (0 .. MaxWindow) \X (0 .. MaxWindow)
  /\ backoff \in 1 .. MaxBackoff

LEMMA SampleType ==
  ASSUME NEW c, Good(c)
  PROVE  Sample(c) \in (0 .. MaxWindow) \X (0 .. MaxWindow)
BY DEF Sample, Good, GoodOrder, Control

\* Acknowledgements, new or duplicate, only open the window.
LEMMA OpenedPinned ==
  ASSUME NEW c, Good(c), Pinned(c), NEW bytes \in Nat
  PROVE  Good(Opened(c, bytes)) /\ Pinned(Opened(c, bytes))
<1>1. c \in Control /\ c.cwnd \in 0 .. MaxWindow
  BY DEF Good, GoodOrder, Control
<1>2. Saturated(c.cwnd + bytes) \in c.cwnd .. MaxWindow
  BY <1>1, Windows
<1>3. Pinned(Opened(c, bytes))
  BY <1>1, <1>2, CongestionAssumption DEF Pinned, Opened, Control
<1> QED
  BY <1>3, OpenedGood

LEMMA OnDuplicateAckPinned ==
  ASSUME NEW c, Good(c), Pinned(c)
  PROVE  /\ Good(OnDuplicateAck(c)) /\ Pinned(OnDuplicateAck(c))
         /\ OnDuplicateAck(c).recovery = c.recovery
         /\ ~ c.recovery => OnDuplicateAck(c) = c
<1>1. Opened(c, Mss).recovery = c.recovery
  BY DEF Opened, Good, GoodOrder, Control
<1> QED
  BY <1>1, OpenedPinned, CongestionAssumption DEF OnDuplicateAck

LEMMA OnAckPinned ==
  ASSUME NEW c, Good(c), Pinned(c), NEW acked \in Nat, NEW d \in OnAck(c, acked)
  PROVE  Good(d) /\ Pinned(d)
BY OnAckOpens, OpenedPinned

\* A loss ends recovery.
LEMMA OnLossPinned ==
  ASSUME NEW c, Good(c), Pinned(c)
  PROVE  Good(OnLoss(c)) /\ Pinned(OnLoss(c))
<1>1. c \in Control
  BY SMTT(40) DEF Good, GoodOrder
<1>2. OnLoss(c).algorithm = c.algorithm /\ ~ OnLoss(c).recovery
  BY <1>1, OnLossGood DEF OnLoss, Control
<1> QED
  BY <1>2, OnLossGood DEF Pinned

\* What is in flight is at most one segment, and half of it less than two.
LEMMA OnFastRetransmitPinned ==
  ASSUME NEW c, Good(c), Pinned(c), NEW flight \in Nat, flight <= SendWindow
  PROVE  Good(OnFastRetransmit(c, flight)) /\ Pinned(OnFastRetransmit(c, flight))
<1>1. c \in Control /\ flight \in 0 .. MaxWindow
  BY CongestionAssumption, SegmentAssumption DEF Good, GoodOrder
<1>2. Halved(flight) = 2 * Mss
  <2>1. flight \div 2 \in 0 .. flight
    OBVIOUS
  <2> QED
    BY <2>1, CongestionAssumption, SegmentAssumption DEF Halved, Larger
<1>3. Saturated(2 * Mss + 3 * Mss) = 5 * Mss
  BY CongestionAssumption, SegmentAssumption DEF Saturated, Smaller
<1>4. OnFastRetransmit(c, flight) =
      [algorithm |-> "RENO", cwnd |-> 5 * Mss, ssthresh |-> 2 * Mss,
       recovery |-> TRUE, partial |-> FALSE, remembered |-> c.remembered]
  BY <1>1, <1>2, <1>3 DEF OnFastRetransmit, Pinned, Control
<1>5. Pinned(OnFastRetransmit(c, flight))
  BY <1>4, CongestionAssumption DEF Pinned
<1> QED
  BY <1>1, <1>5, OnFastRetransmitGood

LEMMA InitCongestionInv == CongestionInit => SessionInv /\ ControlInv
<1> SUFFICES ASSUME CongestionInit PROVE SessionInv /\ ControlInv
  OBVIOUS
<1>1. SessionInv
  BY InitTimerInv, InitSenderInv DEF SessionInv, CongestionInit
<1>2. "RENO" \in Algorithm
  BY DEF Algorithm
<1>3. Good(control) /\ Pinned(control)
  BY <1>2, NewControlGood DEF CongestionInit, Pinned, NewControl
<1>4. recorded = Sample(control) /\ backoff \in 1 .. MaxBackoff
  BY BackoffAssumption DEF CongestionInit
<1> QED
  BY <1>1, <1>3, <1>4, SampleType DEF ControlInv, HistoryCurrent

\* Every step is a step of the session.
LEMMA CongestionStep ==
  ASSUME [CongestionNext]_<<vars, congestionVars>>
  PROVE  [Next]_vars
<1>1. CASE OtherEvent
  BY <1>1 DEF OtherEvent, Next, RunDueEvent, ReceiveAtClient, FireTimer
<1>2. CASE AckReceived
  BY <1>2 DEF AckReceived, Next, ReceiveAtClient
<1>3. CASE TimeoutResend \/ FastResend \/ \E s \in SeqNumber : TimerFires(s)
  BY <1>3 DEF TimeoutResend, FastResend, TimerFires, Next, RunDueEvent, FireTimer
<1>4. CASE UNCHANGED <<vars, congestionVars>>
  BY <1>4
<1> QED
  BY <1>1, <1>2, <1>3, <1>4 DEF CongestionNext

LEMMA UnchangedControlInv ==
  ASSUME ControlInv, UNCHANGED <<control, recorded>>, backoff' \in 1 .. MaxBackoff
  PROVE  ControlInv'
BY DEF ControlInv, Good, GoodOrder, RecoversAbove, Remembers, Pinned,
       HistoryCurrent, Sample

LEMMA BackoffType ==
  ASSUME backoff \in 1 .. MaxBackoff
  PROVE  /\ BackedOff(backoff) \in 1 .. MaxBackoff
         /\ BackoffAfterFailure \in 1 .. MaxBackoff
BY BackoffAssumption DEF BackedOff, BackoffAfterFailure, Smaller

LEMMA AckReceivedControlInv ==
  ASSUME SessionInv, ControlInv, AckReceived
  PROVE  ControlInv'
<1> DEFINE client == conn["client"]
<1>1. PICK i \in DOMAIN net["client"] :
        LET ack == net["client"][i].ack IN
        /\ ReceiveAckPacket("client", i)
        /\ \/ /\ control' = OnDuplicateAck(OnDuplicateAck(control))
              /\ recorded' = Sample(OnDuplicateAck(control))
              /\ UNCHANGED backoff
           \/ /\ AckAdvances(client, ack)
              /\ \E after \in OnAck(control, ack - client.una) :
                   Acknowledged(ack, after) /\ control' = OnDuplicateAck(after)
           \/ /\ control' = OnDuplicateAck(control)
              /\ UNCHANGED <<recorded, backoff>>
  BY DEF AckReceived
<1> DEFINE ack == net["client"][i].ack
<1>2. /\ Good(control) /\ Pinned(control) /\ backoff \in 1 .. MaxBackoff
      /\ OnDuplicateAck(control).recovery = control.recovery
      /\ Good(OnDuplicateAck(control)) /\ Pinned(OnDuplicateAck(control))
      /\ ~ control.recovery => OnDuplicateAck(control) = control
  BY OnDuplicateAckPinned DEF ControlInv
<1>3. CASE /\ control' = OnDuplicateAck(OnDuplicateAck(control))
           /\ recorded' = Sample(OnDuplicateAck(control))
           /\ UNCHANGED backoff
  <2> DEFINE once == OnDuplicateAck(control)
  <2>1. /\ Good(control') /\ Pinned(control')
        /\ control'.recovery = once.recovery
        /\ ~ once.recovery => control' = once
    BY <1>2, <1>3, OnDuplicateAckPinned
  <2>2. HistoryCurrent'
    BY <1>3, <2>1 DEF HistoryCurrent, Sample
  <2> QED
    BY <1>2, <1>3, <2>1, <2>2, SampleType DEF ControlInv, Good, GoodOrder,
       RecoversAbove, Remembers, Pinned
<1>4. CASE /\ AckAdvances(client, ack)
           /\ \E after \in OnAck(control, ack - client.una) :
                Acknowledged(ack, after) /\ control' = OnDuplicateAck(after)
  <2>1. client \in Connection /\ ack \in SeqNumber
    BY <1>1, ArrivesType
       DEF SessionInv, TimerInv, TypeInv, TypeOK, Endpoint, ReceiveAckPacket
  <2>2. ack - client.una \in Nat
    BY <1>4, <2>1, SeqSizeAssumption DEF AckAdvances, Connection, SeqNumber
  <2>3. PICK after \in OnAck(control, ack - client.una) :
          Acknowledged(ack, after) /\ control' = OnDuplicateAck(after)
    BY <1>4
  <2>4. Good(after) /\ Pinned(after)
    BY <1>2, <2>2, <2>3, OnAckPinned
  <2>5. /\ Good(control') /\ Pinned(control')
        /\ control'.recovery = after.recovery
        /\ ~ after.recovery => control' = after
    BY <2>3, <2>4, OnDuplicateAckPinned
  <2>6. recorded' = Sample(after) /\ backoff' \in 1 .. MaxBackoff
    BY <1>2, <2>3, BackoffAssumption DEF Acknowledged
  <2>7. HistoryCurrent'
    BY <2>5, <2>6 DEF HistoryCurrent, Sample
  <2> QED
    BY <2>4, <2>5, <2>6, <2>7, SampleType DEF ControlInv, Good, GoodOrder,
       RecoversAbove, Remembers, Pinned
<1>5. CASE control' = OnDuplicateAck(control) /\ UNCHANGED <<recorded, backoff>>
  <2>1. HistoryCurrent'
    BY <1>2, <1>5 DEF ControlInv, HistoryCurrent, Sample
  <2> QED
    BY <1>2, <1>5, <2>1 DEF ControlInv, Good, GoodOrder, RecoversAbove, Remembers, Pinned
<1> QED
  BY <1>1, <1>3, <1>4, <1>5

LEMMA TimerFiresControlInv ==
  ASSUME SessionInv, ControlInv, NEW s \in SeqNumber, TimerFires(s)
  PROVE  ControlInv'
<1>1. /\ Good(control) /\ Pinned(control) /\ backoff \in 1 .. MaxBackoff
  BY DEF ControlInv
<1>2. CASE UNCHANGED <<control, recorded>> /\ backoff' \in {backoff, BackoffAfterFailure}
  BY <1>1, <1>2, BackoffType, UnchangedControlInv
<1>3. CASE /\ control' = OnLoss(control) /\ recorded' = Sample(control')
           /\ backoff' = BackedOff(backoff)
  <2>1. Good(control') /\ Pinned(control')
    BY <1>1, <1>3, OnLossPinned
  <2>2. HistoryCurrent' /\ backoff' \in 1 .. MaxBackoff
    BY <1>1, <1>3, BackoffType DEF HistoryCurrent, Sample
  <2> QED
    BY <1>3, <2>1, <2>2, SampleType DEF ControlInv, Good, GoodOrder,
       RecoversAbove, Remembers, Pinned
<1> QED
  BY <1>2, <1>3 DEF TimerFires

LEMMA FastResendControlInv ==
  ASSUME SessionInv, ControlInv, FastResend
  PROVE  ControlInv'
<1> DEFINE client == conn["client"]
<1>1. /\ Good(control) /\ Pinned(control) /\ backoff \in 1 .. MaxBackoff
  BY DEF ControlInv
<1>2. CASE UNCHANGED <<control, recorded>> /\ backoff' \in {backoff, BackoffAfterFailure}
  BY <1>1, <1>2, BackoffType, UnchangedControlInv
<1>3. CASE /\ control' = OnFastRetransmit(control, InFlight(client))
           /\ recorded' = Sample(control') /\ UNCHANGED backoff
  <2>1. client \in Connection
    BY DEF SessionInv, TimerInv, TypeInv, TypeOK, Endpoint
  <2>2. InFlight(client) \in Nat /\ InFlight(client) <= SendWindow
    BY <2>1, InFlightType, SeqSizeAssumption DEF SessionInv, SenderInv, SeqNumber
  <2>3. Good(control') /\ Pinned(control')
    BY <1>1, <1>3, <2>2, OnFastRetransmitPinned
  <2>4. HistoryCurrent'
    BY <1>3 DEF HistoryCurrent, Sample
  <2> QED
    BY <1>1, <1>3, <2>3, <2>4, SampleType DEF ControlInv, Good, GoodOrder,
       RecoversAbove, Remembers, Pinned
<1> QED
  BY <1>2, <1>3 DEF FastResend, congestionVars

LEMMA NextControlInv ==
  ASSUME SessionInv, ControlInv, [CongestionNext]_<<vars, congestionVars>>
  PROVE  ControlInv'
<1>1. backoff \in 1 .. MaxBackoff
  BY DEF ControlInv
<1>2. CASE UNCHANGED congestionVars
  BY <1>1, <1>2, UnchangedControlInv DEF congestionVars
<1>3. CASE TimeoutResend
  BY <1>1, <1>3, BackoffType, UnchangedControlInv DEF TimeoutResend
<1> QED
  BY <1>2, <1>3, AckReceivedControlInv, TimerFiresControlInv, FastResendControlInv
     DEF CongestionNext

LEMMA CongestionInvariance == CongestionSpec => [](SessionInv /\ ControlInv)
<1>1. CongestionInit => SessionInv /\ ControlInv
  BY InitCongestionInv
<1>2. /\ SessionInv /\ ControlInv
      /\ [CongestionNext]_<<vars, congestionVars>>
      => (SessionInv /\ ControlInv)'
  BY CongestionStep, NextTimerInv, NextSenderInv, NextControlInv
     DEF SessionInv, TimerInv
<1> QED
  BY <1>1, <1>2, PTL DEF CongestionSpec

(***************************************************************************)
(* Session and controller keep their types together: the window and the    *)
(* threshold never pass the largest std::uint32_t, and the backoff of the  *)
(* RTO never passes MAX_BACKOFF (RTOManager::onTimeout).                   *)
(***************************************************************************)
THEOREM CongestionTypeCorrect == CongestionSpec => []CongestionTypeOK
<1>1. SessionInv /\ ControlInv => CongestionTypeOK
  BY DEF SessionInv, TimerInv, TypeInv, ControlInv, Good, GoodOrder, CongestionTypeOK
<1> QED
  BY <1>1, CongestionInvariance, PTL

(***************************************************************************)
(* canSend never looks at the congestion window, and never oversteps it:   *)
(* whatever is lost, resent and acknowledged, what is outstanding fits the *)
(* window, because DEFAULT_CONGESTION_MSS is as large as the send window.  *)
(***************************************************************************)
THEOREM FlightAlwaysFitsWindow == CongestionSpec => []FlightFitsWindow
<1>1. SessionInv /\ ControlInv => FlightFitsWindow
  <2> SUFFICES ASSUME SessionInv, ControlInv PROVE FlightFitsWindow
    OBVIOUS
  <2>1. conn["client"] \in Connection
    BY DEF SessionInv, TimerInv, TypeInv, TypeOK, Endpoint
  <2>2. InFlight(conn["client"]) \in Nat /\ InFlight(conn["client"]) <= SendWindow
    BY <2>1, InFlightType, SeqSizeAssumption DEF SessionInv, SenderInv, SeqNumber
  <2>3. control.cwnd \in Nat /\ control.cwnd >= SendWindow
    BY CongestionAssumption, SegmentAssumption
       DEF ControlInv, Good, GoodOrder, Control
  <2> QED
    BY <2>2, <2>3, LimitsAssumption DEF FlightFitsWindow
<1> QED
  BY <1>1, CongestionInvariance, PTL

(***************************************************************************)
(* Out of fast recovery the congestion history ends with the window the    *)
(* controller has (recordCongestionSample).                                *)
(***************************************************************************)
THEOREM HistoryAlwaysCurrent == CongestionSpec => []HistoryCurrent
<1>1. SessionInv /\ ControlInv => HistoryCurrent
  BY DEF ControlInv
<1> QED
  BY <1>1, CongestionInvariance, PTL

(***************************************************************************)
(* Fast recovery always has the smallest threshold, two segments, and a    *)
(* window of five or more: half of what is in flight never counts          *)
(* (TCPFastRetransmitEvent, RenoCongestionControl::onFastRetransmit).      *)
(***************************************************************************)
THEOREM RecoveryAlwaysPinned == CongestionSpec => []RecoveryPinned
<1>1. SessionInv /\ ControlInv => RecoveryPinned
  BY DEF ControlInv, Pinned, RecoveryPinned
<1> QED
  BY <1>1, CongestionInvariance, PTL

-----------------------------------------------------------------------------
(***************************************************************************)
(* Karn's rule.                                                            *)
(*                                                                         *)
(* A segment that was never resent is one that its entry of the send       *)
(* buffer counts no retransmission for.  Entries come and go, so this is   *)
(* about numbers: those resent are all of the stream as far as it was      *)
(* sent, and the stream is shorter than a turn of the sequence space, so   *)
(* the number of a new segment is none of them.                            *)
(***************************************************************************)

\* s is one of the first n numbers of the stream that begins with first.
OfStream(first, n, s) == s \in SeqNumber /\ Offset(first, s) < n

KarnOf(first, n, buf, again) ==
  /\ \A s \in again : OfStream(first, n, s)
  /\ \A i \in DOMAIN buf :
       /\ OfStream(first, n, buf[i].seq)
       /\ buf[i].retx = 0 => buf[i].seq \notin again

KarnInv == KarnOf(FirstNumber, packetsSent, conn["client"].sendBuf, resent)

\* d has no entries but those of c.
FewerEntries(c, d) ==
  \A i \in DOMAIN d.sendBuf : \E j \in DOMAIN c.sendBuf : d.sendBuf[i] = c.sendBuf[j]

LEMMA KarnFewer ==
  ASSUME NEW first, NEW n, NEW again, NEW c, NEW d,
         KarnOf(first, n, c.sendBuf, again), FewerEntries(c, d)
  PROVE  KarnOf(first, n, d.sendBuf, again)
BY DEF KarnOf, FewerEntries

\* Before the stream begins there is nothing to resend.
LEMMA KarnEmpty ==
  ASSUME NEW first \in SeqNumber, NEW again, NEW c, NEW d,
         KarnOf(first, 0, c.sendBuf, again), FewerEntries(c, d)
  PROVE  \A f : KarnOf(f, 0, d.sendBuf, again)
<1>1. \A s : ~ OfStream(first, 0, s)
  BY OffsetType DEF OfStream
<1>2. again = {} /\ \A j \in DOMAIN c.sendBuf : FALSE
  BY <1>1 DEF KarnOf
<1> QED
  BY <1>2 DEF KarnOf, FewerEntries

\* A new segment has a number that none before it had.
LEMMA KarnQueued ==
  ASSUME NEW first \in SeqNumber, NEW n \in Nat, NEW again, NEW c \in Connection,
         KarnOf(first, n, c.sendBuf, again), Offset(first, c.seq) = n
  PROVE  KarnOf(first, n + 1, QueueSentSegment(c).sendBuf, again)
<1> DEFINE buf == c.sendBuf
           entry == [seq |-> c.seq, retx |-> 0]
           r == Append(buf, entry)
<1>1. QueueSentSegment(c).sendBuf = r /\ c.seq \in SeqNumber
  BY DEF QueueSentSegment, Connection
<1>2. buf \in Seq(SendEntry) /\ entry \in SendEntry
  BY <1>1, Zeros DEF Connection, SendEntry
<1>3. \A s : OfStream(first, n, s) => OfStream(first, n + 1, s)
  BY OffsetType DEF OfStream
<1>4. OfStream(first, n + 1, c.seq) /\ ~ OfStream(first, n, c.seq)
  BY <1>1 DEF OfStream
<1>5. /\ Len(buf) \in Nat /\ DOMAIN buf = 1 .. Len(buf)
      /\ DOMAIN r = 1 .. Len(buf) + 1
      /\ \A i \in 1 .. Len(buf) : r[i] = buf[i]
      /\ r[Len(buf) + 1] = entry
  BY <1>2, AppendProperties, LenProperties
<1> HIDE DEF r
<1>6. ASSUME NEW i \in DOMAIN r
      PROVE  /\ OfStream(first, n + 1, r[i].seq)
             /\ r[i].retx = 0 => r[i].seq \notin again
  <2>1. CASE i \in DOMAIN buf
    BY <1>3, <1>5, <2>1 DEF KarnOf
  <2>2. CASE i = Len(buf) + 1
    BY <1>4, <1>5, <2>2 DEF KarnOf
  <2> QED
    BY <1>5, <2>1, <2>2
<1> QED
  BY <1>1, <1>3, <1>6 DEF KarnOf

\* A segment is resent: its entry counts that.
LEMMA KarnMarked ==
  ASSUME NEW first, NEW n, NEW again, NEW c \in Connection, NEW s,
         KarnOf(first, n, c.sendBuf, again), HasOutstandingSegment(c, s)
  PROVE  KarnOf(first, n, MarkSegmentRetransmitted(c, s).sendBuf, again \union {s})
<1> DEFINE buf == c.sendBuf
           r == MarkSegmentRetransmitted(c, s).sendBuf
<1>1. r = [i \in DOMAIN buf |-> IF buf[i].seq = s
                                  THEN [buf[i] EXCEPT !.retx = buf[i].retx + 1]
                                  ELSE buf[i]]
  BY DEF MarkSegmentRetransmitted, Connection
<1>2. \A i \in DOMAIN buf : buf[i] \in SendEntry
  BY ElementOfSeq, LenProperties DEF Connection
<1>3. OfStream(first, n, s)
  BY DEF KarnOf, HasOutstandingSegment
<1>4. ASSUME NEW i \in DOMAIN buf
      PROVE  /\ r[i].seq = buf[i].seq
             /\ buf[i].seq = s => r[i].retx # 0
             /\ buf[i].seq # s => r[i].retx = buf[i].retx
  BY <1>1, <1>2 DEF SendEntry
<1>5. DOMAIN r = DOMAIN buf
  BY <1>1
<1> HIDE DEF r
<1>6. ASSUME NEW i \in DOMAIN r
      PROVE  /\ OfStream(first, n, r[i].seq)
             /\ r[i].retx = 0 => r[i].seq \notin again \union {s}
  BY <1>4, <1>5 DEF KarnOf
<1> QED
  BY <1>3, <1>6 DEF KarnOf, r

\* Steps that queue no segment and mark none: the client sends on from the
\* number it had, or nothing is sent yet, and its buffer gets no entry.
SenderQuiet ==
  LET client == conn["client"] IN
  /\ conn'["client"].seq = client.seq \/ packetsSent = 0
  /\ packetsSent' = packetsSent
  /\ FewerEntries(client, conn'["client"])

LEMMA SameEntries ==
  ASSUME NEW c, NEW d, d.sendBuf = c.sendBuf
  PROVE  FewerEntries(c, d)
BY DEF FewerEntries

LEMMA NoEntries ==
  ASSUME NEW c, NEW d, d.sendBuf = <<>>
  PROVE  FewerEntries(c, d)
BY DEF FewerEntries

LEMMA AcknowledgedFewer ==
  ASSUME NEW c \in Connection, NEW d, NEW ack \in SeqNumber,
         d.sendBuf = Unacknowledged(c.sendBuf, ack)
  PROVE  FewerEntries(c, d)
<1> DEFINE buf == c.sendBuf
           n == Popped(buf, ack)
<1>1. buf \in Seq(SendEntry) /\ Len(buf) \in Nat /\ DOMAIN buf = 1 .. Len(buf)
  BY LenProperties DEF Connection
<1>2. n \in 0 .. Len(buf)
  BY <1>1, PoppedType
<1>3. d.sendBuf = SubSeq(buf, n + 1, Len(buf))
  BY DEF Unacknowledged
<1> HIDE DEF n
<1>4. \A i \in n + 1 .. Len(buf) : buf[i] \in SendEntry
  BY <1>1, <1>2, ElementOfSeq
<1>5. /\ DOMAIN d.sendBuf = 1 .. Len(buf) - n
      /\ \A i \in 1 .. Len(buf) - n : d.sendBuf[i] = buf[n + i]
  BY <1>1, <1>2, <1>3, <1>4, SubSeqProperties, LenProperties
<1>6. \A i \in 1 .. Len(buf) - n : n + i \in DOMAIN buf
  BY <1>1, <1>2
<1> QED
  BY <1>5, <1>6 DEF FewerEntries

LEMMA FailureQuiet ==
  ASSUME TypeOK, packetsSent' = packetsSent,
         conn'["client"] = FailRetransmission(conn["client"])
  PROVE  SenderQuiet
<1> DEFINE client == conn["client"]
<1>1. client \in Connection
  BY DEF TypeOK, Endpoint
<1>2. /\ conn'["client"].seq = client.seq
      /\ conn'["client"].sendBuf \in {client.sendBuf, <<>>}
  BY <1>1 DEF FailRetransmission, Connection
<1> QED
  BY <1>2, SameEntries, NoEntries DEF SenderQuiet

LEMMA UnchangedQuiet ==
  ASSUME packetsSent' = packetsSent,
         conn'["client"].sendBuf = conn["client"].sendBuf,
         conn'["client"].seq = conn["client"].seq \/ packetsSent = 0
  PROVE  SenderQuiet
BY SameEntries DEF SenderQuiet

\* The handshake belongs to a stream of which nothing is sent.
LEMMA HandshakeQuiet ==
  ASSUME TypeOK, StreamInv,
         HandshakeEvent \/ \E i : ReceiveSynAckPacket(i)
  PROVE  SenderQuiet
<1> DEFINE client == conn["client"]
<1>1. client \in Connection /\ due \in Seq(DueEvent)
  BY DEF TypeOK, Endpoint
<1>2. packetsSent' = packetsSent
  BY DEF HandshakeEvent, ReceiveSynAckPacket, sessionVars
<1>3. CASE HandshakeEvent
  <2>1. due # <<>> /\ Head(due).type = "handshake"
    BY <1>3 DEF HandshakeEvent, Due
  <2>2. 1 \in DOMAIN due /\ due[1].type = "handshake"
    BY <1>1, <2>1, HeadTailProperties, LenProperties, EmptySeq
  <2>3. packetsSent = 0
    BY <2>2 DEF StreamInv, Flow, Opening, HandshakeDone
  <2>4. PICK isn : conn' = [conn EXCEPT !["client"] = SendSyn(client, isn)]
    BY <1>3 DEF HandshakeEvent
  <2>5. conn'["client"].sendBuf = client.sendBuf
    BY <1>1, <2>4 DEF TypeOK, Endpoint, SendSyn, Connection
  <2> QED
    BY <1>2, <2>3, <2>5, UnchangedQuiet
<1>4. ASSUME NEW i, ReceiveSynAckPacket(i)
      PROVE  SenderQuiet
  <2>1. CASE UNCHANGED conn
    BY <1>2, <2>1, UnchangedQuiet
  <2>2. CASE ~ UNCHANGED conn
    <3>1. /\ AcceptsSynAck(client, net["client"][i].ack)
          /\ conn' = [conn EXCEPT !["client"] =
                        ReceiveSynAck(@, net["client"][i].seq, net["client"][i].ack)]
      BY <1>4, <2>2 DEF ReceiveSynAckPacket
    <3>2. packetsSent = 0
      BY <3>1 DEF AcceptsSynAck, StreamInv, Flow, Opening
    <3>3. conn'["client"].sendBuf = client.sendBuf
      BY <1>1, <3>1 DEF TypeOK, Endpoint, ReceiveSynAck, Connection
    <3> QED
      BY <1>2, <3>2, <3>3, UnchangedQuiet
  <2> QED
    BY <2>1, <2>2
<1> QED
  BY <1>3, <1>4

LEMMA ReceiveAckQuiet ==
  ASSUME TypeOK, FreshBuffer, NEW e \in Endpoint, NEW i, ReceiveAckPacket(e, i)
  PROVE  SenderQuiet
<1> DEFINE c == conn["client"]
           ack == net["client"][i].ack
           observed == ReceiveAck(c, ack)
<1>1. c \in Connection /\ packetsSent' = packetsSent
  BY DEF TypeOK, Endpoint, ReceiveAckPacket
<1>2. CASE e = "server"
  <2>1. conn'["client"] = c
    BY <1>2 DEF ReceiveAckPacket, TypeOK, Endpoint
  <2> QED
    BY <1>1, <2>1, UnchangedQuiet
<1>3. CASE e = "client"
  <2>1. ack \in SeqNumber
    BY <1>3, ArrivesType DEF ReceiveAckPacket
  <2>2. \/ conn'["client"] = observed
        \/ conn'["client"] = [observed EXCEPT !.dup = 0]
    BY <1>3 DEF ReceiveAckPacket, ResetLossDetection, TypeOK, Endpoint
  <2>3. ~ AckEstablishes(c, ack)
    BY DEF AckEstablishes, FreshBuffer
  <2>4. /\ observed.seq = c.seq
        /\ observed.sendBuf \in {c.sendBuf, Unacknowledged(c.sendBuf, ack)}
    BY <1>1, <2>3 DEF ReceiveAck, Connection
  <2>5. /\ conn'["client"].seq = c.seq
        /\ conn'["client"].sendBuf \in {c.sendBuf, Unacknowledged(c.sendBuf, ack)}
    <3>1. "seq" \in DOMAIN observed /\ "sendBuf" \in DOMAIN observed
      BY <1>1, <2>3 DEF ReceiveAck, Connection
    <3> HIDE DEF observed
    <3> QED
      BY <2>2, <2>4, <3>1
  <2> QED
    BY <1>1, <2>1, <2>5, SameEntries, AcknowledgedFewer DEF SenderQuiet
<1> QED
  BY <1>2, <1>3 DEF Endpoint

\* The close, and the end of TIME_WAIT.
LEMMA ClosingQuiet ==
  ASSUME TypeOK,
         \/ ConnectionClose \/ TimeWaitTimeout
         \/ \E e \in Endpoint : \E i : ReceiveFinPacket(e, i)
  PROVE  SenderQuiet
<1> DEFINE client == conn["client"]
<1>1. client \in Connection /\ packetsSent' = packetsSent
  BY DEF TypeOK, Endpoint, ConnectionClose, TimeWaitTimeout, ReceiveFinPacket,
         sessionVars
<1>2. CASE ConnectionClose \/ TimeWaitTimeout
  <2>1. conn'["client"] \in {client, SendFin(client), ExpireTimeWait(client)}
    BY <1>1, <1>2 DEF ConnectionClose, TimeWaitTimeout, TypeOK, Endpoint
  <2> QED
    BY <1>1, <2>1, UnchangedQuiet DEF SendFin, ExpireTimeWait, Connection
<1>3. ASSUME NEW e \in Endpoint, NEW i, ReceiveFinPacket(e, i)
      PROVE  SenderQuiet
  <2> DEFINE received == ReceiveFin(client, net[e][i].seq)
  <2>1. conn'["client"] \in {client, received, SendFin(received)}
    BY <1>1, <1>3 DEF ReceiveFinPacket, TypeOK, Endpoint
  <2> QED
    BY <1>1, <2>1, UnchangedQuiet DEF ReceiveFin, SendFin, Connection
<1> QED
  BY <1>2, <1>3

\* The steps that leave the client's number and its buffer alone.
LEMMA OtherStepsQuiet ==
  ASSUME TypeOK,
         \/ GenerationEnds \/ HandshakeTimeoutIgnored \/ HandshakeTimeout
         \/ \E i : \/ ReceiveSynPacket(i)
                   \/ ReceiveDataRejected(i) \/ ReceiveDataAcked(i)
                   \/ ReceiveDataDelayed(i)
         \/ \E a : DelayedAckIgnored(a) \/ DelayedAckObsolete(a) \/ DelayedAckSent(a)
         \/ Lose \/ UNCHANGED vars
  PROVE  SenderQuiet
<1>1. conn["client"] \in Connection
  BY DEF TypeOK, Endpoint
<1>2. packetsSent' = packetsSent
  BY DEF GenerationEnds, HandshakeTimeoutIgnored, HandshakeTimeout,
         ReceiveSynPacket, ReceiveDataRejected, ReceiveDataAcked,
         ReceiveDataDelayed, DelayedAckIgnored, DelayedAckObsolete,
         DelayedAckSent, Lose, LoseInTransit, vars, sessionVars
<1>3. CASE HandshakeTimeout
  <2>1. /\ conn'["client"].seq = conn["client"].seq
        /\ conn'["client"].sendBuf = conn["client"].sendBuf
    BY <1>1, <1>3 DEF HandshakeTimeout, TypeOK, Endpoint, Connection
  <2> QED
    BY <1>2, <2>1, UnchangedQuiet
<1>4. CASE ~ HandshakeTimeout
  <2>1. conn'["client"] = conn["client"]
    BY <1>1, <1>4
       DEF TypeOK, Endpoint, GenerationEnds, HandshakeTimeoutIgnored,
           ReceiveSynPacket, ReceiveDataRejected, ReceiveDataAcked,
           ReceiveDataDelayed, DelayedAckIgnored, DelayedAckObsolete,
           DelayedAckSent, Lose, LoseInTransit, vars
  <2> QED
    BY <1>2, <2>1, UnchangedQuiet
<1> QED
  BY <1>3, <1>4

LEMMA QuietKarnInv ==
  ASSUME TypeOK, KarnInv, SenderQuiet, resent' = resent
  PROVE  KarnInv'
<1> DEFINE c == conn["client"]
           d == conn'["client"]
<1>1. FewerEntries(c, d) /\ packetsSent' = packetsSent
  BY DEF SenderQuiet
<1>2. FirstNumber \in SeqNumber
  BY PositionType
<1>3. CASE packetsSent = 0
  <2>1. KarnOf(FirstNumber, 0, c.sendBuf, resent)
    BY <1>3 DEF KarnInv
  <2>2. \A f : KarnOf(f, 0, d.sendBuf, resent)
    BY <1>1, <1>2, <2>1, KarnEmpty
  <2> QED
    BY <1>1, <1>3, <2>2 DEF KarnInv
<1>4. CASE packetsSent # 0
  <2>1. FirstNumber' = FirstNumber
    BY <1>1, <1>4 DEF SenderQuiet, FirstNumber
  <2>2. KarnOf(FirstNumber, packetsSent, d.sendBuf, resent)
    BY <1>1, KarnFewer DEF KarnInv
  <2> QED
    BY <1>1, <2>1, <2>2 DEF KarnInv
<1> QED
  BY <1>3, <1>4

LEMMA QueuedKarnInv ==
  ASSUME TypeOK, TypeOK', KarnInv, PacketGeneration, resent' = resent
  PROVE  KarnInv'
<1> DEFINE c == conn["client"]
<1>1. c \in Connection /\ c.seq \in SeqNumber
  BY DEF TypeOK, Endpoint, Connection
<1>2. packetsSent' = packetsSent + 1 /\ conn'["client"] = QueueSentSegment(c)
  BY DEF PacketGeneration, TypeOK, Endpoint
<1>3. conn'["client"].seq = SeqAfter(c.seq)
  BY <1>1, <1>2 DEF QueueSentSegment, Connection
<1>4. /\ FirstNumber \in SeqNumber /\ packetsSent \in Nat
      /\ packetsSent \in SeqNumber /\ Position(c.seq) = packetsSent
      /\ PacketsPerRoute < SeqSize
  BY PositionType
<1>5. packetsSent + 1 < SeqSize
  BY <1>2, <1>4, SessionAssumption, SeqSizeAssumption DEF TypeOK
<1>6. FirstNumber' = FirstNumber
  BY ZenonT(60), <1>1, <1>2, <1>3, <1>4, <1>5, FirstOfStream DEF FirstNumber
<1>7. KarnOf(FirstNumber, packetsSent + 1, QueueSentSegment(c).sendBuf, resent)
  BY <1>1, <1>4, KarnQueued DEF KarnInv, Position
<1> QED
  BY <1>2, <1>6, <1>7 DEF KarnInv

\* Either handler of a resend, as far as the client's connection goes.
LEMMA ResentKarnInv ==
  ASSUME TypeOK, KarnInv, NEW s, HasOutstandingSegment(conn["client"], s),
         conn'["client"] = MarkSegmentRetransmitted(conn["client"], s),
         packetsSent' = packetsSent, resent' = resent \union {s}
  PROVE  KarnInv'
<1> DEFINE c == conn["client"]
<1>1. c \in Connection
  BY DEF TypeOK, Endpoint
<1>2. conn'["client"].seq = c.seq
  BY <1>1 DEF MarkSegmentRetransmitted, Connection
<1>3. FirstNumber' = FirstNumber
  BY <1>2 DEF FirstNumber
<1>4. KarnOf(FirstNumber, packetsSent, MarkSegmentRetransmitted(c, s).sendBuf,
             resent \union {s})
  BY <1>1, KarnMarked DEF KarnInv
<1> QED
  BY <1>3, <1>4 DEF KarnInv

LEMMA TimeoutResendKarnInv ==
  ASSUME TypeOK, KarnInv, TimeoutResend
  PROVE  KarnInv'
<1> DEFINE c == conn["client"]
           s == Head(due).seq
<1>1. /\ packetsSent' = packetsSent /\ Retransmission
      /\ \/ /\ ~ Resendable(c, s)
            /\ conn' = conn /\ resent' = resent
         \/ /\ Resendable(c, s) /\ ~ CanRetransmit(c, s)
            /\ conn' = [conn EXCEPT !["client"] = FailRetransmission(@)]
            /\ resent' = resent
         \/ /\ Resendable(c, s) /\ CanRetransmit(c, s)
            /\ conn' = [conn EXCEPT !["client"] = MarkSegmentRetransmitted(@, s)]
            /\ resent' = resent \union {s}
  BY DEF TimeoutResend, Retransmission, GiveUp, Resend, sessionVars
<1> HIDE DEF s
<1>2. /\ packetsSent' = packetsSent
      /\ \/ conn' = conn /\ resent' = resent
         \/ conn'["client"] = FailRetransmission(c) /\ resent' = resent
         \/ /\ HasOutstandingSegment(c, s)
            /\ conn'["client"] = MarkSegmentRetransmitted(c, s)
            /\ resent' = resent \union {s}
  BY <1>1 DEF Resendable, TypeOK, Endpoint
<1> QED
  BY <1>2, UnchangedQuiet, FailureQuiet, QuietKarnInv, ResentKarnInv

LEMMA FastResendKarnInv ==
  ASSUME TypeOK, KarnInv, FastResend
  PROVE  KarnInv'
<1> DEFINE c == conn["client"]
           s == OldestOutstanding(c)
           live == IsEstablished(c) /\ HasOutstanding(c)
<1>1. /\ packetsSent' = packetsSent
      /\ \/ /\ ~ live
            /\ conn' = conn /\ resent' = resent
         \/ /\ live /\ ~ CanRetransmit(c, s)
            /\ conn' = [conn EXCEPT !["client"] = FailRetransmission(@)]
            /\ resent' = resent
         \/ /\ live /\ CanRetransmit(c, s)
            /\ conn' = [conn EXCEPT !["client"] = MarkSegmentRetransmitted(@, s)]
            /\ resent' = resent \union {s}
  BY DEF FastResend, FastRetransmit, GiveUp, Resend, sessionVars, congestionVars
<1>2. c \in Connection
  BY DEF TypeOK, Endpoint
<1>3. live => HasOutstandingSegment(c, s)
  <2> SUFFICES ASSUME c.sendBuf # <<>> PROVE HasOutstandingSegment(c, s)
    BY DEF HasOutstanding
  <2>1. c.sendBuf \in Seq(SendEntry)
    BY <1>2 DEF Connection
  <2>2. Head(c.sendBuf) = c.sendBuf[1] /\ 1 \in DOMAIN c.sendBuf
    BY <2>1, HeadTailProperties, LenProperties, EmptySeq
  <2> QED
    BY <2>2 DEF HasOutstandingSegment, OldestOutstanding
<1> HIDE DEF s, live
<1>4. /\ packetsSent' = packetsSent
      /\ \/ conn' = conn /\ resent' = resent
         \/ conn'["client"] = FailRetransmission(c) /\ resent' = resent
         \/ /\ HasOutstandingSegment(c, s)
            /\ conn'["client"] = MarkSegmentRetransmitted(c, s)
            /\ resent' = resent \union {s}
  BY <1>1, <1>3 DEF TypeOK, Endpoint
<1> QED
  BY <1>4, UnchangedQuiet, FailureQuiet, QuietKarnInv, ResentKarnInv

LEMMA TimeoutQuiet ==
  ASSUME TypeOK, NEW s, Timeout(s)
  PROVE  SenderQuiet
<1>1. /\ packetsSent' = packetsSent
      /\ \/ conn' = conn
         \/ conn'["client"] = FailRetransmission(conn["client"])
  BY DEF Timeout, TypeOK, Endpoint, sessionVars
<1> QED
  BY <1>1, UnchangedQuiet, FailureQuiet

LEMMA NextKarnInv ==
  ASSUME SessionInv, SessionInv', StreamInv, KarnInv,
         [CongestionNext]_<<vars, congestionVars>>
  PROVE  KarnInv'
<1>1. /\ TypeOK /\ TypeOK' /\ FreshBuffer
      /\ "client" \in Endpoint /\ "server" \in Endpoint
  BY DEF SessionInv, TimerInv, TypeInv, Endpoint
<1>2. CASE OtherEvent /\ UNCHANGED congestionVars
  <2>1. resent' = resent
    BY <1>2 DEF congestionVars
  <2>2. CASE PacketGeneration
    BY <1>1, <2>1, <2>2, QueuedKarnInv
  <2>3. CASE ~ PacketGeneration
    <3>1. SenderQuiet
      BY <1>1, <1>2, <2>3, HandshakeQuiet, ReceiveAckQuiet, ClosingQuiet, OtherStepsQuiet
         DEF OtherEvent, ReceiveAtServer
    <3> QED
      BY <1>1, <2>1, <3>1, QuietKarnInv
  <2> QED
    BY <2>2, <2>3
<1>3. CASE AckReceived
  <2>1. SenderQuiet /\ resent' = resent
    BY <1>1, <1>3, ReceiveAckQuiet DEF AckReceived
  <2> QED
    BY <1>1, <2>1, QuietKarnInv
<1>4. CASE \E s \in SeqNumber : TimerFires(s)
  <2>1. SenderQuiet /\ resent' = resent
    BY <1>1, <1>4, TimeoutQuiet DEF TimerFires
  <2> QED
    BY <1>1, <2>1, QuietKarnInv
<1>5. CASE UNCHANGED <<vars, congestionVars>>
  <2>1. SenderQuiet /\ resent' = resent
    BY <1>1, <1>5, OtherStepsQuiet DEF congestionVars
  <2> QED
    BY <1>1, <2>1, QuietKarnInv
<1> QED
  BY <1>1, <1>2, <1>3, <1>4, <1>5, TimeoutResendKarnInv, FastResendKarnInv
     DEF CongestionNext

\* The acknowledgement of a segment sent once leaves nothing with its number.
LEMMA AckOfUnresent ==
  ASSUME TypeOK, SenderInv, KarnInv, NEW ack \in SeqNumber,
         AckAdvances(conn["client"], ack), CanMeasure(conn["client"], ack),
         conn'["client"].sendBuf = Unacknowledged(conn["client"].sendBuf, ack)
  PROVE  \E i \in DOMAIN conn["client"].sendBuf :
           LET s == conn["client"].sendBuf[i].seq
           IN  s \notin resent /\ ~ HasOutstandingSegment(conn'["client"], s)
<1> DEFINE c == conn["client"]
           d == conn'["client"]
           buf == c.sendBuf
           n == ack - c.una
<1>1. c \in Connection /\ BufferExact(c)
  BY DEF TypeOK, Endpoint, SenderInv, SendBufferExact, BufferExact, AckAdvances
<1>2. buf \in Seq(SendEntry) /\ Len(buf) \in Nat /\ DOMAIN buf = 1 .. Len(buf)
  BY <1>1, LenProperties DEF Connection
<1>3. /\ c.seq \in Nat /\ c.una \in Nat /\ ack \in Nat
      /\ c.una < ack /\ ack <= c.seq /\ c.seq < SeqSize /\ SeqSize \in Nat \ {0}
  BY <1>1, SeqSizeAssumption DEF Connection, SeqNumber, AckAdvances
<1>4. Popped(buf, ack) \in 0 .. Len(buf)
  BY <1>2, PoppedType
<1>5. PICK i \in 1 .. Popped(buf, ack) : buf[i].retx = 0
  BY DEF CanMeasure
<1>6. i \in DOMAIN buf /\ buf[i].seq \notin resent
  BY <1>2, <1>4, <1>5 DEF KarnInv, KarnOf
<1>7. Len(buf) = c.seq - c.una
  <2>1. c.seq \in SeqNumber /\ c.una \in SeqNumber
    BY <1>1 DEF Connection
  <2> QED
    BY SMTT(40), <1>1, <1>3, <2>1, Distance DEF InFlight, BufferExact
<1>8. ASSUME NEW k \in DOMAIN buf
      PROVE  buf[k].seq = c.una + k - 1
  <2>1. k \in Nat /\ 1 <= k /\ k <= c.seq - c.una
    BY <1>2, <1>7
  <2> DEFINE x == c.una + k - 1
  <2>2. x \in 0 .. SeqSize - 1
    BY <1>3, <2>1
  <2>3. buf[k].seq = x % SeqSize
    BY <1>1 DEF BufferExact
  <2> HIDE DEF x
  <2>4. x % SeqSize = x
    BY <1>3, <2>2
  <2> QED
    BY <2>3, <2>4 DEF x
<1>9. /\ DOMAIN d.sendBuf = 1 .. Len(buf) - Popped(buf, ack)
      /\ \A k \in 1 .. Len(buf) - Popped(buf, ack) :
           d.sendBuf[k] = buf[Popped(buf, ack) + k]
  <2> DEFINE m == Popped(buf, ack)
  <2>1. d.sendBuf = SubSeq(buf, m + 1, Len(buf))
    BY DEF Unacknowledged
  <2>2. m \in 0 .. Len(buf)
    BY <1>4
  <2> HIDE DEF m
  <2>3. \A k \in m + 1 .. Len(buf) : buf[k] \in SendEntry
    BY <1>2, <2>2, ElementOfSeq
  <2>4. /\ DOMAIN d.sendBuf = 1 .. Len(buf) - m
        /\ \A k \in 1 .. Len(buf) - m : d.sendBuf[k] = buf[m + k]
    BY <1>2, <2>1, <2>2, <2>3, SubSeqProperties, LenProperties
  <2> QED
    BY <2>4 DEF m
<1>10. ASSUME NEW k \in DOMAIN d.sendBuf
       PROVE  d.sendBuf[k].seq # buf[i].seq
  <2> DEFINE m == Popped(buf, ack)
  <2>1. m \in 0 .. Len(buf) /\ i \in 1 .. m /\ k \in 1 .. Len(buf) - m
    BY <1>4, <1>5, <1>9
  <2>2. d.sendBuf[k] = buf[m + k]
    BY <1>9, <2>1
  <2> HIDE DEF m
  <2>3. m + k \in DOMAIN buf /\ m + k # i
    BY <1>2, <2>1
  <2>4. buf[m + k].seq = c.una + (m + k) - 1 /\ buf[i].seq = c.una + i - 1
    BY <1>6, <1>8, <2>3
  <2> QED
    BY <1>3, <2>1, <2>2, <2>3, <2>4
<1> QED
  BY <1>6, <1>10 DEF HasOutstandingSegment

\* Giving up a segment ends the connection.
LEMMA FailureNotEstablished ==
  ASSUME TypeOK, backoff' = BackoffAfterFailure, backoff' # backoff,
         conn'["client"] = FailRetransmission(conn["client"])
  PROVE  ~ IsEstablished(conn'["client"])
<1> DEFINE c == conn["client"]
<1>1. c \in Connection
  BY DEF TypeOK, Endpoint
<1>2. c.state \in DOMAIN OnRetransmissionFailure
  BY DEF BackoffAfterFailure
<1>3. conn'["client"].state = "CLOSED"
  BY <1>1, <1>2 DEF FailRetransmission, OnRetransmissionFailure, Connection
<1> QED
  BY <1>3 DEF IsEstablished

\* What may lower the backoff.
LEMMA BackoffLowered ==
  ASSUME TypeOK, FreshBuffer, backoff \in 1 .. MaxBackoff, backoff' < backoff,
         IsEstablished(conn'["client"]),
         [CongestionNext]_<<vars, congestionVars>>
  PROVE  \E ack \in SeqNumber :
           /\ AckAdvances(conn["client"], ack) /\ CanMeasure(conn["client"], ack)
           /\ conn'["client"].sendBuf = Unacknowledged(conn["client"].sendBuf, ack)
<1> DEFINE c == conn["client"]
           d == conn'["client"]
<1>1. c \in Connection /\ backoff' # backoff /\ backoff \in Nat
  BY DEF TypeOK, Endpoint
<1>2. ~ (d = FailRetransmission(c) /\ backoff' = BackoffAfterFailure)
  BY <1>1, FailureNotEstablished
<1>3. ASSUME NEW s, TimerFires(s) PROVE FALSE
  <2>1. \/ backoff' = backoff
        \/ /\ backoff' = BackoffAfterFailure
           /\ conn' = [conn EXCEPT !["client"] = FailRetransmission(c)]
        \/ backoff' = BackedOff(backoff)
    BY <1>3 DEF TimerFires, Timeout
  <2>2. BackedOff(backoff) >= backoff
    BY BackoffAssumption DEF BackedOff, Smaller
  <2>3. ~ (BackedOff(backoff) < backoff)
    BY <1>1, <2>2, BackoffType
  <2> QED
    BY <1>1, <1>2, <2>1, <2>3 DEF TypeOK, Endpoint
<1>4. CASE TimeoutResend \/ FastResend
  <2>1. /\ backoff' = BackoffAfterFailure
        /\ conn' = [conn EXCEPT !["client"] = FailRetransmission(@)]
    BY <1>1, <1>4
       DEF TimeoutResend, FastResend, Retransmission, FastRetransmit, GiveUp,
           congestionVars
  <2> QED
    BY <1>2, <2>1 DEF TypeOK, Endpoint
<1>5. CASE AckReceived
  <2>1. PICK i \in DOMAIN net["client"] :
          LET ack == net["client"][i].ack IN
          /\ ReceiveAckPacket("client", i)
          /\ AckAdvances(c, ack)
          /\ \E after : Acknowledged(ack, after)
    BY <1>1, <1>5 DEF AckReceived
  <2> DEFINE ack == net["client"][i].ack
             r == [c EXCEPT !.una = ack, !.dup = 0,
                            !.sendBuf = Unacknowledged(c.sendBuf, ack)]
  <2>2. ack \in SeqNumber
    BY <2>1, ArrivesType DEF ReceiveAckPacket, Endpoint
  <2>3. CanMeasure(c, ack)
    BY <1>1, <2>1 DEF Acknowledged
  <2>4. ReceiveAck(c, ack) = r
    BY <1>1, <2>1, <2>2, SeqArithmetic
       DEF ReceiveAck, AckOfFin, AckDuplicate, AckAdvances, AckEstablishes,
           IsEstablished, Connection, SeqNumber
  <2>5. d = r \/ d = [r EXCEPT !.dup = 0]
    BY <2>1, <2>4 DEF ReceiveAckPacket, ResetLossDetection, TypeOK, Endpoint
  <2>6. d.sendBuf = Unacknowledged(c.sendBuf, ack)
    BY <1>1, <2>5 DEF Connection
  <2> QED
    BY <2>1, <2>2, <2>3, <2>6
<1> QED
  BY <1>1, <1>3, <1>4, <1>5 DEF CongestionNext, congestionVars

(***************************************************************************)
(* Karn's rule as TCPSendEntry.hpp states it, for any window, retry limit, *)
(* number of packets, losses and reordering: while the connection lives    *)
(* the backed-off RTO is restored only by the acknowledgement of a segment *)
(* that neither TCPRetransmissionEvent nor TCPFastRetransmitEvent ever     *)
(* sent again, although entries are popped and numbers reused around the   *)
(* sequence space.                                                         *)
(***************************************************************************)
THEOREM KarnAlwaysFollowed == CongestionSpec => KarnRule
<1>1. CongestionInit => StreamInv /\ KarnInv
  <2>1. CongestionInit => StreamInv
    BY InitStreamInv DEF CongestionInit
  <2>2. ASSUME CongestionInit PROVE KarnInv
    <3>1. resent = {} /\ conn["client"].sendBuf = <<>>
      BY <2>2 DEF CongestionInit, Init, NewConnection, Endpoint
    <3> QED
      BY <3>1 DEF KarnInv, KarnOf
  <2> QED
    BY <2>1, <2>2
<1>2. /\ SessionInv /\ SessionInv' /\ StreamInv
      /\ [CongestionNext]_<<vars, congestionVars>>
      => StreamInv'
  BY CongestionStep, NextStreamInv
<1>3. /\ SessionInv /\ SessionInv' /\ StreamInv /\ KarnInv
      /\ [CongestionNext]_<<vars, congestionVars>>
      => KarnInv'
  BY NextKarnInv
<1> DEFINE Rule ==
      backoff' < backoff /\ IsEstablished(conn'["client"])
        => \E i \in DOMAIN conn["client"].sendBuf :
             LET s == conn["client"].sendBuf[i].seq
             IN  s \notin resent /\ ~ HasOutstandingSegment(conn'["client"], s)
<1>4. /\ SessionInv /\ ControlInv /\ KarnInv
      /\ [CongestionNext]_<<vars, congestionVars>>
      => [Rule]_<<vars, congestionVars>>
  <2> SUFFICES ASSUME SessionInv, ControlInv, KarnInv,
                      [CongestionNext]_<<vars, congestionVars>>
               PROVE  Rule
    OBVIOUS
  <2>1. TypeOK /\ FreshBuffer /\ SenderInv /\ backoff \in 1 .. MaxBackoff
    BY DEF SessionInv, TimerInv, TypeInv, ControlInv
  <2> QED
    BY <2>1, BackoffLowered, AckOfUnresent
<1>5. [][Rule]_<<vars, congestionVars>> <=> KarnRule
  BY DEF KarnRule
<1> HIDE DEF Rule
<1> QED
  BY <1>1, <1>2, <1>3, <1>4, <1>5, CongestionInvariance, PTL DEF CongestionSpec

=============================================================================
