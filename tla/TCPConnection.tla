--------------------------- MODULE TCPConnection ---------------------------
(***************************************************************************)
(* One endpoint of a TCP session (TCPConnection.cpp) with its send buffer, *)
(* its receive buffer and its loss detector, as a record and the           *)
(* operations on it.                                                       *)
(*                                                                         *)
(* Every DATA payload has the same length and that length is the unit of   *)
(* the sequence space and of the windows, so a payload, a SYN and a FIN    *)
(* each take one number.  Numbers wrap at SeqSize as std::uint32_t does and *)
(* are compared as plain integers, as the code compares them.              *)
(*                                                                         *)
(* Left out because nothing that decides a transition reads it: the        *)
(* congestion window (canSend consults send_window_ only; TCPCongestion    *)
(* has it), the RTT and RTO estimators (they date the timers, and here a   *)
(* timer may fire at any time) and the advertised window of a segment      *)
(* (never read back).                                                      *)
(***************************************************************************)
EXTENDS Integers, Sequences, FiniteSets, TCPStateMachine

CONSTANTS
  SeqSize,              \* size of the sequence space (2^32 in the code)
  SendWindow,          \* DEFAULT_SEND_WINDOW, in payloads
  ReceiveWindow,       \* DEFAULT_RECEIVE_WINDOW, in payloads
  MaxSynRetries,       \* MAX_SYN_RETRIES
  MaxRetransmissions,  \* MAX_DATA_RETRANSMISSIONS
  DupAckThreshold      \* DUPLICATE_ACK_THRESHOLD

ASSUME SeqSizeAssumption == SeqSize \in Nat \ {0}
ASSUME LimitsAssumption ==
  /\ SendWindow \in Nat
  /\ ReceiveWindow \in Nat
  /\ MaxSynRetries \in Nat
  /\ MaxRetransmissions \in Nat
  /\ DupAckThreshold \in Nat \ {0}
\* 65535 payloads at most, numbered modulo 2^32.
ASSUME WindowAssumption == SendWindow < SeqSize

SeqNumber == 0 .. SeqSize - 1

\* n + 1 in std::uint32_t arithmetic.
SeqAfter(n) == (n + 1) % SeqSize

(***************************************************************************)
(* seq is SND.NXT (seq_num_), una SND.UNA, expected both expected_ack_num_ *)
(* and the receive buffer's next_sequence_, which every operation leaves   *)
(* equal.  sendBuf is the deque of sent segments with their retransmission *)
(* counts, rcvBuf the sequence numbers buffered out of order, dup the      *)
(* length of the duplicate-ACK streak: the detector's last_ack_ is always  *)
(* una, for it is only reset to una and only observes una or its           *)
(* successor.                                                              *)
(***************************************************************************)
SendEntry == [seq : SeqNumber, retx : 0 .. MaxRetransmissions]

Connection ==
  [state      : TCPState,
   seq        : SeqNumber,
   una        : SeqNumber,
   expected   : SeqNumber,
   sendBuf    : Seq(SendEntry),
   rcvBuf     : SUBSET SeqNumber,
   dup        : 0 .. DupAckThreshold - 1,
   delayedAck : BOOLEAN,
   synRetries : 0 .. MaxSynRetries]

NewConnection ==
  [state |-> "CLOSED", seq |-> 0, una |-> 0, expected |-> 0, sendBuf |-> <<>>,
   rcvBuf |-> {}, dup |-> 0, delayedAck |-> FALSE, synRetries |-> 0]

IsEstablished(c) == c.state = "ESTABLISHED"

-----------------------------------------------------------------------------
(* Segments built from the connection. *)

Segment == [type : {"SYN", "SYN_ACK", "ACK", "DATA", "FIN"},
            seq : SeqNumber, ack : SeqNumber]

BuildSyn(c)    == [type |-> "SYN",     seq |-> c.seq, ack |-> 0]
BuildSynAck(c) == [type |-> "SYN_ACK", seq |-> c.seq, ack |-> c.expected]

\* Mutant: the acknowledgement counts the segments buffered out of order.
BuildAckOfBuffered(c) ==
  [type |-> "ACK", seq |-> c.seq,
   ack |-> (c.expected + Cardinality(c.rcvBuf)) % SeqSize]

BuildAck(c)    == [type |-> "ACK",     seq |-> c.seq, ack |-> c.expected]
BuildFin(c)    == [type |-> "FIN",     seq |-> c.seq, ack |-> c.expected]
BuildData(c, s) == [type |-> "DATA",   seq |-> s,     ack |-> c.expected]

-----------------------------------------------------------------------------
(* Handshake. *)

\* send_syn, past the retransmission path (the caller is the first SYN).
SendSyn(c, isn) == [c EXCEPT !.state = OnSynSent[c.state],
                             !.seq = isn, !.una = isn, !.dup = 0]

ReceiveSyn(c, seq) == [c EXCEPT !.state = OnSynReceived[c.state],
                                !.expected = SeqAfter(seq)]

\* Mutant: the SYN is taken to use no sequence number.
AcceptsSynAckOffByOne(c, ack) == c.state = "SYN_SENT" /\ ack = c.seq

AcceptsSynAck(c, ack) == c.state = "SYN_SENT" /\ ack = SeqAfter(c.seq)

ReceiveSynAck(c, seq, ack) ==
  [c EXCEPT !.state = OnEstablished[c.state], !.expected = SeqAfter(seq),
            !.seq = ack, !.una = ack, !.synRetries = 0, !.dup = 0]

-----------------------------------------------------------------------------
(* Sending data. *)

InFlight(c) == (c.seq - c.una) % SeqSize

\* Mutant: the window is compared before the new payload is counted.
CanSendOffByOne(c) == InFlight(c) <= SendWindow

CanSend(c) == SendWindow >= 1 /\ InFlight(c) <= SendWindow - 1

\* queueSentSegment: its guards hold, the caller checked canSend and built
\* the segment at SND.NXT.
QueueSentSegment(c) ==
  [c EXCEPT !.sendBuf = Append(c.sendBuf, [seq |-> c.seq, retx |-> 0]),
            !.seq = SeqAfter(c.seq), !.dup = 0]

HasOutstanding(c) == c.sendBuf # <<>>

OldestOutstanding(c) == Head(c.sendBuf).seq

HasOutstandingSegment(c, s) ==
  \E i \in DOMAIN c.sendBuf : c.sendBuf[i].seq = s

\* Mutant: one retransmission too many.
CanRetransmitOnceMore(c, s) ==
  \A i \in DOMAIN c.sendBuf :
    c.sendBuf[i].seq = s => c.sendBuf[i].retx <= MaxRetransmissions

CanRetransmit(c, s) ==
  \A i \in DOMAIN c.sendBuf :
    c.sendBuf[i].seq = s => c.sendBuf[i].retx < MaxRetransmissions

MarkSegmentRetransmitted(c, s) ==
  [c EXCEPT !.sendBuf = [i \in DOMAIN c.sendBuf |->
     IF c.sendBuf[i].seq = s
       THEN [c.sendBuf[i] EXCEPT !.retx = c.sendBuf[i].retx + 1]
       ELSE c.sendBuf[i]]]

FailRetransmission(c) ==
  IF c.state \in DOMAIN OnRetransmissionFailure
    THEN [c EXCEPT !.state = OnRetransmissionFailure[c.state],
                   !.sendBuf = <<>>, !.rcvBuf = {}, !.dup = 0,
                   !.delayedAck = FALSE]
    ELSE c

-----------------------------------------------------------------------------
(* Receiving acknowledgements. *)

\* Mutant: the segment that starts at ack is taken for acknowledged.
IsAcknowledgedOffByOne(entry, ack) == ack >= entry.seq

IsAcknowledged(entry, ack) == ack >= SeqAfter(entry.seq)

\* acknowledgeAndGetRtt pops entries off the front while they are acknowledged.
Popped(buf, ack) ==
  Cardinality({k \in DOMAIN buf : \A i \in 1 .. k : IsAcknowledged(buf[i], ack)})

Unacknowledged(buf, ack) == SubSeq(buf, Popped(buf, ack) + 1, Len(buf))

AckEstablishes(c, ack) == c.state = "SYN_RECEIVED" /\ ack = SeqAfter(c.seq)

\* Mutant: the passive closer's last acknowledgement is not recognised.
AckOfFinActiveOnly(c, ack) == c.state = "FIN_WAIT_1" /\ ack = SeqAfter(c.seq)

AckOfFin(c, ack) == c.state \in {"FIN_WAIT_1", "LAST_ACK"} /\ ack = SeqAfter(c.seq)

AckDuplicate(c, ack) == IsEstablished(c) /\ ack <= c.seq /\ ack = c.una

AckAdvances(c, ack) == IsEstablished(c) /\ ack <= c.seq /\ ack > c.una

\* The value receive_ack returns; a duplicate is observed but not accepted.
AcceptsAck(c, ack) ==
  AckEstablishes(c, ack) \/ AckOfFin(c, ack) \/ AckAdvances(c, ack)

ReceiveAck(c, ack) ==
  CASE AckEstablishes(c, ack) ->
         [c EXCEPT !.state = OnEstablished[c.state], !.seq = ack, !.una = ack,
                   !.synRetries = 0, !.dup = 0]
    [] AckOfFin(c, ack) -> [c EXCEPT !.state = OnFinAcked[c.state]]
    [] AckDuplicate(c, ack) -> [c EXCEPT !.dup = c.dup + 1]
    [] AckAdvances(c, ack) ->
         [c EXCEPT !.una = ack, !.dup = 0,
                   !.sendBuf = Unacknowledged(c.sendBuf, ack)]
    [] OTHER -> c

ShouldFastRetransmit(c) == c.dup >= DupAckThreshold

ResetLossDetection(c) == [c EXCEPT !.dup = 0]

-----------------------------------------------------------------------------
(* Receiving data and the FIN. *)

\* Mutant: a segment consumed before is taken again.
AcceptsDataAgain(c, s) ==
  Cardinality(c.rcvBuf) < ReceiveWindow /\ s \notin c.rcvBuf

\* receive_buffer_.push: not old, room in the window, not there already.
AcceptsData(c, s) ==
  /\ s >= c.expected
  /\ Cardinality(c.rcvBuf) < ReceiveWindow
  /\ s \notin c.rcvBuf

\* Mutant: holes are skipped.
NextSequencePastHoles(buf, next) == next + Cardinality({s \in buf : s >= next})

\* consumeContiguous: the number reached by following the buffered segments
\* from next; a segment before next would sit at the front and block it.
NextSequence(buf, next) ==
  IF \E s \in buf : s < next
    THEN next
    ELSE next + Cardinality({s \in buf : next .. s \subseteq buf})

ReceiveData(c, s) ==
  LET buffered == c.rcvBuf \union {s}
      next == NextSequence(buffered, c.expected)
  IN  [c EXCEPT !.expected = next % SeqSize,
                !.rcvBuf = {x \in buffered : x >= next \/ x < c.expected}]

\* receive_fin moves RCV.NXT past the FIN whatever is still missing before it.
ReceiveFin(c, seq) == [c EXCEPT !.state = OnPeerFin[c.state],
                                !.expected = SeqAfter(seq)]

SendFin(c) == [c EXCEPT !.state = OnFinSent[c.state]]

ExpireTimeWait(c) == [c EXCEPT !.state = OnTimeWaitDone[c.state]]

=============================================================================
