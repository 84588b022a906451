-------------------------- MODULE TCPSessionProofs --------------------------
(***************************************************************************)
(* Invariants of TCPSession for every number of packets, every window and  *)
(* retry limit, every size of the sequence space, any number of refusals   *)
(* and losses, with and without reordering: types and fields first, then   *)
(* the timers, the send buffer and the send window.                        *)
(***************************************************************************)
EXTENDS TCPSession, SequenceTheorems, FiniteSetTheorems, TLAPS

-----------------------------------------------------------------------------
(* Every operation of TCPConnection, called where the code calls it, takes  *)
(* a connection to a connection.                                            *)

\* The successor of a sequence number, and a reduced number, are in the space.
LEMMA SeqArithmetic ==
  /\ 0 \in SeqNumber
  /\ \A n \in Int : n % SeqSize \in SeqNumber
  /\ \A n \in SeqNumber : SeqAfter(n) \in SeqNumber
BY SeqSizeAssumption DEF SeqNumber, SeqAfter

LEMMA Zeros ==
  /\ 0 \in 0 .. DupAckThreshold - 1
  /\ 0 \in 0 .. MaxSynRetries
  /\ 0 \in 0 .. MaxRetransmissions
BY LimitsAssumption

LEMMA NewConnectionType == NewConnection \in Connection
<1>1. <<>> \in Seq(SendEntry)
  OBVIOUS
<1> QED
  BY <1>1, SeqArithmetic, Zeros DEF NewConnection, Connection, TCPState

\* The segments an endpoint builds (buildSyn, buildSynAck, buildAck, buildFin).
LEMMA BuildType ==
  ASSUME NEW c \in Connection
  PROVE  /\ BuildSyn(c) \in Segment
         /\ BuildSynAck(c) \in Segment
         /\ BuildAck(c) \in Segment
         /\ BuildFin(c) \in Segment
         /\ \A s \in SeqNumber : BuildData(c, s) \in Segment
BY SeqArithmetic DEF Connection, Segment, BuildSyn, BuildSynAck, BuildAck,
   BuildFin, BuildData

LEMMA SendSynType ==
  ASSUME NEW c \in Connection, NEW isn \in SeqNumber, c.state = "CLOSED"
  PROVE  SendSyn(c, isn) \in Connection
BY Zeros DEF SendSyn, Connection, OnSynSent, TCPState

LEMMA ReceiveSynType ==
  ASSUME NEW c \in Connection, NEW seq \in SeqNumber,
         Accepts(OnSynReceived, c.state)
  PROVE  ReceiveSyn(c, seq) \in Connection
BY SeqArithmetic DEF ReceiveSyn, Connection, OnSynReceived, Accepts, TCPState

LEMMA ReceiveSynAckType ==
  ASSUME NEW c \in Connection, NEW seq \in SeqNumber, NEW ack \in SeqNumber,
         AcceptsSynAck(c, ack)
  PROVE  ReceiveSynAck(c, seq, ack) \in Connection
BY SeqArithmetic, Zeros
   DEF ReceiveSynAck, AcceptsSynAck, Connection, OnEstablished, TCPState

LEMMA QueueSentSegmentType ==
  ASSUME NEW c \in Connection
  PROVE  QueueSentSegment(c) \in Connection
<1>1. [seq |-> c.seq, retx |-> 0] \in SendEntry
  BY Zeros DEF SendEntry, Connection
<1>2. Append(c.sendBuf, [seq |-> c.seq, retx |-> 0]) \in Seq(SendEntry)
  BY <1>1, AppendProperties DEF Connection
<1> QED
  BY <1>2, SeqArithmetic, Zeros DEF QueueSentSegment, Connection

LEMMA OldestOutstandingType ==
  ASSUME NEW c \in Connection, HasOutstanding(c)
  PROVE  /\ OldestOutstanding(c) \in SeqNumber
         /\ OldestOutstanding(c) = c.sendBuf[1].seq
         /\ 1 \in DOMAIN c.sendBuf
<1>1. c.sendBuf \in Seq(SendEntry) /\ c.sendBuf # <<>>
  BY DEF Connection, HasOutstanding
<1>2. /\ Head(c.sendBuf) = c.sendBuf[1]
      /\ c.sendBuf[1] \in SendEntry
      /\ 1 \in DOMAIN c.sendBuf
  BY <1>1, HeadTailProperties, ElementOfSeq, LenProperties, EmptySeq
<1> QED
  BY <1>2 DEF OldestOutstanding, SendEntry

LEMMA MarkSegmentRetransmittedType ==
  ASSUME NEW c \in Connection, NEW s \in SeqNumber, CanRetransmit(c, s)
  PROVE  MarkSegmentRetransmitted(c, s) \in Connection
<1> DEFINE buf == c.sendBuf
           mark(i) == IF buf[i].seq = s
                        THEN [buf[i] EXCEPT !.retx = buf[i].retx + 1]
                        ELSE buf[i]
<1>1. buf \in Seq(SendEntry) /\ Len(buf) \in Nat /\ DOMAIN buf = 1 .. Len(buf)
  BY LenProperties DEF Connection
<1>2. ASSUME NEW i \in DOMAIN buf
      PROVE  mark(i) \in SendEntry
  <2>1. buf[i] \in SendEntry
    BY <1>1, ElementOfSeq
  <2>2. buf[i].seq = s => buf[i].retx + 1 \in 0 .. MaxRetransmissions
    BY <2>1, LimitsAssumption DEF CanRetransmit, SendEntry
  <2> QED
    BY <2>1, <2>2 DEF SendEntry
<1>3. [i \in 1 .. Len(buf) |-> mark(i)] \in Seq(SendEntry)
  BY <1>1, <1>2, IsASeq
<1> QED
  BY <1>1, <1>3 DEF MarkSegmentRetransmitted, Connection

LEMMA FailRetransmissionType ==
  ASSUME NEW c \in Connection
  PROVE  FailRetransmission(c) \in Connection
<1>1. <<>> \in Seq(SendEntry)
  OBVIOUS
<1> QED
  BY <1>1, Zeros
     DEF FailRetransmission, OnRetransmissionFailure, Connection, TCPState

\* The entries popped are a prefix: a number of entries, never more than all.
LEMMA PoppedType ==
  ASSUME NEW buf \in Seq(SendEntry), NEW ack \in SeqNumber
  PROVE  Popped(buf, ack) \in 0 .. Len(buf)
<1> DEFINE P == {k \in DOMAIN buf : \A i \in 1 .. k : IsAcknowledged(buf[i], ack)}
<1>1. DOMAIN buf = 1 .. Len(buf) /\ Len(buf) \in Nat
  BY LenProperties
<1>2. IsFiniteSet(1 .. Len(buf)) /\ Cardinality(1 .. Len(buf)) = Len(buf)
  BY <1>1, FS_Interval
<1>3. P \subseteq 1 .. Len(buf)
  BY <1>1
<1>4. IsFiniteSet(P) /\ Cardinality(P) <= Cardinality(1 .. Len(buf))
  BY <1>2, <1>3, FS_Subset
<1>5. Cardinality(P) \in Nat
  BY <1>4, FS_CardinalityType
<1> QED
  BY <1>1, <1>2, <1>4, <1>5 DEF Popped

LEMMA UnacknowledgedType ==
  ASSUME NEW buf \in Seq(SendEntry), NEW ack \in SeqNumber
  PROVE  Unacknowledged(buf, ack) \in Seq(SendEntry)
<1>1. Popped(buf, ack) \in Nat /\ Len(buf) \in Nat
  BY PoppedType, LenProperties
<1> QED
  BY <1>1, SubSeqProperties DEF Unacknowledged

\* receive_ack leaves a connection, but for a streak of duplicates that has
\* reached the threshold and is reset in the same step.
LEMMA ReceiveAckType ==
  ASSUME NEW c \in Connection, NEW ack \in SeqNumber
  PROVE  /\ ShouldFastRetransmit(ReceiveAck(c, ack))
              => ResetLossDetection(ReceiveAck(c, ack)) \in Connection
         /\ ~ ShouldFastRetransmit(ReceiveAck(c, ack))
              => ReceiveAck(c, ack) \in Connection
         /\ ReceiveAck(c, ack).sendBuf \in Seq(SendEntry)
<1>1. Unacknowledged(c.sendBuf, ack) \in Seq(SendEntry)
  BY UnacknowledgedType DEF Connection
<1> DEFINE r == ReceiveAck(c, ack)
<1>2. CASE AckEstablishes(c, ack)
  <2>1. r = [c EXCEPT !.state = "ESTABLISHED", !.seq = ack, !.una = ack,
                      !.synRetries = 0, !.dup = 0]
    BY <1>2 DEF ReceiveAck, AckEstablishes, AckOfFin, AckDuplicate,
                AckAdvances, IsEstablished, OnEstablished
  <2>2. r \in Connection
    BY <2>1, Zeros DEF Connection, TCPState
  <2> QED
    BY <2>1, <2>2, LimitsAssumption DEF ShouldFastRetransmit, Connection
<1>3. CASE ~ AckEstablishes(c, ack) /\ AckOfFin(c, ack)
  <2>1. OnFinAcked[c.state] \in TCPState
    BY <1>3 DEF AckOfFin, OnFinAcked, TCPState
  <2>2. r = [c EXCEPT !.state = OnFinAcked[c.state]]
    BY <1>3 DEF ReceiveAck, AckEstablishes, AckOfFin, AckDuplicate,
                AckAdvances, IsEstablished
  <2>3. r \in Connection /\ r.dup = c.dup
    BY <2>1, <2>2 DEF Connection
  <2> QED
    BY <2>3, LimitsAssumption DEF ShouldFastRetransmit, Connection
<1>4. CASE AckDuplicate(c, ack)
  <2>1. r = [c EXCEPT !.dup = c.dup + 1]
    BY <1>4, SeqSizeAssumption
       DEF ReceiveAck, AckEstablishes, AckOfFin, AckDuplicate, AckAdvances,
           IsEstablished, Connection, SeqNumber
  <2>2. c.dup + 1 >= DupAckThreshold \/ c.dup + 1 \in 0 .. DupAckThreshold - 1
    BY LimitsAssumption DEF Connection
  <2>3. r.dup = c.dup + 1 /\ r.sendBuf = c.sendBuf
    BY <2>1 DEF Connection
  <2>4. ResetLossDetection(r) \in Connection
    BY <2>1, Zeros DEF ResetLossDetection, Connection
  <2>5. ~ ShouldFastRetransmit(r) => r \in Connection
    BY <2>1, <2>2, <2>3 DEF ShouldFastRetransmit, Connection
  <2> QED
    BY <2>3, <2>4, <2>5 DEF Connection
<1>5. CASE AckAdvances(c, ack)
  <2>1. r = [c EXCEPT !.una = ack, !.dup = 0,
                      !.sendBuf = Unacknowledged(c.sendBuf, ack)]
    BY <1>5, SeqSizeAssumption
       DEF ReceiveAck, AckEstablishes, AckOfFin, AckDuplicate, AckAdvances,
           IsEstablished, Connection, SeqNumber
  <2>2. r \in Connection /\ r.dup = 0
    BY <1>1, <2>1, Zeros DEF Connection
  <2> QED
    BY <2>2, LimitsAssumption DEF ShouldFastRetransmit, Connection
<1>6. CASE /\ ~ AckEstablishes(c, ack) /\ ~ AckOfFin(c, ack)
           /\ ~ AckDuplicate(c, ack) /\ ~ AckAdvances(c, ack)
  <2>1. r = c
    BY <1>6 DEF ReceiveAck
  <2> QED
    BY <2>1, LimitsAssumption DEF ShouldFastRetransmit, Connection
<1> QED
  BY <1>2, <1>3, <1>4, <1>5, <1>6

LEMMA NextSequenceType ==
  ASSUME NEW buf \in SUBSET SeqNumber, NEW next \in SeqNumber
  PROVE  NextSequence(buf, next) \in Nat /\ NextSequence(buf, next) >= next
<1> DEFINE C == {s \in buf : next .. s \subseteq buf}
<1>1. IsFiniteSet(SeqNumber)
  BY SeqSizeAssumption, FS_Interval DEF SeqNumber
<1>2. Cardinality(C) \in Nat
  BY <1>1, FS_Subset, FS_CardinalityType
<1> HIDE DEF C
<1>3. next \in Nat /\ next + Cardinality(C) \in Nat /\ next + Cardinality(C) >= next
  BY <1>2 DEF SeqNumber
<1> QED
  BY <1>3 DEF NextSequence, C

LEMMA ReceiveDataType ==
  ASSUME NEW c \in Connection, NEW s \in SeqNumber
  PROVE  ReceiveData(c, s) \in Connection
<1> DEFINE buffered == c.rcvBuf \union {s}
           next == NextSequence(buffered, c.expected)
           kept == {x \in buffered : x >= next \/ x < c.expected}
<1>1. buffered \in SUBSET SeqNumber /\ c.expected \in SeqNumber
  BY DEF Connection
<1>2. next \in Nat
  BY <1>1, NextSequenceType
<1>3. next % SeqSize \in SeqNumber /\ kept \in SUBSET SeqNumber
  BY <1>1, <1>2, SeqArithmetic
<1>4. ReceiveData(c, s) = [c EXCEPT !.expected = next % SeqSize, !.rcvBuf = kept]
  BY DEF ReceiveData
<1> HIDE DEF next, kept
<1> QED
  BY <1>3, <1>4 DEF Connection

LEMMA ReceiveFinType ==
  ASSUME NEW c \in Connection, NEW seq \in SeqNumber, Accepts(OnPeerFin, c.state)
  PROVE  ReceiveFin(c, seq) \in Connection
<1>1. OnPeerFin[c.state] \in TCPState
  BY DEF Accepts, OnPeerFin, TCPState
<1> QED
  BY <1>1, SeqArithmetic DEF ReceiveFin, Connection

LEMMA SendFinType ==
  ASSUME NEW c \in Connection, c.state \in {"ESTABLISHED", "CLOSE_WAIT"}
  PROVE  SendFin(c) \in Connection
<1>1. OnFinSent[c.state] \in TCPState
  BY DEF OnFinSent, TCPState
<1> QED
  BY <1>1 DEF SendFin, Connection

LEMMA ExpireTimeWaitType ==
  ASSUME NEW c \in Connection, Accepts(OnTimeWaitDone, c.state)
  PROVE  ExpireTimeWait(c) \in Connection
<1>1. OnTimeWaitDone[c.state] \in TCPState
  BY DEF Accepts, OnTimeWaitDone, TCPState
<1> QED
  BY <1>1 DEF ExpireTimeWait, Connection

LEMMA DelayedAckFlagType ==
  ASSUME NEW c \in Connection, NEW b \in BOOLEAN
  PROVE  [c EXCEPT !.delayedAck = b] \in Connection
BY DEF Connection

-----------------------------------------------------------------------------
(* The inductive invariant. *)

(***************************************************************************)
(* TypeOK is not inductive by itself: a handshake event must find the      *)
(* client CLOSED, for the state machine refuses a SYN to be sent from      *)
(* anywhere else, and a session that has not generated its traffic must    *)
(* have sent nothing, for packetsSent to stay below PacketsPerRoute.       *)
(***************************************************************************)
HandshakeOnce ==
  \A i \in DOMAIN due :
    due[i].type = "handshake" => i = 1 /\ conn["client"].state = "CLOSED"

TypeInv ==
  /\ TypeOK
  /\ HandshakeOnce
  /\ generated \/ packetsSent = 0

-----------------------------------------------------------------------------
(* Sequences of packets and events. *)

LEMMA RemoveAtType ==
  ASSUME NEW S, NEW s \in Seq(S), NEW i \in DOMAIN s
  PROVE  RemoveAt(s, i) \in Seq(S)
<1>1. i \in 1 .. Len(s) /\ Len(s) \in Nat
  BY LenProperties
<1>2. SubSeq(s, 1, i - 1) \in Seq(S) /\ SubSeq(s, i + 1, Len(s)) \in Seq(S)
  BY <1>1, SubSeqProperties
<1> QED
  BY <1>2, ConcatProperties DEF RemoveAt

LEMMA TakenType ==
  ASSUME NEW segment \in Segment, NEW ok \in BOOLEAN
  PROVE  Taken(segment, ok) \in Seq(Segment)
BY DEF Taken

LEMMA TransmitType ==
  ASSUME TypeOK, NEW e \in Endpoint, NEW segment \in Segment, NEW ok \in BOOLEAN,
         Transmit(e, segment, ok)
  PROVE  /\ net' \in [Endpoint -> Seq(Segment)]
         /\ refusals' \in 0 .. MaxRefusals
<1>1. net[e] \o Taken(segment, ok) \in Seq(Segment)
  BY TakenType, ConcatProperties DEF TypeOK
<1>2. net' \in [Endpoint -> Seq(Segment)]
  BY <1>1 DEF TypeOK, Transmit
<1>3. refusals' \in 0 .. MaxRefusals
  BY SessionAssumption DEF TypeOK, Transmit, Refuse
<1> QED
  BY <1>2, <1>3

LEMMA ArrivesType ==
  ASSUME TypeOK, NEW e \in Endpoint, NEW i, NEW type, Arrives(e, i, type)
  PROVE  /\ i \in DOMAIN net[e]
         /\ net[e][i] \in Segment
         /\ net[e][i].seq \in SeqNumber
         /\ net[e][i].ack \in SeqNumber
<1>1. net[e] \in Seq(Segment) /\ i \in DOMAIN net[e]
  BY DEF TypeOK, Arrives
<1>2. net[e][i] \in Segment
  BY <1>1, ElementOfSeq, LenProperties
<1> QED
  BY <1>1, <1>2 DEF Segment

LEMMA ConsumeType ==
  ASSUME TypeOK, NEW e \in Endpoint, NEW i \in DOMAIN net[e],
         NEW replies \in Seq(Segment), Consume(e, i, replies)
  PROVE  net' \in [Endpoint -> Seq(Segment)]
<1>1. Peer(e) \in Endpoint /\ Peer(e) # e
  BY DEF Peer, Endpoint
<1>2. RemoveAt(net[e], i) \in Seq(Segment)
  BY RemoveAtType DEF TypeOK
<1>3. net[Peer(e)] \o replies \in Seq(Segment)
  BY <1>1, ConcatProperties DEF TypeOK
<1> QED
  BY <1>1, <1>2, <1>3 DEF TypeOK, Consume

LEMMA EventType ==
  /\ Event("generate") \in DueEvent
  /\ Event("close") \in DueEvent
  /\ Event("fastRetransmit") \in DueEvent
  /\ Event("handshake") \in DueEvent
  /\ \A s \in SeqNumber : EventFor("retransmit", s) \in DueEvent
BY SeqArithmetic DEF Event, EventFor, DueEvent

\* Consuming the event at the head of the queue.
LEMMA TailType ==
  ASSUME TypeOK, HandshakeOnce, NEW type, Due(type)
  PROVE  /\ Tail(due) \in Seq(DueEvent)
         /\ Head(due) \in DueEvent
         /\ Head(due) = due[1] /\ 1 \in DOMAIN due
         /\ \A i \in DOMAIN Tail(due) : Tail(due)[i].type # "handshake"
<1>1. due \in Seq(DueEvent) /\ due # <<>>
  BY DEF TypeOK, Due
<1>2. /\ Tail(due) \in Seq(DueEvent) /\ Head(due) \in DueEvent
      /\ Len(Tail(due)) = Len(due) - 1
      /\ \A i \in 1 .. Len(Tail(due)) : Tail(due)[i] = due[i + 1]
      /\ Head(due) = due[1]
  BY <1>1, HeadTailProperties
<1>3. DOMAIN due = 1 .. Len(due) /\ DOMAIN Tail(due) = 1 .. Len(Tail(due))
      /\ Len(due) \in Nat /\ Len(due) > 0
  BY <1>1, <1>2, LenProperties, EmptySeq
<1> QED
  BY <1>2, <1>3 DEF HandshakeOnce

\* Scheduling an event for the current instant.
LEMMA AppendEventType ==
  ASSUME NEW q \in Seq(DueEvent), NEW event \in DueEvent, event.type # "handshake"
  PROVE  /\ Append(q, event) \in Seq(DueEvent)
         /\ \A i \in DOMAIN Append(q, event) :
              Append(q, event)[i].type = "handshake"
                => i \in DOMAIN q /\ Append(q, event)[i] = q[i]
         /\ \A i \in DOMAIN q :
              i \in DOMAIN Append(q, event) /\ Append(q, event)[i] = q[i]
         /\ Len(q) + 1 \in DOMAIN Append(q, event)
         /\ Append(q, event)[Len(q) + 1] = event
<1>1. /\ Append(q, event) \in Seq(DueEvent)
      /\ Len(Append(q, event)) = Len(q) + 1
      /\ \A i \in 1 .. Len(q) : Append(q, event)[i] = q[i]
      /\ Append(q, event)[Len(q) + 1] = event
  BY AppendProperties
<1>2. /\ Len(q) \in Nat /\ DOMAIN q = 1 .. Len(q)
      /\ DOMAIN Append(q, event) = 1 .. Len(q) + 1
  BY <1>1, LenProperties
<1> QED
  BY <1>1, <1>2

LEMMA MaybeEventType ==
  ASSUME NEW q \in Seq(DueEvent), NEW event \in DueEvent, event.type # "handshake",
         NEW x \in {<<>>, <<event>>}
  PROVE  /\ q \o x \in Seq(DueEvent)
         /\ \A i \in DOMAIN (q \o x) :
              (q \o x)[i].type = "handshake" => i \in DOMAIN q /\ (q \o x)[i] = q[i]
         /\ \A i \in DOMAIN q : i \in DOMAIN (q \o x) /\ (q \o x)[i] = q[i]
<1>1. CASE x = <<>>
  <2>1. q \o x = q
    BY <1>1, ConcatEmptySeq
  <2> QED
    BY <2>1
<1>2. CASE x = <<event>>
  <2>1. q \o x = Append(q, event)
    BY <1>2, AppendIsConcat
  <2> QED
    BY <2>1, AppendEventType
<1> QED
  BY <1>1, <1>2

-----------------------------------------------------------------------------
(* The initial states. *)

LEMMA InitTypeInv == Init => TypeInv
<1> SUFFICES ASSUME Init PROVE TypeInv
  OBVIOUS
<1>1. conn \in [Endpoint -> Connection]
  BY NewConnectionType DEF Init
<1>2. net \in [Endpoint -> Seq(Segment)]
  BY DEF Init
<1>3. due \in Seq(DueEvent)
  BY EventType DEF Init
<1>4. dataTimers \in [SeqNumber -> Nat]
  BY DEF Init
<1>5. TypeOK
  <2>1. 0 \in 0 .. PacketsPerRoute /\ 0 \in 0 .. MaxRefusals /\ 0 \in 0 .. MaxLosses
    BY SessionAssumption
  <2> QED
    BY <1>1, <1>2, <1>3, <1>4, <2>1 DEF Init, TypeOK
<1>6. HandshakeOnce
  <2>1. \A i \in DOMAIN due : i = 1
    <3>1. Len(due) = 1
      BY DEF Init
    <3>2. DOMAIN due = 1 .. Len(due)
      BY <1>3, LenProperties
    <3> QED
      BY <3>1, <3>2
  <2>2. conn["client"].state = "CLOSED"
    BY DEF Init, NewConnection, Endpoint
  <2> QED
    BY <2>1, <2>2 DEF HandshakeOnce
<1> QED
  BY <1>5, <1>6 DEF TypeInv, Init

-----------------------------------------------------------------------------
(* The engine events. *)

LEMMA HandshakeEventTypeInv ==
  ASSUME TypeInv, HandshakeEvent
  PROVE  TypeInv'
<1> DEFINE client(isn) == SendSyn(conn["client"], isn)
<1>1. PICK isn \in ClientISNs, ok \in BOOLEAN :
        /\ conn' = [conn EXCEPT !["client"] = client(isn)]
        /\ Transmit("server", BuildSyn(client(isn)), ok)
        /\ synTimer' = ok
  BY DEF HandshakeEvent
<1>2. /\ TypeOK /\ HandshakeOnce /\ Due("handshake")
      /\ due' = Tail(due) /\ isn \in SeqNumber
      /\ "client" \in Endpoint /\ "server" \in Endpoint
  BY <1>1, SessionAssumption DEF HandshakeEvent, TypeInv, Endpoint
<1>3. /\ due' \in Seq(DueEvent)
      /\ \A i \in DOMAIN due' : due'[i].type # "handshake"
      /\ conn["client"].state = "CLOSED"
  BY <1>2, TailType DEF HandshakeOnce, Due
<1>4. conn["client"] \in Connection
  BY <1>2 DEF TypeOK
<1>5. client(isn) \in Connection
  BY <1>2, <1>3, <1>4, SendSynType
<1>6. conn' \in [Endpoint -> Connection]
  BY <1>1, <1>2, <1>5 DEF TypeOK
<1>7. BuildSyn(client(isn)) \in Segment
  BY <1>5, BuildType
<1> HIDE DEF client
<1>8. net' \in [Endpoint -> Seq(Segment)] /\ refusals' \in 0 .. MaxRefusals
  BY <1>1, <1>2, <1>7, TransmitType
<1>9. TypeOK'
  BY <1>1, <1>2, <1>3, <1>6, <1>8
     DEF TypeOK, HandshakeEvent, sessionVars, historyVars
<1> QED
  BY <1>3, <1>9 DEF TypeInv, HandshakeOnce, HandshakeEvent, sessionVars

LEMMA HandshakeTimeoutTypeInv ==
  ASSUME TypeInv, HandshakeTimeout \/ HandshakeTimeoutIgnored
  PROVE  TypeInv'
<1> DEFINE client == conn["client"]
<1> USE DEF sessionVars, historyVars
<1>1. TypeOK /\ "client" \in Endpoint /\ "server" \in Endpoint
  BY DEF TypeInv, Endpoint
<1>2. client \in Connection
  BY <1>1 DEF TypeOK
<1>3. CASE HandshakeTimeoutIgnored
  BY <1>3 DEF TypeInv, TypeOK, HandshakeOnce, HandshakeTimeoutIgnored
<1>4. CASE HandshakeTimeout
  <2>1. PICK ok \in BOOLEAN : /\ Transmit("server", BuildSyn(client), ok)
                              /\ synTimer' = ok
    BY <1>4 DEF HandshakeTimeout
  <2>2. net' \in [Endpoint -> Seq(Segment)] /\ refusals' \in 0 .. MaxRefusals
    BY <1>1, <1>2, <2>1, BuildType, TransmitType
  <2>3. client.synRetries + 1 \in 0 .. MaxSynRetries
    BY <1>2, <1>4, LimitsAssumption DEF HandshakeTimeout, Connection
  <2>4. [client EXCEPT !.synRetries = @ + 1] \in Connection
    BY <1>2, <2>3 DEF Connection
  <2>5. conn' = [conn EXCEPT !["client"] = [client EXCEPT !.synRetries = @ + 1]]
    BY <1>1, <1>4 DEF HandshakeTimeout, TypeOK
  <2> HIDE DEF client
  <2>6. conn' \in [Endpoint -> Connection]
    BY <1>1, <2>4, <2>5 DEF TypeOK
  <2>7. TypeOK'
    BY <1>4, <2>1, <2>2, <2>6 DEF TypeInv, TypeOK, HandshakeTimeout
  <2>8. HandshakeOnce'
    BY SMTT(40), <1>1, <1>2, <1>4, <2>5
       DEF TypeInv, TypeOK, HandshakeOnce, HandshakeTimeout, Connection, client
  <2> QED
    BY <1>4, <2>7, <2>8 DEF TypeInv, HandshakeTimeout
<1> QED
  BY <1>3, <1>4

LEMMA GenerationEndsTypeInv ==
  ASSUME TypeInv, GenerationEnds
  PROVE  TypeInv'
<1> USE DEF sessionVars, historyVars, timerVars
<1>1. TypeOK /\ HandshakeOnce /\ Due("generate") /\ due' = Tail(due)
      /\ conn["client"] \in Connection /\ "server" \in Endpoint
  BY DEF TypeInv, TypeOK, GenerationEnds, Endpoint
<1>2. due' \in Seq(DueEvent) /\ \A i \in DOMAIN due' : due'[i].type # "handshake"
  BY <1>1, TailType
<1>3. BuildData(conn["client"], conn["client"].seq) \in Segment
  BY <1>1, BuildType DEF Connection
<1>4. net' \in [Endpoint -> Seq(Segment)] /\ refusals' \in 0 .. MaxRefusals
  BY <1>1, <1>3, TransmitType DEF GenerationEnds, TypeOK
<1> QED
  BY <1>1, <1>2, <1>4 DEF TypeInv, TypeOK, HandshakeOnce, GenerationEnds

LEMMA PacketGenerationTypeInv ==
  ASSUME TypeInv, PacketGeneration
  PROVE  TypeInv'
<1> DEFINE client == conn["client"]
<1> USE DEF sessionVars, historyVars
<1>1. TypeOK /\ HandshakeOnce /\ Due("generate")
      /\ client \in Connection /\ "client" \in Endpoint /\ "server" \in Endpoint
      /\ client.seq \in SeqNumber
  BY DEF TypeInv, TypeOK, PacketGeneration, Endpoint, Connection
<1>2. /\ Tail(due) \in Seq(DueEvent)
      /\ \A i \in DOMAIN Tail(due) : Tail(due)[i].type # "handshake"
  BY <1>1, TailType
<1>3. due' \in Seq(DueEvent) /\ \A i \in DOMAIN due' : due'[i].type # "handshake"
  <2>1. Event("generate").type # "handshake"
    BY DEF Event
  <2> QED
    BY <1>2, <2>1, AppendEventType, EventType DEF PacketGeneration
<1>4. net' \in [Endpoint -> Seq(Segment)] /\ refusals' \in 0 .. MaxRefusals
  BY <1>1, BuildType, TransmitType DEF PacketGeneration
<1>5. conn' \in [Endpoint -> Connection]
  <2>1. conn' = [conn EXCEPT !["client"] = QueueSentSegment(client)]
    BY DEF PacketGeneration
  <2> QED
    BY <1>1, <2>1, QueueSentSegmentType DEF TypeOK
<1>6. dataTimers' \in [SeqNumber -> Nat]
  BY <1>1 DEF PacketGeneration, TypeOK
<1>7. generated /\ packetsSent' \in 0 .. PacketsPerRoute
  BY SessionAssumption
     DEF TypeInv, TypeOK, PacketGeneration, IsComplete, TotalPackets
<1>8. TypeOK'
  BY <1>3, <1>4, <1>5, <1>6, <1>7 DEF TypeInv, TypeOK, PacketGeneration
<1> QED
  BY <1>3, <1>7, <1>8 DEF TypeInv, HandshakeOnce, PacketGeneration

\* Arming one more timer for segment s.
LEMMA TimersType ==
  ASSUME TypeOK, NEW s \in SeqNumber
  PROVE  [dataTimers EXCEPT ![s] = @ + 1] \in [SeqNumber -> Nat]
BY DEF TypeOK

LEMMA TimeoutTypeInv ==
  ASSUME TypeInv, NEW s \in SeqNumber, Timeout(s)
  PROVE  TypeInv'
<1> DEFINE client == conn["client"]
           expires == HasOutstandingSegment(client, s) /\ OldestOutstanding(client) = s
<1> USE DEF sessionVars, historyVars
<1>1. TypeOK /\ HandshakeOnce /\ due \in Seq(DueEvent)
      /\ client \in Connection /\ "client" \in Endpoint
  BY DEF TypeInv, TypeOK, Endpoint
<1>2. dataTimers' \in [SeqNumber -> Nat]
  <2>1. dataTimers[s] - 1 \in Nat
    BY DEF Timeout, TypeInv, TypeOK
  <2> QED
    BY <2>1 DEF Timeout, TypeInv, TypeOK
<1>3. conn' = conn \/ conn' = [conn EXCEPT !["client"] = FailRetransmission(client)]
  BY DEF Timeout
<1>4. conn' \in [Endpoint -> Connection]
  BY <1>1, <1>3, FailRetransmissionType DEF TypeOK
<1>5. client.state = "CLOSED" => conn'["client"].state = "CLOSED"
  BY <1>1, <1>3
     DEF FailRetransmission, OnRetransmissionFailure, TypeOK, Connection
<1>6. due' = due \/ due' = Append(due, EventFor("retransmit", s))
  BY DEF Timeout
<1>7. /\ due' \in Seq(DueEvent)
      /\ \A i \in DOMAIN due' :
           due'[i].type = "handshake" => i \in DOMAIN due /\ due'[i] = due[i]
  <2>1. EventFor("retransmit", s).type # "handshake"
    BY DEF EventFor
  <2> QED
    BY <1>1, <1>6, <2>1, AppendEventType, EventType
<1>8. HandshakeOnce'
  BY <1>1, <1>5, <1>7 DEF HandshakeOnce
<1>9. TypeOK'
  BY <1>1, <1>2, <1>4, <1>7 DEF TypeOK, Timeout
<1> QED
  BY <1>8, <1>9 DEF TypeInv, Timeout

\* Sending segment s again, or giving up: what the two retransmission events do
\* to the connection, the network and the timers.
LEMMA ResendType ==
  ASSUME TypeOK, NEW s \in SeqNumber, CanRetransmit(conn["client"], s), Resend(s)
  PROVE  /\ conn' \in [Endpoint -> Connection]
         /\ net' \in [Endpoint -> Seq(Segment)]
         /\ dataTimers' \in [SeqNumber -> Nat]
         /\ refusals' \in 0 .. MaxRefusals
         /\ unarmed' \in SUBSET SeqNumber
<1>1. PICK ok \in BOOLEAN :
        /\ conn' = [conn EXCEPT !["client"] = MarkSegmentRetransmitted(@, s)]
        /\ Transmit("server", BuildData(conn["client"], s), ok)
        /\ dataTimers' = TimersAfterResend(s, ok)
        /\ unarmed' = IF ok THEN unarmed ELSE unarmed \union {s}
  BY DEF Resend
<1>2. conn["client"] \in Connection /\ "client" \in Endpoint /\ "server" \in Endpoint
  BY DEF TypeOK, Endpoint
<1>3. conn' \in [Endpoint -> Connection]
  BY <1>1, <1>2, MarkSegmentRetransmittedType DEF TypeOK
<1>4. net' \in [Endpoint -> Seq(Segment)] /\ refusals' \in 0 .. MaxRefusals
  BY <1>1, <1>2, BuildType, TransmitType
<1>5. dataTimers' \in [SeqNumber -> Nat]
  BY <1>1 DEF TypeOK, TimersAfterResend
<1>6. unarmed' \in SUBSET SeqNumber
  BY <1>1 DEF TypeOK
<1> QED
  BY <1>3, <1>4, <1>5, <1>6

LEMMA GiveUpType ==
  ASSUME TypeOK, GiveUp
  PROVE  /\ conn' \in [Endpoint -> Connection]
         /\ net' \in [Endpoint -> Seq(Segment)]
         /\ dataTimers' \in [SeqNumber -> Nat]
         /\ refusals' \in 0 .. MaxRefusals
         /\ unarmed' \in SUBSET SeqNumber
<1>1. conn["client"] \in Connection
  BY DEF TypeOK, Endpoint
<1> QED
  BY <1>1, FailRetransmissionType DEF GiveUp, TypeOK

LEMMA RetransmissionTypeInv ==
  ASSUME TypeInv, Retransmission \/ FastRetransmit
  PROVE  TypeInv'
<1> DEFINE client == conn["client"]
<1> USE DEF sessionVars, historyVars
<1>1. TypeOK /\ HandshakeOnce /\ due' = Tail(due) /\ client \in Connection
  BY DEF TypeInv, TypeOK, Retransmission, FastRetransmit, Endpoint
<1>2. PICK type : Due(type)
  BY DEF Retransmission, FastRetransmit
<1>3. /\ due' \in Seq(DueEvent)
      /\ \A i \in DOMAIN due' : due'[i].type # "handshake"
      /\ Head(due).seq \in SeqNumber
  BY <1>1, <1>2, TailType DEF DueEvent
<1>4. \/ UNCHANGED <<conn, net, dataTimers, refusals, unarmed>>
      \/ GiveUp
      \/ \E s \in SeqNumber : CanRetransmit(client, s) /\ Resend(s)
  BY <1>1, <1>3, OldestOutstandingType DEF Retransmission, FastRetransmit
<1>5. /\ conn' \in [Endpoint -> Connection]
      /\ net' \in [Endpoint -> Seq(Segment)]
      /\ dataTimers' \in [SeqNumber -> Nat]
      /\ refusals' \in 0 .. MaxRefusals
      /\ unarmed' \in SUBSET SeqNumber
  <2>1. CASE UNCHANGED <<conn, net, dataTimers, refusals, unarmed>>
    BY <1>1, <2>1 DEF TypeOK
  <2>2. CASE GiveUp
    BY <1>1, <2>2, GiveUpType
  <2>3. CASE \E s \in SeqNumber : CanRetransmit(client, s) /\ Resend(s)
    BY <1>1, <2>3, ResendType
  <2> QED
    BY <1>4, <2>1, <2>2, <2>3
<1>6. UNCHANGED <<synTimer, delayedAcks, timeWaitTimer, packetsSent, generated,
                  closeRequested, losses, arrived>>
  BY DEF Retransmission, FastRetransmit
<1> QED
  BY <1>1, <1>3, <1>5, <1>6 DEF TypeInv, TypeOK, HandshakeOnce

-----------------------------------------------------------------------------
(* Arrivals. *)

LEMMA ReceiveSynPacketTypeInv ==
  ASSUME TypeInv, NEW i, ReceiveSynPacket(i)
  PROVE  TypeInv'
<1> DEFINE server == conn["server"]
           syn == net["server"][i]
           after == ReceiveSyn(server, syn.seq)
<1> USE DEF sessionVars, historyVars, timerVars
<1>1. /\ TypeOK /\ Arrives("server", i, "SYN")
      /\ "server" \in Endpoint /\ "client" \in Endpoint
      /\ server \in Connection
  BY DEF TypeInv, TypeOK, ReceiveSynPacket, Endpoint
<1>2. i \in DOMAIN net["server"] /\ syn.seq \in SeqNumber
  BY <1>1, ArrivesType
<1>3. /\ conn' \in [Endpoint -> Connection]
      /\ net' \in [Endpoint -> Seq(Segment)]
      /\ refusals' \in 0 .. MaxRefusals
      /\ conn'["client"] = conn["client"]
  <2>1. CASE /\ ~ Accepts(OnSynReceived, server.state)
             /\ Consume("server", i, <<>>)
             /\ UNCHANGED <<conn, refusals>>
    <3>1. <<>> \in Seq(Segment)
      OBVIOUS
    <3>2. net' \in [Endpoint -> Seq(Segment)]
      BY <1>1, <1>2, <2>1, <3>1, ConsumeType
    <3> QED
      BY <1>1, <2>1, <3>2 DEF TypeOK
  <2>2. CASE /\ Accepts(OnSynReceived, server.state)
             /\ conn' = [conn EXCEPT !["server"] = ReceiveSyn(@, syn.seq)]
             /\ \E ok \in BOOLEAN :
                  /\ Consume("server", i, Taken(BuildSynAck(conn'["server"]), ok))
                  /\ Refuse(IF ok THEN 0 ELSE 1)
    <3>1. after \in Connection
      BY <1>1, <1>2, <2>2, ReceiveSynType
    <3> HIDE DEF after
    <3>2. /\ conn' \in [Endpoint -> Connection]
          /\ conn'["client"] = conn["client"]
          /\ conn'["server"] \in Connection
      BY <1>1, <2>2, <3>1 DEF TypeOK, after, Endpoint
    <3>3. PICK ok \in BOOLEAN :
            /\ Consume("server", i, Taken(BuildSynAck(conn'["server"]), ok))
            /\ Refuse(IF ok THEN 0 ELSE 1)
      BY <2>2
    <3>4. Taken(BuildSynAck(conn'["server"]), ok) \in Seq(Segment)
      BY <3>2, BuildType, TakenType
    <3>5. net' \in [Endpoint -> Seq(Segment)]
      BY <1>1, <1>2, <3>3, <3>4, ConsumeType
    <3>6. refusals' \in 0 .. MaxRefusals
      BY <1>1, <3>3, SessionAssumption DEF TypeOK, Refuse
    <3> QED
      BY <3>2, <3>5, <3>6
  <2> QED
    BY <2>1, <2>2 DEF ReceiveSynPacket
<1> QED
  BY <1>1, <1>3 DEF TypeInv, TypeOK, HandshakeOnce, ReceiveSynPacket

LEMMA ReceiveSynAckPacketTypeInv ==
  ASSUME TypeInv, NEW i, ReceiveSynAckPacket(i)
  PROVE  TypeInv'
<1> DEFINE client == conn["client"]
           synAck == net["client"][i]
           after == ReceiveSynAck(client, synAck.seq, synAck.ack)
<1> USE DEF sessionVars, historyVars, timerVars
<1>1. /\ TypeOK /\ Arrives("client", i, "SYN_ACK")
      /\ "server" \in Endpoint /\ "client" \in Endpoint
      /\ client \in Connection
  BY DEF TypeInv, TypeOK, ReceiveSynAckPacket, Endpoint
<1>2. /\ i \in DOMAIN net["client"]
      /\ synAck.seq \in SeqNumber /\ synAck.ack \in SeqNumber
  BY <1>1, ArrivesType
<1>3. /\ conn' \in [Endpoint -> Connection]
      /\ net' \in [Endpoint -> Seq(Segment)]
      /\ refusals' \in 0 .. MaxRefusals
      /\ client.state = "CLOSED" => conn'["client"].state = "CLOSED"
  <2>1. CASE /\ ~ AcceptsSynAck(client, synAck.ack)
             /\ Consume("client", i, <<>>)
             /\ UNCHANGED <<conn, refusals>>
    <3>1. <<>> \in Seq(Segment)
      OBVIOUS
    <3>2. net' \in [Endpoint -> Seq(Segment)]
      BY <1>1, <1>2, <2>1, <3>1, ConsumeType
    <3> QED
      BY <1>1, <2>1, <3>2 DEF TypeOK
  <2>2. CASE /\ AcceptsSynAck(client, synAck.ack)
             /\ conn' = [conn EXCEPT !["client"] =
                           ReceiveSynAck(@, synAck.seq, synAck.ack)]
             /\ \E ok \in BOOLEAN :
                  /\ Consume("client", i, Taken(BuildAck(conn'["client"]), ok))
                  /\ Refuse(IF ok THEN 0 ELSE 1)
    <3>1. after \in Connection
      BY <1>1, <1>2, <2>2, ReceiveSynAckType
    <3> HIDE DEF after
    <3>2. /\ conn' \in [Endpoint -> Connection]
          /\ conn'["client"] \in Connection
      BY <1>1, <2>2, <3>1 DEF TypeOK, after, Endpoint
    <3>3. PICK ok \in BOOLEAN :
            /\ Consume("client", i, Taken(BuildAck(conn'["client"]), ok))
            /\ Refuse(IF ok THEN 0 ELSE 1)
      BY <2>2
    <3>4. Taken(BuildAck(conn'["client"]), ok) \in Seq(Segment)
      BY <3>2, BuildType, TakenType
    <3>5. net' \in [Endpoint -> Seq(Segment)]
      BY <1>1, <1>2, <3>3, <3>4, ConsumeType
    <3>6. refusals' \in 0 .. MaxRefusals
      BY <1>1, <3>3, SessionAssumption DEF TypeOK, Refuse
    <3> QED
      BY <2>2, <3>2, <3>5, <3>6 DEF AcceptsSynAck
  <2> QED
    BY <2>1, <2>2 DEF ReceiveSynAckPacket
<1> QED
  BY <1>1, <1>3 DEF TypeInv, TypeOK, HandshakeOnce, ReceiveSynAckPacket

\* A CLOSED connection stays CLOSED whatever is acknowledged.
LEMMA ClosedIgnoresAck ==
  ASSUME NEW c \in Connection, NEW ack, c.state = "CLOSED"
  PROVE  ReceiveAck(c, ack) = c
BY DEF ReceiveAck, AckEstablishes, AckOfFin, AckDuplicate, AckAdvances, IsEstablished

LEMMA ReceiveAckPacketTypeInv ==
  ASSUME TypeInv, NEW e \in Endpoint, NEW i, ReceiveAckPacket(e, i)
  PROVE  TypeInv'
<1> DEFINE ack == net[e][i].ack
           observed == ReceiveAck(conn[e], ack)
           fast == ShouldFastRetransmit(observed)
           after == IF fast THEN ResetLossDetection(observed) ELSE observed
<1> USE DEF sessionVars, historyVars
<1>1. TypeOK /\ HandshakeOnce /\ Arrives(e, i, "ACK") /\ conn[e] \in Connection
  BY DEF TypeInv, TypeOK, ReceiveAckPacket
<1>2. i \in DOMAIN net[e] /\ ack \in SeqNumber
  BY <1>1, ArrivesType
<1>3. net' \in [Endpoint -> Seq(Segment)]
  <2>1. <<>> \in Seq(Segment)
    OBVIOUS
  <2> QED
    BY <1>1, <1>2, <2>1, ConsumeType DEF ReceiveAckPacket
<1>4. after \in Connection /\ observed.sendBuf \in Seq(SendEntry)
  BY <1>1, <1>2, ReceiveAckType
<1>5. conn' = [conn EXCEPT ![e] = after]
  BY DEF ReceiveAckPacket
<1>6. conn' \in [Endpoint -> Connection]
  <2> HIDE DEF after
  <2> QED
    BY <1>4, <1>5 DEF TypeOK, TypeInv
<1>7. dataTimers' \in [SeqNumber -> Nat]
  <2>1. HasOutstanding(observed) => OldestOutstanding(observed) \in SeqNumber
    <3>1. ASSUME HasOutstanding(observed)
          PROVE  OldestOutstanding(observed) \in SeqNumber
      <4>1. Head(observed.sendBuf) \in SendEntry
        BY <1>4, <3>1, HeadTailProperties DEF HasOutstanding
      <4> QED
        BY <4>1 DEF OldestOutstanding, SendEntry
    <3> QED
      BY <3>1
  <2>2. dataTimers' = TimersAfterAck(AcceptsAck(conn[e], ack), observed)
    BY DEF ReceiveAckPacket
  <2> HIDE DEF observed
  <2> QED
    BY <1>1, <2>1, <2>2, TimersType DEF TimersAfterAck, TypeOK
<1>8. /\ due' \in Seq(DueEvent)
      /\ \A j \in DOMAIN due' :
           due'[j].type = "handshake" => j \in DOMAIN due /\ due'[j] = due[j]
  <2>1. PICK a \in {<<>>, <<Event("fastRetransmit")>>},
             b \in {<<>>, <<Event("generate")>>},
             c \in {<<>>, <<Event("close")>>} : due' = due \o a \o b \o c
    BY DEF ReceiveAckPacket
  <2> DEFINE q1 == due \o a
             q2 == q1 \o b
  <2>2. /\ Event("fastRetransmit").type # "handshake"
        /\ Event("generate").type # "handshake"
        /\ Event("close").type # "handshake"
    BY DEF Event
  <2>3. /\ q1 \in Seq(DueEvent)
        /\ \A j \in DOMAIN q1 :
             q1[j].type = "handshake" => j \in DOMAIN due /\ q1[j] = due[j]
    BY <1>1, <2>2, MaybeEventType, EventType DEF TypeOK
  <2> HIDE DEF q1
  <2>4. /\ q2 \in Seq(DueEvent)
        /\ \A j \in DOMAIN q2 :
             q2[j].type = "handshake" => j \in DOMAIN q1 /\ q2[j] = q1[j]
    BY <2>2, <2>3, MaybeEventType, EventType
  <2> HIDE DEF q2
  <2>5. /\ q2 \o c \in Seq(DueEvent)
        /\ \A j \in DOMAIN (q2 \o c) :
             (q2 \o c)[j].type = "handshake"
               => j \in DOMAIN q2 /\ (q2 \o c)[j] = q2[j]
    BY <2>2, <2>4, MaybeEventType, EventType
  <2>6. due' = q2 \o c
    BY <2>1 DEF q1, q2
  <2> QED
    BY SMTT(40), <2>3, <2>4, <2>5, <2>6
<1>9. conn["client"].state = "CLOSED" => conn'["client"].state = "CLOSED"
  <2>1. ASSUME conn["client"].state = "CLOSED", e = "client"
        PROVE  after.state = "CLOSED"
    <3>1. observed = conn["client"]
      BY <1>1, <2>1, ClosedIgnoresAck
    <3> QED
      BY <1>1, <2>1, <3>1 DEF ResetLossDetection, Connection
  <2> HIDE DEF after
  <2> QED
    BY <1>1, <1>5, <2>1 DEF TypeOK, Endpoint
<1>10. TypeOK'
  BY <1>1, <1>3, <1>6, <1>7, <1>8 DEF TypeOK, ReceiveAckPacket
<1>11. HandshakeOnce'
  BY <1>1, <1>8, <1>9 DEF HandshakeOnce
<1> QED
  BY <1>10, <1>11 DEF TypeInv, ReceiveAckPacket

LEMMA ReceiveDataTypeInv ==
  ASSUME TypeInv, NEW i,
         \/ ReceiveDataRejected(i) \/ ReceiveDataAcked(i) \/ ReceiveDataDelayed(i)
  PROVE  TypeInv'
<1> DEFINE server == conn["server"]
           s == net["server"][i].seq
           after(b) == [ReceiveData(server, s) EXCEPT !.delayedAck = b]
<1> USE DEF sessionVars, historyVars, timerVars
<1>1. /\ TypeOK /\ Arrives("server", i, "DATA")
      /\ "server" \in Endpoint /\ "client" \in Endpoint
      /\ server \in Connection
  BY DEF TypeInv, TypeOK, Endpoint, ReceiveDataRejected, ReceiveDataAcked,
         ReceiveDataDelayed
<1>2. i \in DOMAIN net["server"] /\ s \in SeqNumber
  BY <1>1, ArrivesType
<1>3. after(TRUE) \in Connection /\ after(FALSE) \in Connection
  BY <1>1, <1>2, ReceiveDataType, DelayedAckFlagType
<1>4. <<>> \in Seq(Segment)
  OBVIOUS
<1>5. CASE ReceiveDataRejected(i)
  <2>1. net' \in [Endpoint -> Seq(Segment)]
    BY <1>1, <1>2, <1>4, <1>5, ConsumeType DEF ReceiveDataRejected
  <2> QED
    BY <1>5, <2>1 DEF TypeInv, TypeOK, HandshakeOnce, ReceiveDataRejected
<1>6. CASE ReceiveDataAcked(i)
  <2>1. conn' = [conn EXCEPT !["server"] = after(FALSE)]
    BY <1>6 DEF ReceiveDataAcked
  <2> HIDE DEF after
  <2>2. /\ conn' \in [Endpoint -> Connection]
        /\ conn'["server"] \in Connection
        /\ conn'["client"] = conn["client"]
    BY <1>1, <1>3, <2>1 DEF TypeOK, Endpoint
  <2>3. PICK ok \in BOOLEAN :
          /\ Consume("server", i, Taken(BuildAck(conn'["server"]), ok))
          /\ Refuse(IF ok THEN 0 ELSE 1)
    BY <1>6 DEF ReceiveDataAcked
  <2>4. Taken(BuildAck(conn'["server"]), ok) \in Seq(Segment)
    BY <2>2, BuildType, TakenType
  <2>5. net' \in [Endpoint -> Seq(Segment)]
    BY <1>1, <1>2, <2>3, <2>4, ConsumeType
  <2>6. refusals' \in 0 .. MaxRefusals
    BY <1>1, <2>3, SessionAssumption DEF TypeOK, Refuse
  <2>7. arrived' \in SUBSET SeqNumber
    BY <1>1, <1>2, <1>6 DEF TypeOK, ReceiveDataAcked
  <2> QED
    BY <1>6, <2>2, <2>5, <2>6, <2>7 DEF TypeInv, TypeOK, HandshakeOnce, ReceiveDataAcked
<1>7. CASE ReceiveDataDelayed(i)
  <2>1. conn' = [conn EXCEPT !["server"] = after(TRUE)]
    BY <1>7 DEF ReceiveDataDelayed
  <2> HIDE DEF after
  <2>2. /\ conn' \in [Endpoint -> Connection]
        /\ conn'["server"] \in Connection
        /\ conn'["client"] = conn["client"]
    BY <1>1, <1>3, <2>1 DEF TypeOK, Endpoint
  <2>3. net' \in [Endpoint -> Seq(Segment)]
    BY <1>1, <1>2, <1>4, <1>7, ConsumeType DEF ReceiveDataDelayed
  <2>4. delayedAcks' \in SUBSET SeqNumber /\ arrived' \in SUBSET SeqNumber
    BY <1>1, <1>2, <1>7, <2>2 DEF TypeOK, ReceiveDataDelayed, Connection
  <2> QED
    BY <1>7, <2>2, <2>3, <2>4 DEF TypeInv, TypeOK, HandshakeOnce, ReceiveDataDelayed
<1> QED
  BY <1>5, <1>6, <1>7

LEMMA DelayedAckTypeInv ==
  ASSUME TypeInv, NEW a,
         DelayedAckIgnored(a) \/ DelayedAckObsolete(a) \/ DelayedAckSent(a)
  PROVE  TypeInv'
<1> DEFINE server == conn["server"]
<1> USE DEF sessionVars, historyVars
<1>1. /\ TypeOK /\ "server" \in Endpoint /\ "client" \in Endpoint
      /\ server \in Connection
  BY DEF TypeInv, TypeOK, Endpoint
<1>2. delayedAcks' \in SUBSET SeqNumber
  BY <1>1 DEF TypeOK, DelayedAckIgnored, DelayedAckObsolete, DelayedAckSent
<1>3. CASE DelayedAckIgnored(a)
  BY <1>2, <1>3 DEF TypeInv, TypeOK, HandshakeOnce, DelayedAckIgnored
<1>4. CASE DelayedAckObsolete(a) \/ DelayedAckSent(a)
  <2> DEFINE after == [server EXCEPT !.delayedAck = FALSE]
  <2>1. after \in Connection
    BY <1>1, DelayedAckFlagType
  <2>2. conn' = [conn EXCEPT !["server"] = after]
    BY <1>1, <1>4 DEF DelayedAckObsolete, DelayedAckSent, TypeOK
  <2> HIDE DEF after
  <2>3. conn' \in [Endpoint -> Connection] /\ conn'["client"] = conn["client"]
    BY <1>1, <2>1, <2>2 DEF TypeOK, Endpoint
  <2>4. net' \in [Endpoint -> Seq(Segment)] /\ refusals' \in 0 .. MaxRefusals
    BY <1>1, <1>4, BuildType, TransmitType
       DEF TypeOK, DelayedAckObsolete, DelayedAckSent
  <2> QED
    BY <1>1, <1>2, <1>4, <2>3, <2>4
       DEF TypeInv, TypeOK, HandshakeOnce, DelayedAckObsolete, DelayedAckSent
<1> QED
  BY <1>3, <1>4

-----------------------------------------------------------------------------
(* Closing. *)

LEMMA ConnectionCloseTypeInv ==
  ASSUME TypeInv, ConnectionClose
  PROVE  TypeInv'
<1> DEFINE client == conn["client"]
<1> USE DEF sessionVars, historyVars, timerVars
<1>1. /\ TypeOK /\ HandshakeOnce /\ Due("close") /\ due' = Tail(due)
      /\ "server" \in Endpoint /\ "client" \in Endpoint /\ client \in Connection
  BY DEF TypeInv, TypeOK, ConnectionClose, Endpoint
<1>2. due' \in Seq(DueEvent) /\ \A i \in DOMAIN due' : due'[i].type # "handshake"
  BY <1>1, TailType
<1>3. /\ conn' \in [Endpoint -> Connection]
      /\ net' \in [Endpoint -> Seq(Segment)]
      /\ refusals' \in 0 .. MaxRefusals
  <2>1. CASE ~ IsEstablished(client) /\ UNCHANGED <<conn, net, refusals>>
    BY <1>1, <2>1 DEF TypeOK
  <2>2. CASE /\ IsEstablished(client)
             /\ conn' = [conn EXCEPT !["client"] = SendFin(@)]
             /\ \E ok \in BOOLEAN : Transmit("server", BuildFin(client), ok)
    <3>1. SendFin(client) \in Connection
      BY <1>1, <2>2, SendFinType DEF IsEstablished
    <3>2. conn' \in [Endpoint -> Connection]
      BY <1>1, <2>2, <3>1 DEF TypeOK
    <3>3. net' \in [Endpoint -> Seq(Segment)] /\ refusals' \in 0 .. MaxRefusals
      BY <1>1, <2>2, BuildType, TransmitType
    <3> QED
      BY <3>2, <3>3
  <2> QED
    BY <2>1, <2>2 DEF ConnectionClose
<1> QED
  BY <1>1, <1>2, <1>3 DEF TypeInv, TypeOK, HandshakeOnce, ConnectionClose

LEMMA ReceiveFinPacketTypeInv ==
  ASSUME TypeInv, NEW e \in Endpoint, NEW i, ReceiveFinPacket(e, i)
  PROVE  TypeInv'
<1> DEFINE fin == net[e][i]
           received == ReceiveFin(conn[e], fin.seq)
           answers == received.state = "CLOSE_WAIT"
           after == IF answers THEN SendFin(received) ELSE received
           client == IF e = "client" THEN received ELSE conn["client"]
<1> USE DEF sessionVars, historyVars
<1>1. TypeOK /\ Arrives(e, i, "FIN") /\ conn[e] \in Connection
  BY DEF TypeInv, TypeOK, ReceiveFinPacket
<1>2. i \in DOMAIN net[e] /\ fin.seq \in SeqNumber
  BY <1>1, ArrivesType
<1>3. /\ conn' \in [Endpoint -> Connection]
      /\ net' \in [Endpoint -> Seq(Segment)]
      /\ refusals' \in 0 .. MaxRefusals
      /\ timeWaitTimer' \in BOOLEAN
      /\ conn["client"].state = "CLOSED" => conn'["client"].state = "CLOSED"
  <2>1. CASE ~ Accepts(OnPeerFin, conn[e].state)
    <3>1. Consume(e, i, <<>>) /\ UNCHANGED <<conn, timeWaitTimer, refusals>>
      BY <2>1 DEF ReceiveFinPacket
    <3>2. <<>> \in Seq(Segment)
      OBVIOUS
    <3>3. net' \in [Endpoint -> Seq(Segment)]
      BY <1>1, <1>2, <3>1, <3>2, ConsumeType
    <3> QED
      BY <1>1, <3>1, <3>3 DEF TypeOK
  <2>2. CASE Accepts(OnPeerFin, conn[e].state)
    <3>1. received \in Connection
      BY <1>1, <1>2, <2>2, ReceiveFinType
    <3>2. after \in Connection
      <4> HIDE DEF received
      <4> QED
        BY <3>1, SendFinType
    <3>3. PICK ackOk \in BOOLEAN, finOk \in (IF answers THEN BOOLEAN ELSE {FALSE}) :
            /\ Consume(e, i, Taken(BuildAck(received), ackOk)
                             \o Taken(BuildFin(after), finOk))
            /\ Refuse((IF ackOk THEN 0 ELSE 1)
                      + (IF answers /\ ~ finOk THEN 1 ELSE 0))
      BY <2>2 DEF ReceiveFinPacket
    <3>4. /\ conn' = [conn EXCEPT ![e] = after]
          /\ timeWaitTimer' = (timeWaitTimer \/ EntersTimeWait(client))
      BY <2>2 DEF ReceiveFinPacket
    <3>5. conn[e].state # "CLOSED"
      BY <2>2 DEF Accepts, OnPeerFin
    <3> HIDE DEF received, after, answers, client
    <3>6. finOk \in BOOLEAN
      BY <3>3
    <3>7. /\ Taken(BuildAck(received), ackOk) \in Seq(Segment)
          /\ Taken(BuildFin(after), finOk) \in Seq(Segment)
      BY <3>1, <3>2, <3>6, BuildType, TakenType
    <3>8. Taken(BuildAck(received), ackOk) \o Taken(BuildFin(after), finOk)
            \in Seq(Segment)
      BY <3>7, ConcatProperties
    <3>9. net' \in [Endpoint -> Seq(Segment)]
      BY <1>1, <1>2, <3>3, <3>8, ConsumeType
    <3>10. refusals' \in 0 .. MaxRefusals
      <4>1. \/ refusals' = refusals \/ refusals' = refusals + 1
            \/ refusals' = refusals + 2
        BY <1>1, <3>3 DEF Refuse, TypeOK
      <4>2. refusals' <= MaxRefusals
        BY <1>1, <3>3 DEF Refuse
      <4> QED
        BY <1>1, <4>1, <4>2, SessionAssumption DEF TypeOK
    <3>11. conn' \in [Endpoint -> Connection]
      BY <1>1, <3>2, <3>4 DEF TypeOK
    <3>12. conn["client"].state = "CLOSED" => conn'["client"].state = "CLOSED"
      BY <1>1, <3>4, <3>5 DEF TypeOK, Endpoint
    <3>13. timeWaitTimer' \in BOOLEAN
      BY <1>1, <3>4, Zenon DEF TypeOK, EntersTimeWait
    <3> QED
      BY <3>9, <3>10, <3>11, <3>12, <3>13
  <2> QED
    BY <2>1, <2>2
<1> QED
  BY <1>1, <1>3 DEF TypeInv, TypeOK, HandshakeOnce, ReceiveFinPacket

LEMMA TimeWaitTimeoutTypeInv ==
  ASSUME TypeInv, TimeWaitTimeout
  PROVE  TypeInv'
<1> DEFINE after == IF Accepts(OnTimeWaitDone, conn["client"].state)
                      THEN [conn EXCEPT !["client"] = ExpireTimeWait(@)]
                      ELSE conn
<1> USE DEF sessionVars, historyVars
<1>1. /\ TypeOK /\ "client" \in Endpoint /\ conn["client"] \in Connection
      /\ conn' = after
  BY DEF TypeInv, TypeOK, TimeWaitTimeout, Endpoint
<1>2. conn' \in [Endpoint -> Connection]
  BY <1>1, ExpireTimeWaitType DEF TypeOK
<1>3. conn["client"].state = "CLOSED" => conn'["client"].state = "CLOSED"
  BY <1>1 DEF Accepts, OnTimeWaitDone
<1> QED
  BY <1>2, <1>3 DEF TypeInv, TypeOK, HandshakeOnce, TimeWaitTimeout

LEMMA LoseInTransitTypeInv ==
  ASSUME TypeInv, NEW e \in Endpoint, NEW i, LoseInTransit(e, i)
  PROVE  TypeInv'
<1> USE DEF sessionVars, historyVars, timerVars
<1>1. TypeOK /\ i \in DOMAIN net[e] /\ net[e] \in Seq(Segment)
  BY DEF TypeInv, TypeOK, LoseInTransit
<1>2. RemoveAt(net[e], i) \in Seq(Segment)
  BY <1>1, RemoveAtType
<1>3. net' \in [Endpoint -> Seq(Segment)]
  BY <1>1, <1>2 DEF TypeOK, LoseInTransit
<1>4. losses' \in 0 .. MaxLosses
  BY <1>1, SessionAssumption DEF TypeOK, LoseInTransit
<1> QED
  BY <1>3, <1>4 DEF TypeInv, TypeOK, HandshakeOnce, LoseInTransit

-----------------------------------------------------------------------------

LEMMA NextTypeInv ==
  ASSUME TypeInv, [Next]_vars
  PROVE  TypeInv'
<1>1. CASE RunDueEvent
  BY <1>1, HandshakeEventTypeInv, GenerationEndsTypeInv, PacketGenerationTypeInv,
     RetransmissionTypeInv, ConnectionCloseTypeInv DEF RunDueEvent
<1>2. CASE ReceiveAtServer
  <2>1. "server" \in Endpoint
    BY DEF Endpoint
  <2> QED
    BY <1>2, <2>1, ReceiveSynPacketTypeInv, ReceiveAckPacketTypeInv,
       ReceiveDataTypeInv, ReceiveFinPacketTypeInv DEF ReceiveAtServer
<1>3. CASE ReceiveAtClient
  <2>1. "client" \in Endpoint
    BY DEF Endpoint
  <2> QED
    BY <1>3, <2>1, ReceiveSynAckPacketTypeInv, ReceiveAckPacketTypeInv,
       ReceiveFinPacketTypeInv DEF ReceiveAtClient
<1>4. CASE FireTimer
  BY <1>4, HandshakeTimeoutTypeInv, TimeWaitTimeoutTypeInv, TimeoutTypeInv,
     DelayedAckTypeInv DEF FireTimer
<1>5. CASE Lose
  BY <1>5, LoseInTransitTypeInv DEF Lose
<1>6. CASE UNCHANGED vars
  BY <1>6 DEF TypeInv, TypeOK, HandshakeOnce, vars, sessionVars, timerVars,
              historyVars
<1> QED
  BY <1>1, <1>2, <1>3, <1>4, <1>5, <1>6 DEF Next

LEMMA TypeInvariance == Spec => []TypeInv
<1> QED
  BY InitTypeInv, NextTypeInv, PTL DEF Spec

(***************************************************************************)
(* Every variable keeps its type: no operation of TCPConnection is called  *)
(* in a state its state machine refuses, no segment is retransmitted more  *)
(* often than MAX_DATA_RETRANSMISSIONS, no SYN more often than             *)
(* MAX_SYN_RETRIES, and no more than kPacketsPerRoute packets are sent.    *)
(***************************************************************************)
THEOREM TypeCorrect == Spec => []TypeOK
<1>1. TypeInv => TypeOK
  BY DEF TypeInv
<1> QED
  BY <1>1, TypeInvariance, PTL

-----------------------------------------------------------------------------
(***************************************************************************)
(* The sender of a session.                                                *)
(*                                                                         *)
(* TimerCoverage: the timers, the two retransmission events and the        *)
(* acknowledgements never leave the oldest outstanding segment without a   *)
(* timer, but for a refusal on the first hop.                              *)
(*                                                                         *)
(* SendBufferExact, WindowRespected: what the client has outstanding is    *)
(* exactly what its send buffer holds and never more than the window.  The *)
(* argument is about numbers that wrap: SND.UNA up to SND.NXT is never a   *)
(* full turn, for the window is smaller than the sequence space, and an    *)
(* acknowledgement is accepted only when no number in between has wrapped. *)
(***************************************************************************)

(***************************************************************************)
(* The strengthening: a client that becomes ESTABLISHED has nothing        *)
(* outstanding yet.  It comes from SYN_SENT only, and got there from       *)
(* CLOSED by the one handshake event, before anything was queued.          *)
(***************************************************************************)
FreshBuffer ==
  LET client == conn["client"] IN
  /\ client.state # "SYN_RECEIVED"
  /\ client.state = "SYN_SENT" => client.sendBuf = <<>>
  /\ (\E i \in DOMAIN due : due[i].type = "handshake") => client.sendBuf = <<>>

TimerInv == TypeInv /\ FreshBuffer /\ TimerCoverage

-----------------------------------------------------------------------------
(* How an armed segment stays armed. *)

\* Timers are only added, and events only appended.
LEMMA ArmedKept ==
  ASSUME NEW s \in SeqNumber, Armed(s), dataTimers'[s] >= dataTimers[s],
         dataTimers[s] \in Nat, dataTimers'[s] \in Nat,
         \A i \in DOMAIN due : i \in DOMAIN due' /\ due'[i] = due[i]
  PROVE  Armed(s)'
<1>1. CASE dataTimers[s] > 0
  BY <1>1 DEF Armed
<1>2. CASE \E i \in DOMAIN due : due[i] = EventFor("retransmit", s)
  BY <1>2 DEF Armed, EventFor
<1> QED
  BY <1>1, <1>2 DEF Armed

\* The event consumed is not the retransmission of s.
LEMMA ArmedAfterTail ==
  ASSUME TypeOK, NEW s \in SeqNumber, Armed(s), due # <<>>,
         Head(due) # EventFor("retransmit", s),
         dataTimers'[s] >= dataTimers[s], dataTimers'[s] \in Nat,
         \A j \in DOMAIN Tail(due) : j \in DOMAIN due' /\ due'[j] = Tail(due)[j]
  PROVE  Armed(s)'
<1>1. CASE dataTimers[s] > 0
  BY <1>1 DEF Armed, TypeOK
<1>2. CASE \E i \in DOMAIN due : due[i] = EventFor("retransmit", s)
  <2>1. PICK i \in DOMAIN due : due[i] = EventFor("retransmit", s)
    BY <1>2
  <2>2. /\ due \in Seq(DueEvent) /\ Len(due) \in Nat /\ DOMAIN due = 1 .. Len(due)
        /\ Tail(due) \in Seq(DueEvent)
        /\ Len(Tail(due)) = Len(due) - 1
        /\ \A j \in 1 .. Len(Tail(due)) : Tail(due)[j] = due[j + 1]
        /\ Head(due) = due[1]
    BY HeadTailProperties, LenProperties DEF TypeOK
  <2>3. DOMAIN Tail(due) = 1 .. Len(due) - 1
    BY <2>2, LenProperties
  <2>4. i - 1 \in DOMAIN Tail(due) /\ Tail(due)[i - 1] = due[i]
    BY <2>1, <2>2, <2>3
  <2> QED
    BY <2>1, <2>4 DEF Armed, EventFor
<1> QED
  BY <1>1, <1>2 DEF Armed

\* Nothing about the client's outstanding data changes.
LEMMA CoverageKept ==
  ASSUME TypeOK, FreshBuffer, TimerCoverage,
         conn'["client"].state = conn["client"].state,
         conn'["client"].sendBuf = conn["client"].sendBuf,
         UNCHANGED <<due, dataTimers, unarmed>>
  PROVE  FreshBuffer' /\ TimerCoverage'
<1>1. FreshBuffer'
  BY DEF FreshBuffer
<1>2. OldestOutstanding(conn["client"])' = OldestOutstanding(conn["client"])
  BY DEF OldestOutstanding
<1>3. \A s : Armed(s)' <=> Armed(s)
  BY DEF Armed, EventFor
<1>4. TimerCoverage'
  BY <1>2, <1>3 DEF TimerCoverage, IsEstablished, HasOutstanding
<1> QED
  BY <1>1, <1>4

\* It is enough to look at the segment that is the oldest after the step.
LEMMA CoverageAfter ==
  ASSUME conn'["client"] \in Connection,
         \A o \in SeqNumber :
           /\ IsEstablished(conn'["client"]) /\ HasOutstanding(conn'["client"])
           /\ o = OldestOutstanding(conn'["client"])
           /\ o \notin unarmed'
           => Armed(o)'
  PROVE  TimerCoverage'
BY OldestOutstandingType
   DEF TimerCoverage, IsEstablished, HasOutstanding, OldestOutstanding, Armed, EventFor

\* The client is not, or no longer, established: there is nothing to cover.
LEMMA CoverageVacuous ==
  ASSUME ~ IsEstablished(conn["client"])'
  PROVE  TimerCoverage'
BY DEF TimerCoverage

-----------------------------------------------------------------------------

LEMMA InitTimerInv == Init => TimerInv
<1> SUFFICES ASSUME Init PROVE TimerInv
  OBVIOUS
<1>1. conn["client"].state = "CLOSED" /\ conn["client"].sendBuf = <<>>
  BY DEF Init, NewConnection, Endpoint
<1>2. FreshBuffer
  BY <1>1 DEF FreshBuffer
<1>3. TimerCoverage
  BY <1>1 DEF TimerCoverage, IsEstablished
<1> QED
  BY <1>2, <1>3, InitTypeInv DEF TimerInv

LEMMA HandshakeEventTimerInv ==
  ASSUME TimerInv, HandshakeEvent
  PROVE  FreshBuffer' /\ TimerCoverage'
<1>1. TypeOK /\ HandshakeOnce /\ Due("handshake") /\ due' = Tail(due)
      /\ conn["client"] \in Connection
  BY DEF TimerInv, TypeInv, TypeOK, HandshakeEvent, Endpoint
<1>2. /\ \A i \in DOMAIN due' : due'[i].type # "handshake"
      /\ 1 \in DOMAIN due /\ due[1].type = "handshake"
  BY <1>1, TailType DEF Due
<1>3. conn["client"].sendBuf = <<>> /\ conn["client"].state = "CLOSED"
  BY <1>1, <1>2 DEF TimerInv, FreshBuffer, HandshakeOnce
<1>4. PICK isn \in ClientISNs :
        conn' = [conn EXCEPT !["client"] = SendSyn(conn["client"], isn)]
  BY DEF HandshakeEvent
<1>5. conn'["client"] = SendSyn(conn["client"], isn)
  BY <1>1, <1>4 DEF TypeOK, Endpoint
<1>6. conn'["client"].state = "SYN_SENT" /\ conn'["client"].sendBuf = <<>>
  BY <1>1, <1>3, <1>5 DEF SendSyn, OnSynSent, Connection
<1> QED
  BY <1>2, <1>6, CoverageVacuous DEF FreshBuffer, IsEstablished

\* What the steps at the head of the event queue have in common: no handshake
\* event is left behind it.
LEMMA FreshAfterTail ==
  ASSUME TimerInv, NEW type, Due(type),
         due' = Tail(due) \/ due' = Append(Tail(due), Event("generate")),
         conn'["client"].state = conn["client"].state
           \/ conn'["client"].state \notin {"SYN_SENT", "SYN_RECEIVED"},
         conn["client"].state = "SYN_SENT" =>
           conn'["client"].sendBuf = conn["client"].sendBuf
  PROVE  FreshBuffer'
<1>1. TypeOK /\ HandshakeOnce
  BY DEF TimerInv, TypeInv
<1>2. /\ Tail(due) \in Seq(DueEvent)
      /\ \A i \in DOMAIN Tail(due) : Tail(due)[i].type # "handshake"
  BY <1>1, TailType
<1>3. Event("generate").type # "handshake"
  BY DEF Event
<1>4. \A i \in DOMAIN due' : due'[i].type # "handshake"
  <2>1. CASE due' = Tail(due)
    BY <1>2, <2>1
  <2>2. CASE due' = Append(Tail(due), Event("generate"))
    <3> DEFINE tail == Tail(due)
               event == Event("generate")
    <3>1. tail \in Seq(DueEvent) /\ event \in DueEvent /\ event.type # "handshake"
      BY <1>2, <1>3, EventType
    <3>2. \A i \in DOMAIN tail : tail[i].type # "handshake"
      BY <1>2
    <3> HIDE DEF tail, event
    <3>3. \A i \in DOMAIN Append(tail, event) :
            Append(tail, event)[i].type # "handshake"
      BY <3>1, <3>2, AppendEventType
    <3> QED
      BY <2>2, <3>3 DEF tail, event
  <2> QED
    BY <2>1, <2>2
<1> QED
  BY <1>4 DEF TimerInv, FreshBuffer

LEMMA GenerationEndsTimerInv ==
  ASSUME TimerInv, TypeInv', GenerationEnds
  PROVE  FreshBuffer' /\ TimerCoverage'
<1> USE DEF timerVars, sessionVars, historyVars
<1>1. /\ TypeOK /\ Due("generate") /\ due' = Tail(due)
      /\ UNCHANGED <<conn, dataTimers, unarmed>>
      /\ conn["client"] \in Connection
  BY DEF TimerInv, TypeInv, TypeOK, GenerationEnds, Endpoint
<1>2. FreshBuffer'
  BY <1>1, FreshAfterTail
<1>3. ASSUME NEW o \in SeqNumber, IsEstablished(conn["client"]),
             HasOutstanding(conn["client"]), o = OldestOutstanding(conn["client"]),
             o \notin unarmed
      PROVE  Armed(o)'
  <2>1. Armed(o)
    BY <1>3 DEF TimerInv, TimerCoverage
  <2>2. Head(due) # EventFor("retransmit", o) /\ due # <<>>
    BY <1>1 DEF Due, EventFor
  <2> QED
    BY <1>1, <2>1, <2>2, ArmedAfterTail DEF TypeOK
<1>4. TimerCoverage'
  BY <1>1, <1>3, CoverageAfter
<1> QED
  BY <1>2, <1>4

LEMMA PacketGenerationTimerInv ==
  ASSUME TimerInv, TypeInv', PacketGeneration
  PROVE  FreshBuffer' /\ TimerCoverage'
<1> DEFINE client == conn["client"]
           entry == [seq |-> client.seq, retx |-> 0]
<1> USE DEF sessionVars, historyVars
<1>1. /\ TypeOK /\ HandshakeOnce /\ Due("generate")
      /\ client \in Connection /\ IsEstablished(client)
      /\ conn'["client"] \in Connection
      /\ UNCHANGED unarmed
      /\ dataTimers \in [SeqNumber -> Nat]
      /\ client.sendBuf \in Seq(SendEntry)
  BY DEF TimerInv, TypeInv, TypeOK, PacketGeneration, BothEstablished, Endpoint,
         Connection
<1>2. conn'["client"] = QueueSentSegment(client)
  BY <1>1 DEF PacketGeneration, TypeOK, Endpoint
<1>3. /\ conn'["client"].state = client.state
      /\ conn'["client"].sendBuf = Append(client.sendBuf, entry)
  BY <1>1, <1>2 DEF QueueSentSegment, Connection
<1>4. FreshBuffer'
  BY <1>1, <1>3, FreshAfterTail DEF PacketGeneration, IsEstablished
<1>5. /\ Append(client.sendBuf, entry)[Len(client.sendBuf) + 1] = entry
      /\ \A i \in 1 .. Len(client.sendBuf) :
           Append(client.sendBuf, entry)[i] = client.sendBuf[i]
  <2>1. entry \in SendEntry
    BY <1>1, Zeros DEF SendEntry, Connection
  <2> QED
    BY <1>1, <2>1, AppendProperties
<1> SUFFICES ASSUME NEW o \in SeqNumber, HasOutstanding(conn'["client"]),
                    o = OldestOutstanding(conn'["client"]), o \notin unarmed'
             PROVE  Armed(o)'
  BY <1>1, <1>4, CoverageAfter
<1>6. o = Append(client.sendBuf, entry)[1].seq
  BY <1>1, <1>3, OldestOutstandingType
<1>7. CASE HasOutstanding(client)
  <2>1. o = OldestOutstanding(client)
    <3>1. 1 \in 1 .. Len(client.sendBuf)
      BY <1>1, <1>7, OldestOutstandingType, LenProperties
    <3> QED
      BY <1>1, <1>5, <1>6, <1>7, <3>1, OldestOutstandingType
  <2>2. Armed(o)
    BY <1>1, <1>7, <2>1 DEF TimerInv, TimerCoverage
  <2>3. dataTimers' = dataTimers
    BY <1>7 DEF PacketGeneration
  <2>4. \A j \in DOMAIN Tail(due) : j \in DOMAIN due' /\ due'[j] = Tail(due)[j]
    <3>1. Tail(due) \in Seq(DueEvent)
      BY <1>1, TailType
    <3>2. due' = Tail(due) \/ due' = Append(Tail(due), Event("generate"))
      BY DEF PacketGeneration
    <3>3. Event("generate").type # "handshake"
      BY DEF Event
    <3> QED
      BY <3>1, <3>2, <3>3, AppendEventType, EventType
  <2>5. Head(due) # EventFor("retransmit", o) /\ due # <<>>
    BY <1>1 DEF Due, EventFor
  <2>6. dataTimers'[o] >= dataTimers[o] /\ dataTimers'[o] \in Nat
    BY <1>1, <2>3
  <2> QED
    BY <1>1, <2>2, <2>4, <2>5, <2>6, ArmedAfterTail
<1>8. CASE ~ HasOutstanding(client)
  <2>1. Len(client.sendBuf) = 0
    BY <1>8 DEF HasOutstanding
  <2>2. o = client.seq
    BY <1>5, <1>6, <2>1
  <2>3. dataTimers' = [dataTimers EXCEPT ![client.seq] = @ + 1]
    BY <1>8 DEF PacketGeneration
  <2>4. dataTimers'[o] > 0
    BY <1>1, <2>2, <2>3
  <2> QED
    BY <2>4 DEF Armed
<1> QED
  BY <1>7, <1>8

LEMMA TimeoutTimerInv ==
  ASSUME TimerInv, TypeInv', NEW s \in SeqNumber, Timeout(s)
  PROVE  FreshBuffer' /\ TimerCoverage'
<1> DEFINE client == conn["client"]
           expires == HasOutstandingSegment(client, s) /\ OldestOutstanding(client) = s
<1> USE DEF sessionVars, historyVars
<1>1. /\ TypeOK /\ HandshakeOnce /\ client \in Connection
      /\ conn'["client"] \in Connection
      /\ dataTimers \in [SeqNumber -> Nat] /\ due \in Seq(DueEvent)
      /\ UNCHANGED unarmed
  BY DEF TimerInv, TypeInv, TypeOK, Timeout, Endpoint
<1>2. EventFor("retransmit", s).type # "handshake" /\ EventFor("retransmit", s) \in DueEvent
  BY EventType DEF EventFor
<1>3. due' = due \/ due' = Append(due, EventFor("retransmit", s))
  BY DEF Timeout
<1>4. /\ \A i \in DOMAIN due' :
           due'[i].type = "handshake" => i \in DOMAIN due /\ due'[i] = due[i]
      /\ \A i \in DOMAIN due : i \in DOMAIN due' /\ due'[i] = due[i]
  BY SMTT(40), <1>1, <1>2, <1>3, AppendEventType
<1>5. CASE expires /\ ~ CanRetransmit(client, s)
  <2>1. conn'["client"] = FailRetransmission(client)
    BY <1>1, <1>5 DEF Timeout, TypeOK, Endpoint
  <2>2. conn'["client"].state = "CLOSED"
    BY <1>1, <2>1
       DEF FailRetransmission, OnRetransmissionFailure, TypeOK, Connection, TCPState
  <2>3. conn'["client"].sendBuf \in {<<>>, client.sendBuf}
    BY <1>1, <2>1 DEF FailRetransmission, Connection
  <2>4. FreshBuffer'
    BY <1>4, <2>2, <2>3 DEF FreshBuffer, TimerInv
  <2> QED
    BY <2>2, <2>4, CoverageVacuous DEF IsEstablished
<1>6. CASE ~ (expires /\ ~ CanRetransmit(client, s))
  <2>1. conn' = conn
    BY <1>6 DEF Timeout
  <2>2. FreshBuffer'
    BY <1>4, <2>1 DEF FreshBuffer, TimerInv
  <2> SUFFICES ASSUME NEW o \in SeqNumber, IsEstablished(client),
                      HasOutstanding(client), o = OldestOutstanding(client),
                      o \notin unarmed
               PROVE  Armed(o)'
    BY <1>1, <2>1, <2>2, CoverageAfter
  <2>3. Armed(o)
    BY DEF TimerInv, TimerCoverage
  <2>4. CASE o = s
    <3>1. HasOutstandingSegment(client, s)
      BY <1>1, <2>4, OldestOutstandingType DEF HasOutstandingSegment
    <3>2. due' = Append(due, EventFor("retransmit", s))
      BY <1>6, <2>4, <3>1 DEF Timeout
    <3>3. /\ due'[Len(due) + 1] = EventFor("retransmit", s)
          /\ Len(due) + 1 \in DOMAIN due'
      BY <1>1, <1>2, <3>2, AppendEventType
    <3> QED
      BY <2>4, <3>3 DEF Armed, EventFor
  <2>5. CASE o # s
    <3>1. dataTimers'[o] = dataTimers[o] /\ dataTimers[o] \in Nat
      BY <1>1, <2>5 DEF Timeout
    <3> QED
      BY <1>4, <2>3, <3>1, ArmedKept
  <2> QED
    BY <2>4, <2>5
<1> QED
  BY <1>5, <1>6

-----------------------------------------------------------------------------
(* The retransmission events. *)

\* Only the count of segment s changes.
LEMMA MarkKeepsOldest ==
  ASSUME NEW c \in Connection, NEW s \in SeqNumber
  PROVE  /\ MarkSegmentRetransmitted(c, s).state = c.state
         /\ HasOutstanding(MarkSegmentRetransmitted(c, s)) => HasOutstanding(c)
         /\ HasOutstanding(c) =>
              OldestOutstanding(MarkSegmentRetransmitted(c, s)) = OldestOutstanding(c)
<1> DEFINE buf == c.sendBuf
           marked == [i \in DOMAIN buf |->
                        IF buf[i].seq = s
                          THEN [buf[i] EXCEPT !.retx = buf[i].retx + 1]
                          ELSE buf[i]]
<1>1. buf \in Seq(SendEntry) /\ Len(buf) \in Nat /\ DOMAIN buf = 1 .. Len(buf)
  BY LenProperties DEF Connection
<1>2. /\ MarkSegmentRetransmitted(c, s).sendBuf = marked
      /\ MarkSegmentRetransmitted(c, s).state = c.state
  BY DEF MarkSegmentRetransmitted, Connection
<1> DEFINE T == {marked[i] : i \in DOMAIN buf}
<1>3. marked \in Seq(T) /\ Len(marked) = Len(buf)
  <2>1. \A i \in 1 .. Len(buf) : marked[i] \in T
    BY <1>1
  <2>2. marked = [i \in 1 .. Len(buf) |-> marked[i]]
    BY <1>1
  <2>3. marked \in [1 .. Len(buf) -> T]
    BY <2>1, <2>2
  <2> HIDE DEF T, marked
  <2> QED
    BY <1>1, <2>3
<1>4. marked # <<>> <=> buf # <<>>
  <2> HIDE DEF T, marked
  <2> QED
    BY <1>1, <1>3, EmptySeq
<1>5. ASSUME buf # <<>>
      PROVE  Head(marked).seq = Head(buf).seq
  <2>1. 1 \in DOMAIN buf /\ buf[1] \in SendEntry
    BY <1>1, <1>5, EmptySeq, ElementOfSeq
  <2>2. marked[1].seq = buf[1].seq
    BY <2>1 DEF SendEntry
  <2> HIDE DEF T, marked
  <2>3. Head(marked) = marked[1] /\ Head(buf) = buf[1]
    BY <1>1, <1>3, <1>4, <1>5, HeadTailProperties
  <2> QED
    BY <2>2, <2>3
<1> QED
  BY <1>2, <1>4, <1>5 DEF HasOutstanding, OldestOutstanding

\* Segment s is sent again: it has a timer, or was refused.
LEMMA ResendTimerInv ==
  ASSUME TimerInv, TypeInv', NEW type, Due(type), due' = Tail(due),
         NEW s \in SeqNumber, Resend(s), IsEstablished(conn["client"]),
         \A o \in SeqNumber : o # s => Head(due) # EventFor("retransmit", o)
  PROVE  FreshBuffer' /\ TimerCoverage'
<1> DEFINE client == conn["client"]
<1>1. /\ TypeOK /\ client \in Connection /\ conn'["client"] \in Connection
      /\ dataTimers \in [SeqNumber -> Nat] /\ due # <<>>
  BY DEF TimerInv, TypeInv, TypeOK, Endpoint, Due
<1>2. PICK ok \in BOOLEAN :
        /\ conn' = [conn EXCEPT !["client"] = MarkSegmentRetransmitted(client, s)]
        /\ dataTimers' = [dataTimers EXCEPT ![s] = IF ok THEN @ + 1 ELSE @]
        /\ unarmed' = IF ok THEN unarmed ELSE unarmed \union {s}
  BY DEF Resend, TimersAfterResend
<1>3. conn'["client"] = MarkSegmentRetransmitted(client, s)
  BY <1>1, <1>2 DEF TypeOK, Endpoint
<1>4. /\ conn'["client"].state = client.state
      /\ HasOutstanding(conn'["client"]) =>
           /\ HasOutstanding(client)
           /\ OldestOutstanding(conn'["client"]) = OldestOutstanding(client)
  BY <1>1, <1>3, MarkKeepsOldest
<1>5. FreshBuffer'
  BY <1>4, FreshAfterTail DEF IsEstablished
<1> SUFFICES ASSUME NEW o \in SeqNumber, HasOutstanding(conn'["client"]),
                    o = OldestOutstanding(conn'["client"]), o \notin unarmed'
             PROVE  Armed(o)'
  BY <1>1, <1>5, CoverageAfter
<1>6. CASE o = s
  <2>1. ok
    BY <1>2, <1>6
  <2>2. dataTimers'[s] > 0
    BY <1>1, <1>2, <2>1
  <2> QED
    BY <1>6, <2>2 DEF Armed
<1>7. CASE o # s
  <2>1. o \notin unarmed /\ o = OldestOutstanding(client) /\ HasOutstanding(client)
    BY <1>2, <1>4
  <2>2. Armed(o)
    BY <2>1 DEF TimerInv, TimerCoverage
  <2>3. dataTimers'[o] >= dataTimers[o] /\ dataTimers'[o] \in Nat
    BY <1>1, <1>2, <1>7
  <2> QED
    BY <1>1, <1>7, <2>2, <2>3, ArmedAfterTail
<1> QED
  BY <1>6, <1>7

\* Too many retransmissions: the client is CLOSED.
LEMMA GiveUpTimerInv ==
  ASSUME TimerInv, NEW type, Due(type), due' = Tail(due), GiveUp,
         IsEstablished(conn["client"])
  PROVE  FreshBuffer' /\ TimerCoverage'
<1>1. TypeOK /\ conn["client"] \in Connection
  BY DEF TimerInv, TypeInv, TypeOK, Endpoint
<1>2. conn'["client"] = FailRetransmission(conn["client"])
  BY <1>1 DEF GiveUp, TypeOK, Endpoint
<1>3. conn'["client"].state = "CLOSED"
  BY <1>1, <1>2 DEF FailRetransmission, OnRetransmissionFailure, IsEstablished,
                    Connection, TCPState
<1> QED
  BY <1>3, FreshAfterTail, CoverageVacuous DEF IsEstablished

\* Nothing is done: segment s, if the event was for it, is not the oldest
\* outstanding segment of an established client.
LEMMA NothingDoneTimerInv ==
  ASSUME TimerInv, NEW type, Due(type), due' = Tail(due),
         UNCHANGED <<conn, dataTimers, unarmed>>,
         \A o \in SeqNumber :
           /\ IsEstablished(conn["client"]) /\ HasOutstanding(conn["client"])
           /\ o = OldestOutstanding(conn["client"])
           => Head(due) # EventFor("retransmit", o)
  PROVE  FreshBuffer' /\ TimerCoverage'
<1>1. /\ TypeOK /\ conn["client"] \in Connection /\ due # <<>>
      /\ dataTimers \in [SeqNumber -> Nat]
  BY DEF TimerInv, TypeInv, TypeOK, Endpoint, Due
<1>2. FreshBuffer'
  BY FreshAfterTail
<1> SUFFICES ASSUME NEW o \in SeqNumber, IsEstablished(conn["client"]),
                    HasOutstanding(conn["client"]),
                    o = OldestOutstanding(conn["client"]), o \notin unarmed
             PROVE  Armed(o)'
  BY <1>1, <1>2, CoverageAfter
<1>3. Armed(o)
  BY DEF TimerInv, TimerCoverage
<1> QED
  BY <1>1, <1>3, ArmedAfterTail

LEMMA RetransmissionTimerInv ==
  ASSUME TimerInv, TypeInv', Retransmission \/ FastRetransmit
  PROVE  FreshBuffer' /\ TimerCoverage'
<1> DEFINE client == conn["client"]
<1>1. TypeOK /\ HandshakeOnce /\ client \in Connection
  BY DEF TimerInv, TypeInv, TypeOK, Endpoint
<1>2. CASE Retransmission
  <2> DEFINE s == Head(due).seq
  <2>1. Due("retransmit") /\ due' = Tail(due)
    BY <1>2 DEF Retransmission
  <2>2. Head(due) \in DueEvent /\ s \in SeqNumber
    BY <1>1, <2>1, TailType DEF DueEvent
  <2>3. \A o \in SeqNumber : o # s => Head(due) # EventFor("retransmit", o)
    BY DEF EventFor
  <2>4. CASE ~ Resendable(client, s) /\ UNCHANGED <<conn, net, dataTimers, refusals, unarmed>>
    <3>1. ASSUME NEW o \in SeqNumber, IsEstablished(client),
                 HasOutstanding(client), o = OldestOutstanding(client)
          PROVE  o # s
      BY <1>1, <2>4, <3>1, OldestOutstandingType
         DEF Resendable, HasOutstandingSegment
    <3> QED
      BY <2>1, <2>3, <2>4, <3>1, NothingDoneTimerInv
  <2>5. CASE Resendable(client, s) /\ GiveUp
    BY <2>1, <2>5, GiveUpTimerInv DEF Resendable
  <2>6. CASE Resendable(client, s) /\ Resend(s)
    BY <2>1, <2>2, <2>3, <2>6, ResendTimerInv DEF Resendable
  <2> QED
    BY <1>2, <2>4, <2>5, <2>6 DEF Retransmission
<1>3. CASE FastRetransmit
  <2> DEFINE s == OldestOutstanding(client)
             live == IsEstablished(client) /\ HasOutstanding(client)
  <2>1. Due("fastRetransmit") /\ due' = Tail(due)
    BY <1>3 DEF FastRetransmit
  <2>2. \A o \in SeqNumber : Head(due) # EventFor("retransmit", o)
    BY <2>1 DEF Due, EventFor
  <2>3. CASE ~ live /\ UNCHANGED <<conn, net, dataTimers, refusals, unarmed>>
    BY <2>1, <2>2, <2>3, NothingDoneTimerInv
  <2>4. CASE live /\ GiveUp
    BY <2>1, <2>4, GiveUpTimerInv
  <2>5. CASE live /\ Resend(s)
    BY <1>1, <2>1, <2>2, <2>5, OldestOutstandingType, ResendTimerInv
  <2> QED
    BY <1>3, <2>3, <2>4, <2>5 DEF FastRetransmit
<1> QED
  BY <1>2, <1>3

-----------------------------------------------------------------------------
(* Arrivals and the close. *)

LEMMA ReceiveSynAckPacketTimerInv ==
  ASSUME TimerInv, TypeInv', NEW i, ReceiveSynAckPacket(i)
  PROVE  FreshBuffer' /\ TimerCoverage'
<1> DEFINE client == conn["client"]
           synAck == net["client"][i]
<1> USE DEF timerVars, historyVars
<1>1. /\ TypeOK /\ client \in Connection
      /\ UNCHANGED <<due, dataTimers, unarmed>>
  BY DEF TimerInv, TypeInv, TypeOK, Endpoint, ReceiveSynAckPacket
<1>2. CASE UNCHANGED conn
  BY <1>1, <1>2, CoverageKept DEF TimerInv
<1>3. CASE /\ AcceptsSynAck(client, synAck.ack)
           /\ conn' = [conn EXCEPT !["client"] =
                         ReceiveSynAck(@, synAck.seq, synAck.ack)]
  <2>1. conn'["client"] = ReceiveSynAck(client, synAck.seq, synAck.ack)
    BY <1>1, <1>3 DEF TypeOK, Endpoint
  <2>2. client.state = "SYN_SENT" /\ client.sendBuf = <<>>
    BY <1>3 DEF AcceptsSynAck, TimerInv, FreshBuffer
  <2>3. conn'["client"].state = "ESTABLISHED" /\ conn'["client"].sendBuf = <<>>
    BY <1>1, <2>1, <2>2 DEF ReceiveSynAck, OnEstablished, Connection
  <2> QED
    BY <1>1, <2>3 DEF FreshBuffer, TimerCoverage, HasOutstanding
<1> QED
  BY <1>2, <1>3 DEF ReceiveSynAckPacket

\* What receive_ack does to a client: it stays as it was, leaves ESTABLISHED
\* or the states of the close, or takes segments off its buffer.
LEMMA ReceiveAckAtClient ==
  ASSUME NEW c \in Connection, NEW ack \in SeqNumber, c.state # "SYN_RECEIVED"
  PROVE  LET r == ReceiveAck(c, ack) IN
         /\ ~ AcceptsAck(c, ack) =>
              r.state = c.state /\ r.sendBuf = c.sendBuf
         /\ AcceptsAck(c, ack) =>
              /\ c.state \in {"ESTABLISHED", "FIN_WAIT_1", "LAST_ACK"}
              /\ r.state \in {"ESTABLISHED", "FIN_WAIT_2", "CLOSED"}
<1> DEFINE r == ReceiveAck(c, ack)
<1>1. ~ AckEstablishes(c, ack)
  BY DEF AckEstablishes
<1>2. CASE AckOfFin(c, ack)
  <2>1. r = [c EXCEPT !.state = OnFinAcked[c.state]]
    BY <1>1, <1>2 DEF ReceiveAck, AckOfFin, AckDuplicate, AckAdvances, IsEstablished
  <2> QED
    BY <1>2, <2>1 DEF AckOfFin, OnFinAcked, AcceptsAck, Connection
<1>3. CASE AckDuplicate(c, ack)
  <2>1. r = [c EXCEPT !.dup = c.dup + 1] /\ ~ AcceptsAck(c, ack)
    BY <1>1, <1>3
       DEF ReceiveAck, AcceptsAck, AckOfFin, AckDuplicate, AckAdvances, IsEstablished,
           Connection, SeqNumber
  <2> QED
    BY <2>1 DEF Connection
<1>4. CASE AckAdvances(c, ack)
  <2>1. r = [c EXCEPT !.una = ack, !.dup = 0,
                      !.sendBuf = Unacknowledged(c.sendBuf, ack)]
    BY <1>1, <1>4, SeqArithmetic
       DEF ReceiveAck, AckOfFin, AckDuplicate, AckAdvances, IsEstablished,
           Connection, SeqNumber
  <2> QED
    BY <1>4, <2>1 DEF AckAdvances, IsEstablished, AcceptsAck, Connection
<1>5. CASE ~ (AckOfFin(c, ack) \/ AckDuplicate(c, ack) \/ AckAdvances(c, ack))
  BY <1>1, <1>5 DEF ReceiveAck, AcceptsAck
<1> QED
  BY <1>2, <1>3, <1>4, <1>5

LEMMA ReceiveAckPacketTimerInv ==
  ASSUME TimerInv, TypeInv', NEW e \in Endpoint, NEW i, ReceiveAckPacket(e, i)
  PROVE  FreshBuffer' /\ TimerCoverage'
<1> DEFINE client == conn["client"]
           ack == net[e][i].ack
           observed == ReceiveAck(conn[e], ack)
           fast == ShouldFastRetransmit(observed)
           after == IF fast THEN ResetLossDetection(observed) ELSE observed
           accepted == AcceptsAck(conn[e], ack)
<1> USE DEF sessionVars, historyVars
<1>1. /\ TypeOK /\ HandshakeOnce /\ Arrives(e, i, "ACK")
      /\ conn[e] \in Connection /\ client \in Connection
      /\ conn'["client"] \in Connection
      /\ dataTimers \in [SeqNumber -> Nat] /\ dataTimers' \in [SeqNumber -> Nat]
      /\ UNCHANGED unarmed
  BY DEF TimerInv, TypeInv, TypeOK, Endpoint, ReceiveAckPacket
<1>2. ack \in SeqNumber
  BY <1>1, ArrivesType
<1>3. /\ \A j \in DOMAIN due' :
           due'[j].type = "handshake" => j \in DOMAIN due /\ due'[j] = due[j]
      /\ \A j \in DOMAIN due : j \in DOMAIN due' /\ due'[j] = due[j]
  <2>1. PICK a \in {<<>>, <<Event("fastRetransmit")>>},
             b \in {<<>>, <<Event("generate")>>},
             c \in {<<>>, <<Event("close")>>} : due' = due \o a \o b \o c
    BY DEF ReceiveAckPacket
  <2> DEFINE q1 == due \o a
             q2 == q1 \o b
  <2>2. /\ Event("fastRetransmit").type # "handshake"
        /\ Event("generate").type # "handshake"
        /\ Event("close").type # "handshake"
    BY DEF Event
  <2>3. /\ q1 \in Seq(DueEvent)
        /\ \A j \in DOMAIN q1 :
             q1[j].type = "handshake" => j \in DOMAIN due /\ q1[j] = due[j]
        /\ \A j \in DOMAIN due : j \in DOMAIN q1 /\ q1[j] = due[j]
    BY <1>1, <2>2, MaybeEventType, EventType DEF TypeOK
  <2> HIDE DEF q1
  <2>4. /\ q2 \in Seq(DueEvent)
        /\ \A j \in DOMAIN q2 :
             q2[j].type = "handshake" => j \in DOMAIN q1 /\ q2[j] = q1[j]
        /\ \A j \in DOMAIN q1 : j \in DOMAIN q2 /\ q2[j] = q1[j]
    BY <2>2, <2>3, MaybeEventType, EventType
  <2> HIDE DEF q2
  <2>5. /\ \A j \in DOMAIN (q2 \o c) :
             (q2 \o c)[j].type = "handshake"
               => j \in DOMAIN q2 /\ (q2 \o c)[j] = q2[j]
        /\ \A j \in DOMAIN q2 : j \in DOMAIN (q2 \o c) /\ (q2 \o c)[j] = q2[j]
    BY <2>2, <2>4, MaybeEventType, EventType
  <2>6. due' = q2 \o c
    BY <2>1 DEF q1, q2
  <2> QED
    BY <2>3, <2>4, <2>5, <2>6
<1>4. dataTimers' = TimersAfterAck(accepted, observed)
  BY DEF ReceiveAckPacket
<1>5. conn' = [conn EXCEPT ![e] = after]
  BY DEF ReceiveAckPacket
<1>6. after.state = observed.state /\ after.sendBuf = observed.sendBuf
  BY <1>1, <1>2 DEF ResetLossDetection, ReceiveAck, Connection
<1>7. ASSUME NEW o \in SeqNumber
      PROVE  dataTimers'[o] >= dataTimers[o]
  BY <1>1, <1>4 DEF TimersAfterAck
<1>8. ASSUME conn'["client"].state = client.state,
             conn'["client"].sendBuf = client.sendBuf
      PROVE  FreshBuffer' /\ TimerCoverage'
  <2>1. FreshBuffer'
    BY <1>3, <1>8 DEF TimerInv, FreshBuffer
  <2> SUFFICES ASSUME NEW o \in SeqNumber, IsEstablished(conn'["client"]),
                      HasOutstanding(conn'["client"]),
                      o = OldestOutstanding(conn'["client"]), o \notin unarmed'
               PROVE  Armed(o)'
    BY <1>1, <2>1, CoverageAfter
  <2>2. Armed(o)
    BY <1>1, <1>8 DEF TimerInv, TimerCoverage, IsEstablished, HasOutstanding,
                      OldestOutstanding
  <2>3. dataTimers[o] \in Nat /\ dataTimers'[o] \in Nat
    BY <1>1
  <2> QED
    BY <1>3, <1>7, <2>2, <2>3, ArmedKept
<1>9. CASE e = "server"
  <2>1. conn'["client"] = client
    BY <1>1, <1>5, <1>9 DEF TypeOK, Endpoint
  <2> QED
    BY <1>8, <2>1
<1>10. CASE e = "client" /\ ~ accepted
  <2>1. conn'["client"] = after
    BY <1>1, <1>5, <1>10 DEF TypeOK, Endpoint
  <2>2. client.state # "SYN_RECEIVED"
    BY DEF TimerInv, FreshBuffer
  <2> QED
    BY <1>1, <1>2, <1>6, <1>8, <1>10, <2>1, <2>2, ReceiveAckAtClient
<1>11. CASE e = "client" /\ accepted
  <2>1. conn'["client"] = after
    BY <1>1, <1>5, <1>11 DEF TypeOK, Endpoint
  <2>2. client.state # "SYN_RECEIVED"
    BY DEF TimerInv, FreshBuffer
  <2>3. /\ client.state \in {"ESTABLISHED", "FIN_WAIT_1", "LAST_ACK"}
        /\ conn'["client"].state \in {"ESTABLISHED", "FIN_WAIT_2", "CLOSED"}
    BY <1>1, <1>2, <1>6, <1>11, <2>1, <2>2, ReceiveAckAtClient
  <2>4. ~ \E j \in DOMAIN due' : due'[j].type = "handshake"
    BY <1>1, <1>3, <2>3 DEF HandshakeOnce
  <2>5. FreshBuffer'
    BY <2>3, <2>4 DEF FreshBuffer
  <2> SUFFICES ASSUME NEW o \in SeqNumber, HasOutstanding(conn'["client"]),
                      o = OldestOutstanding(conn'["client"])
               PROVE  Armed(o)'
    BY <1>1, <2>5, CoverageAfter
  <2>6. HasOutstanding(observed) /\ o = OldestOutstanding(observed)
    BY <1>6, <2>1 DEF HasOutstanding, OldestOutstanding
  <2>7. dataTimers' = [dataTimers EXCEPT ![o] = @ + 1]
    BY <1>4, <1>11, <2>6 DEF TimersAfterAck
  <2>8. dataTimers'[o] > 0
    BY <1>1, <2>7
  <2> QED
    BY <2>8 DEF Armed
<1> QED
  BY SMTT(40), <1>9, <1>10, <1>11 DEF Endpoint

LEMMA ConnectionCloseTimerInv ==
  ASSUME TimerInv, TypeInv', ConnectionClose
  PROVE  FreshBuffer' /\ TimerCoverage'
<1> DEFINE client == conn["client"]
<1> USE DEF timerVars, historyVars
<1>1. /\ TypeOK /\ client \in Connection
      /\ Due("close") /\ due' = Tail(due) /\ UNCHANGED <<dataTimers, unarmed>>
  BY DEF TimerInv, TypeInv, TypeOK, Endpoint, ConnectionClose
<1>2. CASE ~ IsEstablished(client) /\ UNCHANGED <<conn, net, refusals>>
  BY <1>1, <1>2, NothingDoneTimerInv
<1>3. CASE /\ IsEstablished(client)
           /\ conn' = [conn EXCEPT !["client"] = SendFin(@)]
  <2>1. conn'["client"] = SendFin(client)
    BY <1>1, <1>3 DEF TypeOK, Endpoint
  <2>2. conn'["client"].state = "FIN_WAIT_1"
    BY <1>1, <1>3, <2>1 DEF SendFin, OnFinSent, IsEstablished, Connection
  <2> QED
    BY <1>1, <1>3, <2>2, FreshAfterTail, CoverageVacuous DEF IsEstablished
<1> QED
  BY <1>2, <1>3 DEF ConnectionClose

LEMMA ReceiveFinPacketTimerInv ==
  ASSUME TimerInv, TypeInv', NEW e \in Endpoint, NEW i, ReceiveFinPacket(e, i)
  PROVE  FreshBuffer' /\ TimerCoverage'
<1> DEFINE client == conn["client"]
           received == ReceiveFin(conn[e], net[e][i].seq)
           answers == received.state = "CLOSE_WAIT"
           after == IF answers THEN SendFin(received) ELSE received
<1> USE DEF historyVars
<1>1. /\ TypeOK /\ client \in Connection
      /\ UNCHANGED <<due, dataTimers, unarmed>>
  BY DEF TimerInv, TypeInv, TypeOK, Endpoint, ReceiveFinPacket
<1>2. CASE conn'["client"] = client
  BY <1>1, <1>2, CoverageKept DEF TimerInv
<1>3. CASE e = "client" /\ Accepts(OnPeerFin, client.state)
  <2>1. conn'["client"] = after
    BY <1>1, <1>3 DEF TypeOK, Endpoint, ReceiveFinPacket
  <2>2. /\ received.state \in {"CLOSE_WAIT", "CLOSING", "TIME_WAIT"}
        /\ received.sendBuf = client.sendBuf
    BY <1>1, <1>3 DEF ReceiveFin, OnPeerFin, Accepts, Connection
  <2>3. /\ after.state \in {"LAST_ACK", "CLOSING", "TIME_WAIT"}
        /\ after.sendBuf = client.sendBuf
    BY <1>1, <1>3, <2>2 DEF ReceiveFin, SendFin, OnFinSent, Connection
  <2> QED
    BY <1>1, <2>1, <2>3, CoverageVacuous DEF TimerInv, FreshBuffer, IsEstablished
<1>4. CASE e = "server" \/ ~ Accepts(OnPeerFin, conn[e].state)
  <2>1. conn'["client"] = client
    BY <1>1, <1>4 DEF TypeOK, Endpoint, ReceiveFinPacket
  <2> QED
    BY <1>2, <2>1
<1> QED
  BY <1>3, <1>4 DEF Endpoint

LEMMA TimeWaitTimeoutTimerInv ==
  ASSUME TimerInv, TimeWaitTimeout
  PROVE  FreshBuffer' /\ TimerCoverage'
<1> DEFINE client == conn["client"]
<1> USE DEF historyVars
<1>1. /\ TypeOK /\ client \in Connection
      /\ UNCHANGED <<due, dataTimers, unarmed>>
  BY DEF TimerInv, TypeInv, TypeOK, Endpoint, TimeWaitTimeout
<1>2. CASE UNCHANGED conn
  BY <1>1, <1>2, CoverageKept DEF TimerInv
<1>3. CASE /\ Accepts(OnTimeWaitDone, client.state)
           /\ conn' = [conn EXCEPT !["client"] = ExpireTimeWait(@)]
  <2>1. conn'["client"] = ExpireTimeWait(client)
    BY <1>1, <1>3 DEF TypeOK, Endpoint
  <2>2. conn'["client"].state = "CLOSED" /\ conn'["client"].sendBuf = client.sendBuf
    BY <1>1, <1>3, <2>1 DEF ExpireTimeWait, Accepts, OnTimeWaitDone, Connection
  <2> QED
    BY <1>1, <2>2, CoverageVacuous DEF TimerInv, FreshBuffer, IsEstablished
<1> QED
  BY <1>2, <1>3 DEF TimeWaitTimeout

\* The steps that leave the client's buffer, timers and events alone.
LEMMA OtherStepsTimerInv ==
  ASSUME TimerInv,
         \/ HandshakeTimeoutIgnored \/ HandshakeTimeout
         \/ \E i : \/ ReceiveSynPacket(i)
                   \/ ReceiveDataRejected(i) \/ ReceiveDataAcked(i)
                   \/ ReceiveDataDelayed(i)
         \/ \E a : DelayedAckIgnored(a) \/ DelayedAckObsolete(a) \/ DelayedAckSent(a)
         \/ Lose \/ UNCHANGED vars
  PROVE  FreshBuffer' /\ TimerCoverage'
<1> USE DEF timerVars, historyVars
<1>1. TypeOK /\ conn["client"] \in Connection
  BY DEF TimerInv, TypeInv, TypeOK, Endpoint
<1>2. UNCHANGED <<due, dataTimers, unarmed>>
  BY DEF HandshakeTimeoutIgnored, HandshakeTimeout, ReceiveSynPacket,
         ReceiveDataRejected, ReceiveDataAcked, ReceiveDataDelayed,
         DelayedAckIgnored, DelayedAckObsolete, DelayedAckSent, Lose,
         LoseInTransit, vars
<1>3. /\ conn'["client"].state = conn["client"].state
      /\ conn'["client"].sendBuf = conn["client"].sendBuf
  <2>1. CASE HandshakeTimeout
    BY <1>1, <2>1 DEF HandshakeTimeout, TypeOK, Endpoint, Connection
  <2>2. CASE ~ HandshakeTimeout
    <3>1. conn'["client"] = conn["client"]
      BY <1>1, <2>2
         DEF TypeOK, Endpoint, HandshakeTimeoutIgnored, ReceiveSynPacket,
             ReceiveDataRejected, ReceiveDataAcked, ReceiveDataDelayed,
             DelayedAckIgnored, DelayedAckObsolete, DelayedAckSent, Lose,
             LoseInTransit, vars
    <3> QED
      BY <3>1
  <2> QED
    BY <2>1, <2>2
<1> QED
  BY <1>1, <1>2, <1>3, CoverageKept DEF TimerInv

-----------------------------------------------------------------------------

LEMMA NextTimerInv ==
  ASSUME TimerInv, [Next]_vars
  PROVE  TimerInv'
<1>1. TypeInv'
  BY NextTypeInv DEF TimerInv
<1>2. CASE RunDueEvent
  BY <1>1, <1>2, HandshakeEventTimerInv, GenerationEndsTimerInv,
     PacketGenerationTimerInv, RetransmissionTimerInv, ConnectionCloseTimerInv
     DEF RunDueEvent, TimerInv
<1>3. CASE ReceiveAtServer
  <2>1. "server" \in Endpoint
    BY DEF Endpoint
  <2> QED
    BY <1>1, <1>3, <2>1, ReceiveAckPacketTimerInv, ReceiveFinPacketTimerInv,
       OtherStepsTimerInv DEF ReceiveAtServer, TimerInv
<1>4. CASE ReceiveAtClient
  <2>1. "client" \in Endpoint
    BY DEF Endpoint
  <2> QED
    BY <1>1, <1>4, <2>1, ReceiveSynAckPacketTimerInv, ReceiveAckPacketTimerInv,
       ReceiveFinPacketTimerInv DEF ReceiveAtClient, TimerInv
<1>5. CASE FireTimer
  BY <1>1, <1>5, TimeWaitTimeoutTimerInv, TimeoutTimerInv, OtherStepsTimerInv
     DEF FireTimer, TimerInv
<1>6. CASE Lose \/ UNCHANGED vars
  BY <1>1, <1>6, OtherStepsTimerInv DEF TimerInv
<1> QED
  BY <1>2, <1>3, <1>4, <1>5, <1>6 DEF Next

(***************************************************************************)
(* The timer of the oldest outstanding segment is never forgotten: for any *)
(* window, number of packets, losses and refusals and in any order of      *)
(* timeouts, fast retransmits and acknowledgements, an established client  *)
(* with data outstanding has a timer for it, or a retransmission already   *)
(* queued, unless the first hop refused to resend that segment             *)
(* (TCPTimeoutEvent, TCPRetransmissionEvent, PacketReceivedEvent).         *)
(***************************************************************************)
THEOREM TimersNeverForgotten == Spec => []TimerCoverage
<1>1. TimerInv => TimerCoverage
  BY DEF TimerInv
<1>2. Init => TimerInv
  BY InitTimerInv
<1>3. TimerInv /\ [Next]_vars => TimerInv'
  BY NextTimerInv
<1> QED
  BY <1>1, <1>2, <1>3, PTL DEF Spec

-----------------------------------------------------------------------------
(* The send buffer and the window. *)

\* SendBufferExact of one connection.
BufferExact(c) ==
  /\ Len(c.sendBuf) = InFlight(c)
  /\ \A i \in DOMAIN c.sendBuf : c.sendBuf[i].seq = (c.una + i - 1) % SeqSize

\* The strengthening keeps the window in every state of the client.
SenderInv == SendBufferExact /\ InFlight(conn["client"]) <= SendWindow

-----------------------------------------------------------------------------
(* Numbers around the sequence space. *)

LEMMA Distance ==
  ASSUME NEW a \in SeqNumber, NEW b \in SeqNumber
  PROVE  (a - b) % SeqSize = IF a >= b THEN a - b ELSE a - b + SeqSize
<1>1. a \in Nat /\ b \in Nat /\ a < SeqSize /\ b < SeqSize /\ SeqSize \in Nat \ {0}
  BY SeqSizeAssumption DEF SeqNumber
<1>2. CASE a >= b
  <2> DEFINE x == a - b
  <2>1. x \in 0 .. SeqSize - 1
    BY <1>1, <1>2
  <2> HIDE DEF x
  <2>2. x % SeqSize = x
    BY <1>1, <2>1
  <2> QED
    BY <1>2, <2>2 DEF x
<1>3. CASE a < b
  <2> DEFINE x == a - b
  <2>1. x \in - SeqSize .. -1
    BY <1>1, <1>3
  <2> HIDE DEF x
  <2>2. x % SeqSize = x + SeqSize
    BY <1>1, <2>1
  <2>3. ~ (a >= b)
    BY <1>1, <1>3
  <2> QED
    BY <2>2, <2>3 DEF x
<1> QED
  BY <1>1, <1>2, <1>3

LEMMA Around ==
  ASSUME NEW a \in SeqNumber, NEW k \in SeqNumber
  PROVE  (a + k) % SeqSize = IF a + k < SeqSize THEN a + k ELSE a + k - SeqSize
<1> DEFINE x == a + k
<1>1. x \in 0 .. 2 * SeqSize - 1 /\ SeqSize \in Nat \ {0}
  BY SeqSizeAssumption DEF SeqNumber
<1> HIDE DEF x
<1>2. CASE x < SeqSize
  <2>1. x \in 0 .. SeqSize - 1
    BY <1>1, <1>2
  <2>2. x % SeqSize = x
    BY <1>1, <2>1
  <2> QED
    BY <1>2, <2>2 DEF x
<1>3. CASE ~ (x < SeqSize)
  <2>1. x \in SeqSize .. 2 * SeqSize - 1
    BY <1>1, <1>3
  <2>2. x % SeqSize = x - SeqSize
    BY <1>1, <2>1
  <2> QED
    BY <1>3, <2>2, SeqSizeAssumption DEF x, SeqNumber
<1> QED
  BY <1>2, <1>3

LEMMA InFlightType ==
  ASSUME NEW c \in Connection
  PROVE  InFlight(c) \in SeqNumber
<1>1. c.seq \in Int /\ c.una \in Int
  BY SeqSizeAssumption DEF Connection, SeqNumber
<1>2. c.seq - c.una \in Int
  BY <1>1
<1> QED
  BY <1>2, SeqArithmetic DEF InFlight

-----------------------------------------------------------------------------
(* What the operations of the sender do to its buffer. *)

\* queueSentSegment, where canSend was tested.
LEMMA QueueSentSegmentExact ==
  ASSUME NEW c \in Connection, BufferExact(c), CanSend(c)
  PROVE  LET q == QueueSentSegment(c) IN BufferExact(q) /\ InFlight(q) <= SendWindow
<1> DEFINE q == QueueSentSegment(c)
           n == InFlight(c)
           entry == [seq |-> c.seq, retx |-> 0]
<1>1. /\ c.seq \in SeqNumber /\ c.una \in SeqNumber /\ n \in SeqNumber
      /\ n + 1 \in SeqNumber /\ n + 1 <= SendWindow
      /\ SeqSize \in Nat \ {0} /\ SendWindow \in Nat
  BY InFlightType, LimitsAssumption, SeqSizeAssumption, WindowAssumption
     DEF Connection, CanSend, SeqNumber
<1>2. q = [c EXCEPT !.sendBuf = Append(c.sendBuf, entry),
                    !.seq = SeqAfter(c.seq), !.dup = 0]
  BY DEF QueueSentSegment
<1>3. q.seq = SeqAfter(c.seq) /\ q.una = c.una /\ q.sendBuf = Append(c.sendBuf, entry)
  BY <1>2 DEF Connection
<1>4. InFlight(q) = n + 1
  <2>1. SeqAfter(c.seq) = IF c.seq + 1 < SeqSize THEN c.seq + 1 ELSE 0
    BY <1>1, SeqSizeAssumption DEF SeqAfter, SeqNumber
  <2>2. SeqAfter(c.seq) \in SeqNumber
    BY <1>1, SeqArithmetic
  <2>3. n = IF c.seq >= c.una THEN c.seq - c.una ELSE c.seq - c.una + SeqSize
    BY <1>1, Distance DEF InFlight
  <2>4. InFlight(q) = IF SeqAfter(c.seq) >= c.una THEN SeqAfter(c.seq) - c.una
                                                  ELSE SeqAfter(c.seq) - c.una + SeqSize
    BY <1>1, <1>3, <2>2, Distance DEF InFlight
  <2> HIDE DEF n
  <2> QED
    BY <1>1, <2>1, <2>3, <2>4 DEF SeqNumber
<1>5. (c.una + n) % SeqSize = c.seq
  <2>1. n = IF c.seq >= c.una THEN c.seq - c.una ELSE c.seq - c.una + SeqSize
    BY <1>1, Distance DEF InFlight
  <2>2. (c.una + n) % SeqSize = IF c.una + n < SeqSize THEN c.una + n
                                                      ELSE c.una + n - SeqSize
    BY <1>1, Around
  <2> HIDE DEF n
  <2> QED
    BY <1>1, <2>1, <2>2 DEF SeqNumber
<1>6. /\ c.sendBuf \in Seq(SendEntry) /\ entry \in SendEntry
      /\ Len(c.sendBuf) = n /\ n \in Nat
      /\ DOMAIN c.sendBuf = 1 .. n
  BY <1>1, Zeros, LenProperties DEF Connection, BufferExact, SendEntry, SeqNumber
<1>7. /\ Len(q.sendBuf) = n + 1
      /\ DOMAIN q.sendBuf = 1 .. n + 1
      /\ \A i \in 1 .. n : q.sendBuf[i] = c.sendBuf[i]
      /\ q.sendBuf[n + 1] = entry
  BY <1>3, <1>6, AppendProperties, LenProperties
<1>8. ASSUME NEW i \in DOMAIN q.sendBuf
      PROVE  q.sendBuf[i].seq = (q.una + i - 1) % SeqSize
  <2> HIDE DEF n
  <2>1. CASE i \in 1 .. n
    BY <1>3, <1>6, <1>7, <2>1 DEF BufferExact
  <2>2. CASE i = n + 1
    <3>1. c.una + i - 1 = c.una + n
      BY <1>1, <2>2 DEF SeqNumber
    <3> QED
      BY <1>3, <1>5, <1>7, <2>2, <3>1
  <2> QED
    BY <1>6, <1>7, <2>1, <2>2
<1> QED
  BY <1>1, <1>4, <1>7, <1>8 DEF BufferExact

\* markRetransmitted counts, and moves nothing.
LEMMA MarkSegmentRetransmittedExact ==
  ASSUME NEW c \in Connection, NEW s, BufferExact(c)
  PROVE  LET k == MarkSegmentRetransmitted(c, s)
         IN  BufferExact(k) /\ InFlight(k) = InFlight(c)
<1> DEFINE k == MarkSegmentRetransmitted(c, s)
           buf == c.sendBuf
           marked == [i \in DOMAIN buf |->
                        IF buf[i].seq = s
                          THEN [buf[i] EXCEPT !.retx = buf[i].retx + 1]
                          ELSE buf[i]]
<1>1. buf \in Seq(SendEntry) /\ Len(buf) \in Nat /\ DOMAIN buf = 1 .. Len(buf)
  BY LenProperties DEF Connection
<1>2. k.sendBuf = marked /\ k.una = c.una /\ k.seq = c.seq
  BY DEF MarkSegmentRetransmitted, Connection
<1>3. ASSUME NEW i \in DOMAIN buf
      PROVE  marked[i].seq = buf[i].seq
  <2>1. buf[i] \in SendEntry
    BY <1>1, ElementOfSeq
  <2> QED
    BY <2>1 DEF SendEntry
<1>4. Len(marked) = Len(buf) /\ DOMAIN marked = DOMAIN buf
  <2> DEFINE T == {marked[i] : i \in DOMAIN buf}
  <2>1. \A i \in 1 .. Len(buf) : marked[i] \in T
    BY <1>1
  <2>2. marked = [i \in 1 .. Len(buf) |-> marked[i]] /\ DOMAIN marked = DOMAIN buf
    BY <1>1
  <2>3. marked \in [1 .. Len(buf) -> T]
    BY <2>1, <2>2
  <2> HIDE DEF T, marked
  <2> QED
    BY <1>1, <2>2, <2>3
<1> HIDE DEF marked
<1> QED
  BY <1>2, <1>3, <1>4 DEF BufferExact, InFlight

\* An acknowledgement takes off the buffer exactly the segments before it.
LEMMA AckAdvancesExact ==
  ASSUME NEW c \in Connection, NEW ack \in SeqNumber,
         BufferExact(c), AckAdvances(c, ack)
  PROVE  LET r == [c EXCEPT !.una = ack, !.dup = 0,
                            !.sendBuf = Unacknowledged(c.sendBuf, ack)]
         IN  BufferExact(r) /\ InFlight(r) <= InFlight(c)
<1> DEFINE buf == c.sendBuf
           n == ack - c.una
           r == [c EXCEPT !.una = ack, !.dup = 0, !.sendBuf = Unacknowledged(buf, ack)]
<1>1. /\ c.seq \in Nat /\ c.una \in Nat /\ ack \in Nat
      /\ c.una < ack /\ ack <= c.seq /\ c.seq < SeqSize
      /\ SeqSize \in Nat \ {0}
  BY SeqSizeAssumption DEF Connection, SeqNumber, AckAdvances
<1>2. /\ buf \in Seq(SendEntry) /\ Len(buf) = c.seq - c.una
      /\ DOMAIN buf = 1 .. Len(buf)
  <2>1. c.seq \in SeqNumber /\ c.una \in SeqNumber
    BY DEF Connection
  <2>2. InFlight(c) = c.seq - c.una
    BY <1>1, <2>1, Distance DEF InFlight
  <2> QED
    BY <2>2, LenProperties DEF Connection, BufferExact
<1>3. \A i \in DOMAIN buf : buf[i].seq = c.una + i - 1
  <2>1. SUFFICES ASSUME NEW i \in DOMAIN buf PROVE buf[i].seq = c.una + i - 1
    OBVIOUS
  <2>2. i \in Nat /\ 1 <= i /\ i <= c.seq - c.una
    BY <1>1, <1>2, <2>1
  <2> DEFINE x == c.una + i - 1
  <2>3. x \in 0 .. SeqSize - 1
    BY <1>1, <2>2
  <2>4. buf[i].seq = x % SeqSize
    BY <2>1 DEF BufferExact
  <2> HIDE DEF x
  <2>5. x % SeqSize = x
    BY <1>1, <2>3
  <2> QED
    BY <2>4, <2>5 DEF x
<1>4. \A i \in DOMAIN buf : IsAcknowledged(buf[i], ack) <=> i <= n
  <2>1. SUFFICES ASSUME NEW i \in DOMAIN buf
                 PROVE  IsAcknowledged(buf[i], ack) <=> i <= n
    OBVIOUS
  <2>2. i \in Nat /\ 1 <= i /\ i <= c.seq - c.una
    BY <1>1, <1>2, <2>1
  <2> DEFINE x == c.una + i
  <2>3. x \in 0 .. SeqSize - 1
    BY <1>1, <2>2
  <2>4. buf[i].seq + 1 = x
    BY <1>1, <1>3, <2>1, <2>2
  <2>5. SeqAfter(buf[i].seq) = x % SeqSize
    BY <2>4 DEF SeqAfter
  <2> HIDE DEF x
  <2>6. x % SeqSize = x
    BY <1>1, <2>3
  <2>7. ack >= x <=> i <= n
    BY <1>1, <2>2 DEF x
  <2> QED
    BY <2>5, <2>6, <2>7 DEF IsAcknowledged
<1>5. Popped(buf, ack) = n
  <2> DEFINE P == {k \in DOMAIN buf : \A i \in 1 .. k : IsAcknowledged(buf[i], ack)}
  <2>1. n \in Nat /\ n <= Len(buf)
    BY <1>1, <1>2
  <2>2. ASSUME NEW k \in P PROVE k \in 1 .. n
    <3>1. k \in 1 .. Len(buf) /\ IsAcknowledged(buf[k], ack)
      BY <1>1, <1>2, <2>2
    <3> QED
      BY <1>2, <1>4, <2>1, <3>1
  <2>3. ASSUME NEW k \in 1 .. n PROVE k \in P
    <3>1. k \in DOMAIN buf /\ \A i \in 1 .. k : i \in DOMAIN buf /\ i <= n
      BY <1>1, <1>2, <2>1, <2>3
    <3> QED
      BY <1>4, <3>1
  <2>4. P = 1 .. n
    BY <2>2, <2>3
  <2>5. Cardinality(1 .. n) = n
    BY <2>1, FS_Interval
  <2> HIDE DEF n
  <2> QED
    BY <2>4, <2>5 DEF Popped
<1>6. /\ Len(Unacknowledged(buf, ack)) = Len(buf) - n
      /\ DOMAIN Unacknowledged(buf, ack) = 1 .. Len(buf) - n
      /\ \A i \in 1 .. Len(buf) - n : Unacknowledged(buf, ack)[i] = buf[n + i]
  <2>1. n \in Nat /\ n <= Len(buf) /\ Len(buf) \in Nat
    BY <1>1, <1>2
  <2>2. Unacknowledged(buf, ack) = SubSeq(buf, n + 1, Len(buf))
    BY <1>5 DEF Unacknowledged
  <2> HIDE DEF n
  <2>3. \A i \in n + 1 .. Len(buf) : i \in DOMAIN buf
    BY <1>2, <2>1
  <2> QED
    BY <1>2, <2>1, <2>2, <2>3, SubSeqProperties, LenProperties
<1>7. r.una = ack /\ r.seq = c.seq /\ r.sendBuf = Unacknowledged(buf, ack)
  BY DEF Connection
<1>8. InFlight(r) = c.seq - ack /\ InFlight(c) = c.seq - c.una
  <2>1. c.seq \in SeqNumber /\ c.una \in SeqNumber
    BY DEF Connection
  <2> QED
    BY <1>1, <1>7, <2>1, Distance DEF InFlight
<1>9. ASSUME NEW i \in 1 .. Len(buf) - n
      PROVE  Unacknowledged(buf, ack)[i].seq = (ack + i - 1) % SeqSize
  <2>1. /\ i \in Nat /\ 1 <= i /\ i <= c.seq - ack
        /\ n + i \in DOMAIN buf
    BY <1>1, <1>2, <1>9
  <2> DEFINE x == ack + i - 1
  <2>2. buf[n + i].seq = x
    BY SMTT(40), <1>1, <1>3, <2>1
  <2>3. x \in 0 .. SeqSize - 1
    BY <1>1, <2>1
  <2> HIDE DEF x
  <2>4. x % SeqSize = x
    BY <1>1, <2>3
  <2>5. Unacknowledged(buf, ack)[i] = buf[n + i]
    BY <1>6, <1>9
  <2> HIDE DEF n
  <2> QED
    BY <2>2, <2>4, <2>5 DEF x
<1>10. Len(buf) - n = c.seq - ack
  BY <1>1, <1>2
<1>11. InFlight(r) <= InFlight(c)
  BY <1>1, <1>8
<1> HIDE DEF r, n
<1> QED
  BY <1>6, <1>7, <1>8, <1>9, <1>10, <1>11 DEF BufferExact, r

-----------------------------------------------------------------------------
(* Every step of a session. *)

\* The sender's numbers and buffer stay, and it does not become established.
LEMMA SenderKept ==
  ASSUME SenderInv,
         conn'["client"].seq = conn["client"].seq,
         conn'["client"].una = conn["client"].una,
         conn'["client"].sendBuf = conn["client"].sendBuf,
         IsEstablished(conn'["client"]) => IsEstablished(conn["client"])
  PROVE  SenderInv'
BY DEF SenderInv, SendBufferExact, InFlight, IsEstablished

\* The numbers stay and the client is not, or no longer, established.
LEMMA SenderLeft ==
  ASSUME SenderInv,
         conn'["client"].seq = conn["client"].seq,
         conn'["client"].una = conn["client"].una,
         ~ IsEstablished(conn'["client"])
  PROVE  SenderInv'
BY DEF SenderInv, SendBufferExact, InFlight, IsEstablished

\* The client's connection after the step is exact and within its window.
LEMMA SenderRenewed ==
  ASSUME BufferExact(conn'["client"]), InFlight(conn'["client"]) <= SendWindow
  PROVE  SenderInv'
BY DEF SenderInv, SendBufferExact, BufferExact, InFlight, IsEstablished

\* With SND.NXT = SND.UNA nothing is in flight.
LEMMA NothingInFlight ==
  ASSUME NEW c, c.seq = c.una, c.una \in SeqNumber
  PROVE  InFlight(c) = 0 /\ InFlight(c) <= SendWindow
<1>1. InFlight(c) = 0
  BY Distance, SeqSizeAssumption DEF InFlight, SeqNumber
<1> QED
  BY <1>1, LimitsAssumption

LEMMA InitSenderInv == Init => SenderInv
<1> SUFFICES ASSUME Init PROVE SenderInv
  OBVIOUS
<1>1. /\ conn["client"].state = "CLOSED"
      /\ conn["client"].seq = 0 /\ conn["client"].una = 0
  BY DEF Init, NewConnection, Endpoint
<1>2. InFlight(conn["client"]) <= SendWindow
  BY <1>1, NothingInFlight, SeqArithmetic
<1> QED
  BY <1>1, <1>2 DEF SenderInv, SendBufferExact, IsEstablished

LEMMA HandshakeEventSenderInv ==
  ASSUME TypeInv, SenderInv, HandshakeEvent
  PROVE  SenderInv'
<1> DEFINE client == conn["client"]
<1>1. TypeOK /\ client \in Connection
  BY DEF TypeInv, TypeOK, Endpoint
<1>2. client.state = "CLOSED"
  <2>1. due # <<>> /\ Head(due).type = "handshake" /\ due \in Seq(DueEvent)
    BY <1>1 DEF HandshakeEvent, Due, TypeOK
  <2>2. 1 \in DOMAIN due /\ due[1].type = "handshake"
    BY <2>1, HeadTailProperties, LenProperties, EmptySeq
  <2> QED
    BY <2>2 DEF TypeInv, HandshakeOnce
<1>3. PICK isn \in ClientISNs : conn' = [conn EXCEPT !["client"] = SendSyn(client, isn)]
  BY DEF HandshakeEvent
<1>4. isn \in SeqNumber
  BY SessionAssumption
<1>5. conn'["client"] = SendSyn(client, isn)
  BY <1>1, <1>3 DEF TypeOK, Endpoint
<1>6. /\ conn'["client"].state = "SYN_SENT"
      /\ conn'["client"].seq = isn /\ conn'["client"].una = isn
  BY <1>1, <1>2, <1>5 DEF SendSyn, OnSynSent, Connection
<1>7. InFlight(conn'["client"]) <= SendWindow
  BY <1>4, <1>6, NothingInFlight
<1> QED
  BY <1>6, <1>7 DEF SenderInv, SendBufferExact, IsEstablished, InFlight

LEMMA PacketGenerationSenderInv ==
  ASSUME TypeInv, SenderInv, PacketGeneration
  PROVE  SenderInv'
<1> DEFINE client == conn["client"]
<1>1. TypeOK /\ client \in Connection
  BY DEF TypeInv, TypeOK, Endpoint
<1>2. /\ IsEstablished(client) /\ CanSend(client)
      /\ conn'["client"] = QueueSentSegment(client)
  BY <1>1 DEF PacketGeneration, BothEstablished, TypeOK, Endpoint
<1>3. BufferExact(client)
  BY <1>2 DEF SenderInv, SendBufferExact, BufferExact
<1> HIDE DEF client
<1> QED
  BY <1>1, <1>2, <1>3, QueueSentSegmentExact, SenderRenewed

\* failRetransmission keeps the numbers; it closes an established connection.
LEMMA FailureSenderInv ==
  ASSUME TypeInv, SenderInv, conn'["client"] = FailRetransmission(conn["client"])
  PROVE  SenderInv'
<1> DEFINE client == conn["client"]
<1>1. client \in Connection
  BY DEF TypeInv, TypeOK, Endpoint
<1>2. CASE client.state \notin DOMAIN OnRetransmissionFailure
  BY <1>2, SenderKept DEF FailRetransmission, IsEstablished
<1>3. CASE client.state \in DOMAIN OnRetransmissionFailure
  <2>1. /\ conn'["client"].state = "CLOSED"
        /\ conn'["client"].seq = client.seq /\ conn'["client"].una = client.una
    BY <1>1, <1>3 DEF FailRetransmission, OnRetransmissionFailure, Connection
  <2> QED
    BY <2>1, SenderLeft DEF IsEstablished
<1> QED
  BY <1>2, <1>3

LEMMA TimeoutSenderInv ==
  ASSUME TypeInv, SenderInv, NEW s, Timeout(s)
  PROVE  SenderInv'
<1>1. \/ UNCHANGED conn
      \/ conn' = [conn EXCEPT !["client"] = FailRetransmission(conn["client"])]
  BY DEF Timeout
<1>2. UNCHANGED conn \/ conn'["client"] = FailRetransmission(conn["client"])
  BY <1>1 DEF TypeInv, TypeOK, Endpoint
<1> QED
  BY <1>2, FailureSenderInv, SenderKept

\* TCPRetransmissionEvent and TCPFastRetransmitEvent.
LEMMA ResendSenderInv ==
  ASSUME TypeInv, SenderInv, Retransmission \/ FastRetransmit
  PROVE  SenderInv'
<1> DEFINE client == conn["client"]
<1>1. TypeOK /\ client \in Connection
  BY DEF TypeInv, TypeOK, Endpoint
<1>2. \/ UNCHANGED conn
      \/ conn'["client"] = FailRetransmission(client)
      \/ /\ IsEstablished(client)
         /\ \E s : conn'["client"] = MarkSegmentRetransmitted(client, s)
  BY <1>1 DEF Retransmission, FastRetransmit, GiveUp, Resend, Resendable, TypeOK, Endpoint
<1>3. CASE /\ IsEstablished(client)
           /\ \E s : conn'["client"] = MarkSegmentRetransmitted(client, s)
  <2>1. BufferExact(client) /\ InFlight(client) <= SendWindow
    BY <1>3 DEF SenderInv, SendBufferExact, BufferExact
  <2>2. PICK s : conn'["client"] = MarkSegmentRetransmitted(client, s)
    BY <1>3
  <2> HIDE DEF client
  <2> QED
    BY <1>1, <2>1, <2>2, MarkSegmentRetransmittedExact, SenderRenewed
<1> QED
  BY <1>2, <1>3, FailureSenderInv, SenderKept

LEMMA ReceiveSynAckPacketSenderInv ==
  ASSUME TypeInv, FreshBuffer, SenderInv, NEW i, ReceiveSynAckPacket(i)
  PROVE  SenderInv'
<1> DEFINE client == conn["client"]
           ack == net["client"][i].ack
<1>1. TypeOK /\ client \in Connection
  BY DEF TypeInv, TypeOK, Endpoint
<1>2. CASE UNCHANGED conn
  BY <1>2, SenderKept
<1>3. CASE /\ AcceptsSynAck(client, ack)
           /\ conn' = [conn EXCEPT !["client"] = ReceiveSynAck(@, net["client"][i].seq, ack)]
  <2>1. conn'["client"] = ReceiveSynAck(client, net["client"][i].seq, ack)
    BY <1>1, <1>3 DEF TypeOK, Endpoint
  <2>2. ack \in SeqNumber
    BY <1>1, <1>3, SeqArithmetic DEF AcceptsSynAck, Connection
  <2>3. client.sendBuf = <<>>
    BY <1>3 DEF AcceptsSynAck, FreshBuffer
  <2>4. /\ conn'["client"].seq = ack /\ conn'["client"].una = ack
        /\ conn'["client"].sendBuf = <<>>
    BY <1>1, <2>1, <2>3 DEF ReceiveSynAck, Connection
  <2>5. /\ InFlight(conn'["client"]) = 0
        /\ InFlight(conn'["client"]) <= SendWindow
    BY <2>2, <2>4, NothingInFlight
  <2>6. BufferExact(conn'["client"])
    BY <2>4, <2>5 DEF BufferExact
  <2> QED
    BY <2>5, <2>6, SenderRenewed
<1> QED
  BY <1>2, <1>3 DEF ReceiveSynAckPacket

LEMMA ReceiveAckPacketSenderInv ==
  ASSUME TypeInv, FreshBuffer, SenderInv, NEW e \in Endpoint, NEW i,
         ReceiveAckPacket(e, i)
  PROVE  SenderInv'
<1> DEFINE c == conn["client"]
           ack == net["client"][i].ack
           observed == ReceiveAck(c, ack)
<1>1. TypeOK /\ c \in Connection
  BY DEF TypeInv, TypeOK, Endpoint
<1>2. CASE e = "server"
  <2>1. conn'["client"] = c
    BY <1>1, <1>2 DEF ReceiveAckPacket, TypeOK, Endpoint
  <2> QED
    BY <2>1, SenderKept
<1>3. CASE e = "client"
  <2>1. ack \in SeqNumber
    BY <1>1, <1>3, ArrivesType DEF ReceiveAckPacket
  <2>2. \/ conn'["client"] = observed
        \/ conn'["client"] = [observed EXCEPT !.dup = 0]
    BY <1>1, <1>3 DEF ReceiveAckPacket, ResetLossDetection, TypeOK, Endpoint
  <2>3. ~ AckEstablishes(c, ack)
    BY DEF AckEstablishes, FreshBuffer
  <2>4. CASE AckAdvances(c, ack)
    <3> DEFINE r == [c EXCEPT !.una = ack, !.dup = 0,
                              !.sendBuf = Unacknowledged(c.sendBuf, ack)]
    <3>1. observed = r
      BY <1>1, <2>1, <2>3, <2>4, SeqArithmetic
         DEF ReceiveAck, AckOfFin, AckDuplicate, AckAdvances, IsEstablished,
             Connection, SeqNumber
    <3>2. conn'["client"] = r
      BY <1>1, <2>2, <3>1 DEF Connection
    <3>3. BufferExact(c)
      BY <2>4 DEF SenderInv, SendBufferExact, BufferExact, AckAdvances
    <3>4. BufferExact(r) /\ InFlight(r) <= InFlight(c)
      BY <1>1, <2>1, <2>4, <3>3, AckAdvancesExact
    <3>5. r \in Connection
      <4>1. Unacknowledged(c.sendBuf, ack) \in Seq(SendEntry)
        BY <1>1, <2>1, UnacknowledgedType DEF Connection
      <4> QED
        BY <1>1, <2>1, <4>1, Zeros DEF Connection
    <3> HIDE DEF c, r
    <3>6. InFlight(r) \in Nat /\ InFlight(c) \in Nat
      BY <1>1, <3>5, InFlightType, SeqSizeAssumption DEF SeqNumber
    <3>7. InFlight(r) <= SendWindow
      BY <3>4, <3>6, LimitsAssumption DEF SenderInv, c
    <3> QED
      BY <3>2, <3>4, <3>7, SenderRenewed
  <2>5. CASE AckOfFin(c, ack) /\ ~ AckAdvances(c, ack)
    <3>1. observed = [c EXCEPT !.state = OnFinAcked[c.state]]
      BY <2>3, <2>5 DEF ReceiveAck, AckOfFin, AckDuplicate, IsEstablished
    <3>2. OnFinAcked[c.state] \in {"FIN_WAIT_2", "CLOSED"}
      BY <2>5 DEF AckOfFin, OnFinAcked
    <3> DEFINE left == OnFinAcked[c.state]
    <3> HIDE DEF left
    <3>3. /\ conn'["client"].seq = c.seq /\ conn'["client"].una = c.una
          /\ conn'["client"].state = left
      BY ZenonT(60), <1>1, <2>2, <3>1 DEF left, Connection
    <3> QED
      BY <3>2, <3>3, SenderLeft DEF IsEstablished, left
  <2>6. CASE ~ AckOfFin(c, ack) /\ ~ AckAdvances(c, ack)
    <3>1. observed = c \/ observed = [c EXCEPT !.dup = c.dup + 1]
      BY <2>3, <2>6 DEF ReceiveAck
    <3>2. /\ conn'["client"].seq = c.seq /\ conn'["client"].una = c.una
          /\ conn'["client"].sendBuf = c.sendBuf
          /\ conn'["client"].state = c.state
      BY <1>1, <2>2, <3>1 DEF Connection
    <3> QED
      BY <3>2, SenderKept DEF IsEstablished
  <2> QED
    BY <2>4, <2>5, <2>6
<1> QED
  BY <1>2, <1>3 DEF Endpoint

\* The close, and the end of TIME_WAIT: the client is not established after.
LEMMA ClosingSenderInv ==
  ASSUME TypeInv, SenderInv,
         \/ ConnectionClose \/ TimeWaitTimeout
         \/ \E e \in Endpoint : \E i : ReceiveFinPacket(e, i)
  PROVE  SenderInv'
<1> DEFINE client == conn["client"]
<1>1. TypeOK /\ client \in Connection
  BY DEF TypeInv, TypeOK, Endpoint
<1>2. CASE conn'["client"] = client
  BY <1>2, SenderKept
<1>3. CASE ConnectionClose /\ conn'["client"] # client
  <2>1. IsEstablished(client) /\ conn'["client"] = SendFin(client)
    BY <1>1, <1>3 DEF ConnectionClose, TypeOK, Endpoint
  <2>2. /\ conn'["client"].seq = client.seq /\ conn'["client"].una = client.una
        /\ conn'["client"].state = "FIN_WAIT_1"
    BY <1>1, <2>1 DEF SendFin, OnFinSent, IsEstablished, Connection
  <2> QED
    BY <2>2, SenderLeft DEF IsEstablished
<1>4. CASE TimeWaitTimeout /\ conn'["client"] # client
  <2>1. /\ Accepts(OnTimeWaitDone, client.state)
        /\ conn'["client"] = ExpireTimeWait(client)
    BY <1>1, <1>4 DEF TimeWaitTimeout, TypeOK, Endpoint
  <2>2. /\ conn'["client"].seq = client.seq /\ conn'["client"].una = client.una
        /\ conn'["client"].state = "CLOSED"
    BY <1>1, <2>1 DEF ExpireTimeWait, Accepts, OnTimeWaitDone, Connection
  <2> QED
    BY <2>2, SenderLeft DEF IsEstablished
<1>5. CASE conn'["client"] # client /\ \E e \in Endpoint : \E i : ReceiveFinPacket(e, i)
  <2>0. PICK e \in Endpoint : \E i : ReceiveFinPacket(e, i)
    BY <1>5
  <2>1. PICK i : ReceiveFinPacket(e, i)
    BY SMTT(40), <2>0
  <2> DEFINE received == ReceiveFin(client, net[e][i].seq)
             after == IF received.state = "CLOSE_WAIT" THEN SendFin(received) ELSE received
  <2>2. e = "client" /\ Accepts(OnPeerFin, client.state) /\ conn'["client"] = after
    BY <1>1, <1>5, <2>1 DEF ReceiveFinPacket, TypeOK, Endpoint
  <2>3. /\ received.seq = client.seq /\ received.una = client.una
        /\ received.state \in {"CLOSE_WAIT", "CLOSING", "TIME_WAIT"}
    BY <1>1, <2>2 DEF ReceiveFin, OnPeerFin, Accepts, Connection
  <2>4. /\ after.seq = client.seq /\ after.una = client.una
        /\ after.state \in {"LAST_ACK", "CLOSING", "TIME_WAIT"}
    BY <1>1, <2>2, <2>3 DEF ReceiveFin, SendFin, OnFinSent, Connection
  <2> QED
    BY <2>2, <2>4, SenderLeft DEF IsEstablished
<1> QED
  BY <1>2, <1>3, <1>4, <1>5

\* The steps that leave the client's numbers and buffer alone.
LEMMA OtherStepsSenderInv ==
  ASSUME TypeInv, SenderInv,
         \/ GenerationEnds \/ HandshakeTimeoutIgnored \/ HandshakeTimeout
         \/ \E i : \/ ReceiveSynPacket(i)
                   \/ ReceiveDataRejected(i) \/ ReceiveDataAcked(i)
                   \/ ReceiveDataDelayed(i)
         \/ \E a : DelayedAckIgnored(a) \/ DelayedAckObsolete(a) \/ DelayedAckSent(a)
         \/ Lose \/ UNCHANGED vars
  PROVE  SenderInv'
<1>1. TypeOK /\ conn["client"] \in Connection
  BY DEF TypeInv, TypeOK, Endpoint
<1>2. CASE HandshakeTimeout
  <2>1. /\ conn'["client"].seq = conn["client"].seq
        /\ conn'["client"].una = conn["client"].una
        /\ conn'["client"].sendBuf = conn["client"].sendBuf
        /\ conn'["client"].state = conn["client"].state
    BY <1>1, <1>2 DEF HandshakeTimeout, TypeOK, Endpoint, Connection
  <2> QED
    BY <2>1, SenderKept DEF IsEstablished
<1>3. CASE ~ HandshakeTimeout
  <2>1. conn'["client"] = conn["client"]
    BY <1>1, <1>3
       DEF TypeOK, Endpoint, GenerationEnds, HandshakeTimeoutIgnored,
           ReceiveSynPacket, ReceiveDataRejected, ReceiveDataAcked,
           ReceiveDataDelayed, DelayedAckIgnored, DelayedAckObsolete,
           DelayedAckSent, Lose, LoseInTransit, vars
  <2> QED
    BY <2>1, SenderKept
<1> QED
  BY <1>2, <1>3

LEMMA NextSenderInv ==
  ASSUME TypeInv, FreshBuffer, SenderInv, [Next]_vars
  PROVE  SenderInv'
<1>1. "client" \in Endpoint /\ "server" \in Endpoint
  BY DEF Endpoint
<1>2. CASE RunDueEvent
  BY <1>2, HandshakeEventSenderInv, PacketGenerationSenderInv, ResendSenderInv,
     ClosingSenderInv, OtherStepsSenderInv DEF RunDueEvent
<1>3. CASE ReceiveAtServer
  BY <1>1, <1>3, ReceiveAckPacketSenderInv, ClosingSenderInv, OtherStepsSenderInv
     DEF ReceiveAtServer
<1>4. CASE ReceiveAtClient
  BY <1>1, <1>4, ReceiveSynAckPacketSenderInv, ReceiveAckPacketSenderInv,
     ClosingSenderInv DEF ReceiveAtClient
<1>5. CASE FireTimer
  BY <1>5, TimeoutSenderInv, ClosingSenderInv, OtherStepsSenderInv DEF FireTimer
<1>6. CASE Lose \/ UNCHANGED vars
  BY <1>6, OtherStepsSenderInv
<1> QED
  BY <1>2, <1>3, <1>4, <1>5, <1>6 DEF Next

SessionInv == TimerInv /\ SenderInv

LEMMA SessionInvariance == Spec => []SessionInv
<1>1. Init => SessionInv
  BY InitTimerInv, InitSenderInv DEF SessionInv
<1>2. SessionInv /\ [Next]_vars => SessionInv'
  BY NextTimerInv, NextSenderInv DEF SessionInv, TimerInv
<1> QED
  BY <1>1, <1>2, PTL DEF Spec

(***************************************************************************)
(* The send buffer holds one entry for each number from SND.UNA up to      *)
(* SND.NXT, in order, for as long as the client is established: for any    *)
(* window smaller than the sequence space, wherever the numbers wrap,      *)
(* whatever is acknowledged, resent or given up (queueSentSegment,         *)
(* acknowledgeAndGetRtt, markRetransmitted).                               *)
(***************************************************************************)
THEOREM SendBufferAlwaysExact == Spec => []SendBufferExact
<1>1. SessionInv => SendBufferExact
  BY DEF SessionInv, SenderInv
<1> QED
  BY <1>1, SessionInvariance, PTL

(***************************************************************************)
(* The client never has more outstanding than its send window, nor more    *)
(* entries buffered than numbers outstanding (canSend).                    *)
(***************************************************************************)
THEOREM WindowAlwaysRespected == Spec => []WindowRespected
<1>1. SessionInv => WindowRespected
  <2> SUFFICES ASSUME SessionInv PROVE WindowRespected
    OBVIOUS
  <2>1. conn["client"] \in Connection
    BY DEF SessionInv, TimerInv, TypeInv, TypeOK, Endpoint
  <2>2. InFlight(conn["client"]) \in Nat
    BY <2>1, InFlightType, SeqSizeAssumption DEF SeqNumber
  <2> QED
    BY <2>2 DEF SessionInv, SenderInv, SendBufferExact, WindowRespected
<1> QED
  BY <1>1, SessionInvariance, PTL

=============================================================================
