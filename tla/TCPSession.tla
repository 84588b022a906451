----------------------------- MODULE TCPSession -----------------------------
(***************************************************************************)
(* One TCP session of the simulator, from startTCPConnection to the end:   *)
(* its two connections, the packets on their way between them, and the     *)
(* engine events scheduled for it.  Each action is the execute() of one    *)
(* event class, or one case of the switch in PacketReceivedEvent::execute. *)
(*                                                                         *)
(* The engine runs one event at a time, in order of timestamp and then of  *)
(* scheduling.  Events scheduled for the current instant are therefore     *)
(* taken in the order they were scheduled (due).  Arrivals and timers may  *)
(* come at any time: link delays, queueing and the RTO are arbitrary.      *)
(*                                                                         *)
(* PacketUtils::sendPacketThroughTopology ends in one of three ways.  It   *)
(* returns false (no route, link down, queue full, or dropped on the first *)
(* link): the sender knows.  It returns true and a later hop loses the     *)
(* packet: nobody is told.  Or the packet arrives.                         *)
(***************************************************************************)
EXTENDS TCPConnection, SequencesExt

CONSTANTS
  PacketsPerRoute,  \* kPacketsPerRoute: DATA packets the session generates
  ClientISNs,       \* initial sequence numbers Random::nextUint32 may give
  Reordering,       \* may packets overtake each other (a route changed)?
  MaxRefusals,      \* bound: sends refused on the first hop
  MaxLosses         \* bound: packets lost on a later hop

ASSUME SessionAssumption ==
  /\ PacketsPerRoute \in Nat \ {0}
  /\ ClientISNs \subseteq SeqNumber
  /\ Reordering \in BOOLEAN
  /\ MaxRefusals \in Nat
  /\ MaxLosses \in Nat

\* 20 packets, numbered modulo 2^32: a stream never comes round to its start.
ASSUME StreamAssumption == PacketsPerRoute < SeqSize

Endpoint == {"client", "server"}

Peer(e) == IF e = "client" THEN "server" ELSE "client"

DueEvent == [type : {"handshake", "generate", "close", "retransmit",
                     "fastRetransmit"},
             seq : SeqNumber]

VARIABLES
  conn,            \* the TCPConnection of each endpoint
  net,             \* net[e]: the packets on their way to endpoint e
  due,             \* events scheduled for the current instant, in order
  synTimer,        \* is a TCPHandshakeTimeoutEvent scheduled?
  dataTimers,      \* dataTimers[s]: TCPTimeoutEvents scheduled for segment s
  delayedAcks,     \* acknowledgement numbers of scheduled TCPDelayedAckEvents
  timeWaitTimer,   \* is a TCPTimeWaitTimeoutEvent scheduled?
  packetsSent,     \* TCPSession::packets_sent
  generated,       \* TCPSession::traffic_generated_
  closeRequested,  \* TCPSession::close_requested
  refusals,        \* sends refused so far
  losses,          \* packets lost on the way so far
  arrived,         \* history: DATA numbers the server has accepted
  unarmed          \* history: segments whose retransmission was refused

sessionVars == <<packetsSent, generated, closeRequested>>
timerVars == <<synTimer, dataTimers, delayedAcks, timeWaitTimer>>
historyVars == <<arrived, unarmed>>
vars == <<conn, net, due, timerVars, sessionVars, refusals, losses, historyVars>>

TotalPackets == IF generated THEN PacketsPerRoute ELSE 0

IsComplete == packetsSent = TotalPackets

\* getState() = ESTABLISHED: of the aggregate rules only the first one is
\* ever tested by the engine.
BothEstablished == \A e \in Endpoint : IsEstablished(conn[e])

Event(type) == [type |-> type, seq |-> 0]
EventFor(type, s) == [type |-> type, seq |-> s]

\* The event at the head of the queue is of this type, and is consumed.
Due(type) == due # <<>> /\ Head(due).type = type

-----------------------------------------------------------------------------
(* Sending. *)

\* The segment, if the first hop took it.
Taken(segment, ok) == IF ok THEN <<segment>> ELSE <<>>

\* The first hop refuses n more sends.
Refuse(n) == /\ refusals + n <= MaxRefusals
             /\ refusals' = refusals + n

Transmit(e, segment, ok) ==
  /\ net' = [net EXCEPT ![e] = @ \o Taken(segment, ok)]
  /\ Refuse(IF ok THEN 0 ELSE 1)

\* The i-th packet on its way to e is a segment of this type and arrives.
Arrives(e, i, type) ==
  /\ i \in DOMAIN net[e]
  /\ i = 1 \/ Reordering
  /\ net[e][i].type = type

\* It is consumed, and these segments leave for the other endpoint.
Consume(e, i, replies) ==
  net' = [net EXCEPT ![e] = RemoveAt(@, i), ![Peer(e)] = @ \o replies]

Init ==
  /\ conn = [e \in Endpoint |-> NewConnection]
  /\ net = [e \in Endpoint |-> <<>>]
  /\ due = <<Event("handshake")>>
  /\ synTimer = FALSE
  /\ dataTimers = [s \in SeqNumber |-> 0]
  /\ delayedAcks = {}
  /\ timeWaitTimer = FALSE
  /\ packetsSent = 0
  /\ generated = FALSE
  /\ closeRequested = FALSE
  /\ refusals = 0
  /\ losses = 0
  /\ arrived = {}
  /\ unarmed = {}

\* TCPHandshakeEvent: the timer is armed only if the first hop took the SYN.
HandshakeEvent ==
  /\ Due("handshake")
  /\ due' = Tail(due)
  /\ \E isn \in ClientISNs, ok \in BOOLEAN :
       LET client == SendSyn(conn["client"], isn)
       IN  /\ conn' = [conn EXCEPT !["client"] = client]
           /\ Transmit("server", BuildSyn(client), ok)
           /\ synTimer' = ok
  /\ UNCHANGED <<dataTimers, delayedAcks, timeWaitTimer, sessionVars, losses,
                 historyVars>>

\* Mutant: the timeout does not look whether the handshake is still pending.
AwaitsSynAckAlways(c) == TRUE

AwaitsSynAck(c) == c.state = "SYN_SENT"

\* TCPHandshakeTimeoutEvent past SYN_SENT, or with no retry left: just ends.
HandshakeTimeoutIgnored ==
  /\ synTimer
  /\ \/ ~ AwaitsSynAck(conn["client"])
     \/ conn["client"].synRetries >= MaxSynRetries
  /\ synTimer' = FALSE
  /\ UNCHANGED <<conn, net, due, dataTimers, delayedAcks, timeWaitTimer,
                 sessionVars, refusals, losses, historyVars>>

HandshakeTimeout ==
  /\ synTimer
  /\ AwaitsSynAck(conn["client"])
  /\ conn["client"].synRetries < MaxSynRetries
  /\ conn' = [conn EXCEPT !["client"].synRetries = @ + 1]
  /\ \E ok \in BOOLEAN : /\ Transmit("server", BuildSyn(conn["client"]), ok)
                         /\ synTimer' = ok
  /\ UNCHANGED <<due, dataTimers, delayedAcks, timeWaitTimer, sessionVars,
                 losses, historyVars>>

-----------------------------------------------------------------------------
(* Data: PacketGenerationEvent, the retransmission timer and its events. *)

\* The chain of generation events ends for good when the session is not
\* established, is complete, has no room in the send window, or when the
\* first hop refuses the packet: nothing reschedules it.
GenerationEnds ==
  /\ Due("generate")
  /\ due' = Tail(due)
  /\ \/ /\ ~ BothEstablished \/ IsComplete \/ ~ CanSend(conn["client"])
        /\ UNCHANGED <<net, refusals>>
     \/ /\ BothEstablished /\ ~ IsComplete /\ CanSend(conn["client"])
        /\ Transmit("server", BuildData(conn["client"], conn["client"].seq), FALSE)
  /\ UNCHANGED <<conn, timerVars, sessionVars, losses, historyVars>>

\* The timer is armed by the first segment outstanding only.
PacketGeneration ==
  LET client == conn["client"] IN
  /\ Due("generate")
  /\ BothEstablished
  /\ ~ IsComplete
  /\ CanSend(client)
  /\ Transmit("server", BuildData(client, client.seq), TRUE)
  /\ conn' = [conn EXCEPT !["client"] = QueueSentSegment(client)]
  /\ dataTimers' = IF HasOutstanding(client)
                     THEN dataTimers
                     ELSE [dataTimers EXCEPT ![client.seq] = @ + 1]
  /\ packetsSent' = packetsSent + 1
  /\ due' = IF packetsSent' = TotalPackets
              THEN Tail(due)
              ELSE Append(Tail(due), Event("generate"))
  /\ UNCHANGED <<synTimer, delayedAcks, timeWaitTimer, generated,
                 closeRequested, losses, historyVars>>

\* TCPTimeoutEvent for segment s.  The backed-off RTO only dates timers.
Timeout(s) ==
  LET client == conn["client"]
      expires == /\ HasOutstandingSegment(client, s)
                 /\ OldestOutstanding(client) = s
  IN
  /\ dataTimers[s] > 0
  /\ dataTimers' = [dataTimers EXCEPT ![s] = @ - 1]
  /\ conn' = IF expires /\ ~ CanRetransmit(client, s)
               THEN [conn EXCEPT !["client"] = FailRetransmission(client)]
               ELSE conn
  /\ due' = IF expires /\ CanRetransmit(client, s) /\ IsEstablished(client)
              THEN Append(due, EventFor("retransmit", s))
              ELSE due
  /\ UNCHANGED <<net, synTimer, delayedAcks, timeWaitTimer, sessionVars,
                 refusals, losses, historyVars>>

\* Mutant: the retransmitted segment gets no timer.
TimersAfterResendNone(s, ok) == dataTimers

TimersAfterResend(s, ok) ==
  [dataTimers EXCEPT ![s] = IF ok THEN @ + 1 ELSE @]

\* What TCPRetransmissionEvent and TCPFastRetransmitEvent share: segment s is
\* sent again and a timer armed, unless the first hop refuses it.
Resend(s) ==
  \E ok \in BOOLEAN :
    /\ conn' = [conn EXCEPT !["client"] = MarkSegmentRetransmitted(@, s)]
    /\ Transmit("server", BuildData(conn["client"], s), ok)
    /\ dataTimers' = TimersAfterResend(s, ok)
    /\ unarmed' = IF ok THEN unarmed ELSE unarmed \union {s}

\* The segment has been retransmitted as often as it may be.
GiveUp ==
  /\ conn' = [conn EXCEPT !["client"] = FailRetransmission(@)]
  /\ UNCHANGED <<net, dataTimers, refusals, unarmed>>

\* Mutant: the state is not tested again.
ResendableInAnyState(c, s) == HasOutstandingSegment(c, s)

\* Is a queued retransmission of segment s still to be done?
Resendable(c, s) == HasOutstandingSegment(c, s) /\ IsEstablished(c)

\* TCPRetransmissionEvent: everything is tested again, for an acknowledgement
\* or another timer may have come in between.
Retransmission ==
  LET s == Head(due).seq
      client == conn["client"]
      live == Resendable(client, s)
  IN
  /\ Due("retransmit")
  /\ due' = Tail(due)
  /\ \/ ~ live /\ UNCHANGED <<conn, net, dataTimers, refusals, unarmed>>
     \/ live /\ ~ CanRetransmit(client, s) /\ GiveUp
     \/ live /\ CanRetransmit(client, s) /\ Resend(s)
  /\ UNCHANGED <<synTimer, delayedAcks, timeWaitTimer, sessionVars, losses,
                 arrived>>

\* TCPFastRetransmitEvent: the oldest outstanding segment at that moment.
FastRetransmit ==
  LET client == conn["client"]
      live == IsEstablished(client) /\ HasOutstanding(client)
      s == OldestOutstanding(client)
  IN
  /\ Due("fastRetransmit")
  /\ due' = Tail(due)
  /\ \/ ~ live /\ UNCHANGED <<conn, net, dataTimers, refusals, unarmed>>
     \/ live /\ ~ CanRetransmit(client, s) /\ GiveUp
     \/ live /\ CanRetransmit(client, s) /\ Resend(s)
  /\ UNCHANGED <<synTimer, delayedAcks, timeWaitTimer, sessionVars, losses,
                 arrived>>

-----------------------------------------------------------------------------
(* Arrivals: the cases of PacketReceivedEvent::execute at the destination. *)

ReceiveSynPacket(i) ==
  LET server == conn["server"]
      syn == net["server"][i] IN
  /\ Arrives("server", i, "SYN")
  /\ \/ /\ ~ Accepts(OnSynReceived, server.state)
        /\ Consume("server", i, <<>>)
        /\ UNCHANGED <<conn, refusals>>
     \/ /\ Accepts(OnSynReceived, server.state)
        /\ conn' = [conn EXCEPT !["server"] = ReceiveSyn(@, syn.seq)]
        /\ \E ok \in BOOLEAN :
             /\ Consume("server", i, Taken(BuildSynAck(conn'["server"]), ok))
             /\ Refuse(IF ok THEN 0 ELSE 1)
  /\ UNCHANGED <<due, timerVars, sessionVars, losses, historyVars>>

ReceiveSynAckPacket(i) ==
  LET client == conn["client"]
      synAck == net["client"][i] IN
  /\ Arrives("client", i, "SYN_ACK")
  /\ \/ /\ ~ AcceptsSynAck(client, synAck.ack)
        /\ Consume("client", i, <<>>)
        /\ UNCHANGED <<conn, refusals>>
     \/ /\ AcceptsSynAck(client, synAck.ack)
        /\ conn' = [conn EXCEPT !["client"] =
                      ReceiveSynAck(@, synAck.seq, synAck.ack)]
        /\ \E ok \in BOOLEAN :
             /\ Consume("client", i, Taken(BuildAck(conn'["client"]), ok))
             /\ Refuse(IF ok THEN 0 ELSE 1)
  /\ UNCHANGED <<due, timerVars, sessionVars, losses, historyVars>>

\* Mutant: the next segment outstanding gets no timer.
TimersAfterAckNone(accepted, c) == dataTimers

\* An accepted ACK arms a timer for the oldest segment still outstanding,
\* whatever timers it has already; c is the connection after the ACK.
TimersAfterAck(accepted, c) ==
  IF accepted /\ HasOutstanding(c)
    THEN [dataTimers EXCEPT ![OldestOutstanding(c)] = @ + 1]
    ELSE dataTimers

\* Traffic starts, and the close is
\* requested, on the arrival of an ACK at either end.
ReceiveAckPacket(e, i) ==
  LET ack == net[e][i].ack
      observed == ReceiveAck(conn[e], ack)
      fast == ShouldFastRetransmit(observed)
      starts == BothEstablished' /\ ~ generated
      closes == BothEstablished' /\ generated /\ IsComplete /\ ~ closeRequested
  IN
  /\ Arrives(e, i, "ACK")
  /\ Consume(e, i, <<>>)
  /\ conn' = [conn EXCEPT ![e] = IF fast THEN ResetLossDetection(observed)
                                         ELSE observed]
  /\ dataTimers' = TimersAfterAck(AcceptsAck(conn[e], ack), observed)
  /\ generated' = (generated \/ starts)
  /\ closeRequested' = (closeRequested \/ closes)
  /\ due' = due \o (IF fast   THEN <<Event("fastRetransmit")>> ELSE <<>>)
                \o (IF starts THEN <<Event("generate")>> ELSE <<>>)
                \o (IF closes THEN <<Event("close")>> ELSE <<>>)
  /\ UNCHANGED <<synTimer, delayedAcks, timeWaitTimer, packetsSent, refusals,
                 losses, historyVars>>

\* Data that receive_data rejects is not acknowledged, a copy of something
\* already consumed included.
ReceiveDataRejected(i) ==
  /\ Arrives("server", i, "DATA")
  /\ ~ AcceptsData(conn["server"], net["server"][i].seq)
  /\ Consume("server", i, <<>>)
  /\ UNCHANGED <<conn, due, timerVars, sessionVars, refusals, losses, historyVars>>

\* Out of order, or in order while an acknowledgement is pending: ACK now.
ReceiveDataAcked(i) ==
  LET server == conn["server"]
      s == net["server"][i].seq IN
  /\ Arrives("server", i, "DATA")
  /\ AcceptsData(server, s)
  /\ s # server.expected \/ server.delayedAck
  /\ conn' = [conn EXCEPT !["server"] = [ReceiveData(@, s) EXCEPT
                                            !.delayedAck = FALSE]]
  /\ \E ok \in BOOLEAN :
       /\ Consume("server", i, Taken(BuildAck(conn'["server"]), ok))
       /\ Refuse(IF ok THEN 0 ELSE 1)
  /\ arrived' = arrived \union {s}
  /\ UNCHANGED <<due, timerVars, sessionVars, losses, unarmed>>

\* In order with no acknowledgement pending: the ACK is put off.
ReceiveDataDelayed(i) ==
  LET server == conn["server"]
      s == net["server"][i].seq IN
  /\ Arrives("server", i, "DATA")
  /\ AcceptsData(server, s)
  /\ s = server.expected
  /\ ~ server.delayedAck
  /\ conn' = [conn EXCEPT !["server"] = [ReceiveData(@, s) EXCEPT
                                            !.delayedAck = TRUE]]
  /\ delayedAcks' = delayedAcks \union {conn'["server"].expected}
  /\ Consume("server", i, <<>>)
  /\ arrived' = arrived \union {s}
  /\ UNCHANGED <<due, synTimer, dataTimers, timeWaitTimer, sessionVars,
                 refusals, losses, unarmed>>

\* TCPDelayedAckEvent scheduled with acknowledgement number a.
DelayedAckIgnored(a) ==
  LET server == conn["server"] IN
  /\ a \in delayedAcks
  /\ ~ IsEstablished(server) \/ ~ server.delayedAck
  /\ delayedAcks' = delayedAcks \ {a}
  /\ UNCHANGED <<conn, net, due, synTimer, dataTimers, timeWaitTimer,
                 sessionVars, refusals, losses, historyVars>>

\* RCV.NXT moved since: the pending acknowledgement is dropped, not sent.
DelayedAckObsolete(a) ==
  LET server == conn["server"] IN
  /\ a \in delayedAcks
  /\ IsEstablished(server) /\ server.delayedAck /\ server.expected # a
  /\ delayedAcks' = delayedAcks \ {a}
  /\ conn' = [conn EXCEPT !["server"].delayedAck = FALSE]
  /\ UNCHANGED <<net, due, synTimer, dataTimers, timeWaitTimer, sessionVars,
                 refusals, losses, historyVars>>

DelayedAckSent(a) ==
  LET server == conn["server"] IN
  /\ a \in delayedAcks
  /\ IsEstablished(server) /\ server.delayedAck /\ server.expected = a
  /\ delayedAcks' = delayedAcks \ {a}
  /\ conn' = [conn EXCEPT !["server"].delayedAck = FALSE]
  /\ \E ok \in BOOLEAN : Transmit("client", BuildAck(server), ok)
  /\ UNCHANGED <<due, synTimer, dataTimers, timeWaitTimer, sessionVars, losses,
                 historyVars>>

-----------------------------------------------------------------------------
(* Closing. *)

\* TCPConnectionCloseEvent: nothing retransmits this FIN.
ConnectionClose ==
  LET client == conn["client"] IN
  /\ Due("close")
  /\ due' = Tail(due)
  /\ \/ ~ IsEstablished(client) /\ UNCHANGED <<conn, net, refusals>>
     \/ /\ IsEstablished(client)
        /\ conn' = [conn EXCEPT !["client"] = SendFin(@)]
        /\ \E ok \in BOOLEAN : Transmit("server", BuildFin(client), ok)
  /\ UNCHANGED <<timerVars, sessionVars, losses, historyVars>>

\* Mutant: the TIME_WAIT timer is not scheduled.
EntersTimeWaitNever(c) == FALSE

EntersTimeWait(c) == c.state = "TIME_WAIT"

\* The passive closer sends its own FIN at once, behind the ACK.
ReceiveFinPacket(e, i) ==
  LET fin == net[e][i]
      received == ReceiveFin(conn[e], fin.seq)
      answers == received.state = "CLOSE_WAIT"
      after == IF answers THEN SendFin(received) ELSE received
      client == IF e = "client" THEN received ELSE conn["client"]
  IN
  /\ Arrives(e, i, "FIN")
  /\ \/ /\ ~ Accepts(OnPeerFin, conn[e].state)
        /\ Consume(e, i, <<>>)
        /\ UNCHANGED <<conn, timeWaitTimer, refusals>>
     \/ /\ Accepts(OnPeerFin, conn[e].state)
        /\ conn' = [conn EXCEPT ![e] = after]
        /\ timeWaitTimer' = (timeWaitTimer \/ EntersTimeWait(client))
        /\ \E ackOk \in BOOLEAN, finOk \in (IF answers THEN BOOLEAN ELSE {FALSE}) :
             /\ Consume(e, i, Taken(BuildAck(received), ackOk)
                              \o Taken(BuildFin(after), finOk))
             /\ Refuse((IF ackOk THEN 0 ELSE 1)
                       + (IF answers /\ ~ finOk THEN 1 ELSE 0))
  /\ UNCHANGED <<due, synTimer, dataTimers, delayedAcks, sessionVars, losses,
                 historyVars>>

\* TCPTimeWaitTimeoutEvent.
TimeWaitTimeout ==
  /\ timeWaitTimer
  /\ timeWaitTimer' = FALSE
  /\ conn' = IF Accepts(OnTimeWaitDone, conn["client"].state)
               THEN [conn EXCEPT !["client"] = ExpireTimeWait(@)]
               ELSE conn
  /\ UNCHANGED <<net, due, synTimer, dataTimers, delayedAcks, sessionVars,
                 refusals, losses, historyVars>>

-----------------------------------------------------------------------------

\* A later hop refuses the packet: it is counted lost and gone.
LoseInTransit(e, i) ==
  /\ losses < MaxLosses
  /\ i \in DOMAIN net[e]
  /\ losses' = losses + 1
  /\ net' = [net EXCEPT ![e] = RemoveAt(@, i)]
  /\ UNCHANGED <<conn, due, timerVars, sessionVars, refusals, historyVars>>

RunDueEvent ==
  \/ HandshakeEvent \/ GenerationEnds \/ PacketGeneration
  \/ Retransmission \/ FastRetransmit \/ ConnectionClose

ReceiveAtServer ==
  \E i \in DOMAIN net["server"] :
    \/ ReceiveSynPacket(i)
    \/ ReceiveAckPacket("server", i)
    \/ ReceiveDataRejected(i) \/ ReceiveDataAcked(i) \/ ReceiveDataDelayed(i)
    \/ ReceiveFinPacket("server", i)

ReceiveAtClient ==
  \E i \in DOMAIN net["client"] :
    \/ ReceiveSynAckPacket(i)
    \/ ReceiveAckPacket("client", i)
    \/ ReceiveFinPacket("client", i)

FireTimer ==
  \/ HandshakeTimeoutIgnored \/ HandshakeTimeout \/ TimeWaitTimeout
  \/ \E s \in SeqNumber : Timeout(s)
  \/ \E a \in SeqNumber :
       DelayedAckIgnored(a) \/ DelayedAckObsolete(a) \/ DelayedAckSent(a)

Lose == \E e \in Endpoint : \E i \in DOMAIN net[e] : LoseInTransit(e, i)

Next == RunDueEvent \/ ReceiveAtServer \/ ReceiveAtClient \/ FireTimer \/ Lose

Spec == Init /\ [][Next]_vars

-----------------------------------------------------------------------------

TypeOK ==
  /\ conn \in [Endpoint -> Connection]
  /\ net \in [Endpoint -> Seq(Segment)]
  /\ due \in Seq(DueEvent)
  /\ synTimer \in BOOLEAN
  /\ dataTimers \in [SeqNumber -> Nat]
  /\ delayedAcks \subseteq SeqNumber
  /\ timeWaitTimer \in BOOLEAN
  /\ packetsSent \in 0 .. PacketsPerRoute
  /\ generated \in BOOLEAN
  /\ closeRequested \in BOOLEAN
  /\ refusals \in 0 .. MaxRefusals
  /\ losses \in 0 .. MaxLosses
  /\ arrived \subseteq SeqNumber
  /\ unarmed \subseteq SeqNumber

(***************************************************************************)
(* Data the client takes off its send buffer has been consumed by the      *)
(* server, and the server acknowledges nothing that was not sent: around   *)
(* the sequence space, SND.UNA, RCV.NXT and SND.NXT come in that order for *)
(* as long as the client is established, whatever is lost, refused,        *)
(* retransmitted, delayed or reordered (receive_ack, receive_data).        *)
(***************************************************************************)
AckSoundness ==
  IsEstablished(conn["client"]) =>
    (conn["server"].expected - conn["client"].una) % SeqSize
      <= InFlight(conn["client"])

(***************************************************************************)
(* While the server is established, what it has accepted is exactly the    *)
(* stream up to RCV.NXT, consumed once, and what its receive buffer holds, *)
(* however duplicates, holes and retransmissions interleave: a cumulative  *)
(* acknowledgement never covers a missing segment, and nothing accepted is *)
(* dropped or left behind (TCPReceiveBuffer::push and consumeContiguous).  *)
(* A stream whose numbers wrap is left out: there a segment consumed       *)
(* before is taken again (ConsumedRejected, below).                        *)
(***************************************************************************)
DeliveredExactly ==
  LET server == conn["server"]
      first == (conn["client"].seq - packetsSent) % SeqSize
      length == (server.expected - first) % SeqSize
      consumed == {(first + k) % SeqSize : k \in 0 .. length - 1}
      wraps == first + PacketsPerRoute >= SeqSize
  IN  generated /\ IsEstablished(server) /\ ~ wraps =>
        /\ arrived = consumed \union server.rcvBuf
        /\ consumed \intersect server.rcvBuf = {}

(***************************************************************************)
(* While the client is established its send buffer holds one entry for     *)
(* each number from SND.UNA up to SND.NXT, in order (queueSentSegment,     *)
(* acknowledgeAndGetRtt): a retransmission never finds a hole.             *)
(***************************************************************************)
SendBufferExact ==
  LET client == conn["client"] IN
  IsEstablished(client) =>
    /\ Len(client.sendBuf) = InFlight(client)
    /\ \A i \in DOMAIN client.sendBuf :
         client.sendBuf[i].seq = (client.una + i - 1) % SeqSize

\* A timer for s is scheduled, or has expired and s is about to be resent.
Armed(s) ==
  \/ dataTimers[s] > 0
  \/ \E i \in DOMAIN due : due[i] = EventFor("retransmit", s)

(***************************************************************************)
(* The client never has more outstanding than its send window, nor more    *)
(* entries buffered than numbers outstanding (canSend is tested before the *)
(* segment is queued, and acknowledgements come in between).               *)
(***************************************************************************)
WindowRespected ==
  LET client == conn["client"] IN
  IsEstablished(client) =>
    Len(client.sendBuf) <= InFlight(client) /\ InFlight(client) <= SendWindow

(***************************************************************************)
(* An established client with data outstanding always has a timer running  *)
(* for the oldest segment: the only way to lose it is a retransmission     *)
(* that the first hop refused, which TCPRetransmissionEvent does not       *)
(* reschedule.  Nothing else, in any order of timeouts, fast retransmits   *)
(* and acknowledgements, leaves data waiting for good.                     *)
(***************************************************************************)
TimerCoverage ==
  LET client == conn["client"] IN
  IsEstablished(client) /\ HasOutstanding(client)
    /\ OldestOutstanding(client) \notin unarmed
    => Armed(OldestOutstanding(client))

\* The DATA packets on their way to the server.
DataToServer == {i \in DOMAIN net["server"] : net["server"][i].type = "DATA"}

(***************************************************************************)
(* No DATA leaves the client once it has left ESTABLISHED: a timeout or a  *)
(* fast retransmit already in the event queue when the FIN goes out, or    *)
(* when the connection fails, sends nothing (the isEstablished tests of    *)
(* TCPRetransmissionEvent and TCPFastRetransmitEvent).                     *)
(***************************************************************************)
NoDataAfterClose ==
  [][~ IsEstablished(conn["client"])
       => Cardinality(DataToServer') <= Cardinality(DataToServer)]_vars

(***************************************************************************)
(* A server connection that has been through to CLOSED stays there: no SYN *)
(* the client retransmitted is left to open it again (receive_syn accepts  *)
(* a SYN in CLOSED).  Server numbers start at 0 and leave it when the      *)
(* handshake ends.                                                         *)
(***************************************************************************)
ServerStaysClosed ==
  [][conn["server"].state = "CLOSED" /\ conn["server"].seq # 0
       => conn'["server"].state = "CLOSED"]_vars

-----------------------------------------------------------------------------
(* What the repository says of a session, and the code does not do.        *)

\* The engine's queue is empty: SimulationEngine::run returns.
Quiescent ==
  /\ due = <<>>
  /\ ~ synTimer /\ ~ timeWaitTimer
  /\ delayedAcks = {}
  /\ \A s \in SeqNumber : dataTimers[s] = 0
  /\ \A e \in Endpoint : net[e] = <<>>

(***************************************************************************)
(* An endpoint that consumed DATA generates an ACK (docs/tcp_design.md,    *)
(* section 5): while both ends are established the acknowledgement of what *)
(* was consumed has reached the client, is on its way to it, or is pending *)
(* with the delayed-ACK flag.  Stated without loss or refusal.             *)
(***************************************************************************)
AcknowledgementOwed ==
  LET server == conn["server"] IN
  BothEstablished =>
    \/ conn["client"].una = server.expected
    \/ server.delayedAck
    \/ \E i \in DOMAIN net["client"] :
         net["client"][i].type = "ACK" /\ net["client"][i].ack = server.expected

(***************************************************************************)
(* The SYN handshake timeout exhausts retries and declares the session     *)
(* failed (Topology.hpp, policy item 4): no session is left in SYN_SENT    *)
(* with all its retries used and nothing scheduled.                        *)
(***************************************************************************)
HandshakeFailureDeclared ==
  Quiescent /\ conn["client"].synRetries = MaxSynRetries
    => conn["client"].state # "SYN_SENT"

(***************************************************************************)
(* The session does not remain in an active connection state when the      *)
(* simulation has finished (EndToEndSimulationTests.cpp).  Stated without  *)
(* loss or refusal.                                                        *)
(***************************************************************************)
NotLeftActive ==
  Quiescent => conn["client"].state \in {"TIME_WAIT", "CLOSED"}

(***************************************************************************)
(* The receive buffer rejects already consumed segments                    *)
(* (TCPBufferTests.cpp): no number enters it that was accepted before.     *)
(***************************************************************************)
ConsumedRejected ==
  [][(conn'["server"].rcvBuf \ conn["server"].rcvBuf) \intersect arrived = {}]_vars

-----------------------------------------------------------------------------
(* Progress.  The engine pops events until its queue is empty              *)
(* (SimulationEngine::run), so some scheduled event is always run next;    *)
(* losing a packet is never owed to anybody.                               *)

RunEvent == RunDueEvent \/ ReceiveAtServer \/ ReceiveAtClient \/ FireTimer

FairSpec == Spec /\ WF_vars(RunEvent)

\* Nothing has been lost or refused so far.
Undisturbed == losses + refusals = 0

(***************************************************************************)
(* Once both ends are established the client does not stay so for ever: it *)
(* closes when everything was sent, or gives up after the last permitted   *)
(* retransmission.  This holds whatever packets are lost, unless the first *)
(* hop refuses one, which ends a chain of events for good.                 *)
(***************************************************************************)
LeavesEstablished ==
  BothEstablished ~> ~ IsEstablished(conn["client"]) \/ refusals > 0

(***************************************************************************)
(* With nothing lost and nothing refused the handshake completes, even if  *)
(* the SYN timer expires while the answer is on its way and the SYN is     *)
(* sent again (TCPHandshakeTimeoutEvent).                                  *)
(***************************************************************************)
HandshakeCompletes == <>(BothEstablished \/ ~ Undisturbed)

(***************************************************************************)
(* With nothing lost and nothing refused the client always ends CLOSED, by *)
(* way of TIME_WAIT or because spurious timeouts exhausted the             *)
(* retransmissions.                                                        *)
(***************************************************************************)
ClientFinishes ==
  <>[](conn["client"].state = "CLOSED") \/ <>(~ Undisturbed)

(***************************************************************************)
(* With nothing lost and nothing refused a client that reached TIME_WAIT   *)
(* takes the server to CLOSED.                                             *)
(***************************************************************************)
TimeWaitFreesServer ==
  conn["client"].state = "TIME_WAIT"
    ~> conn["server"].state = "CLOSED" \/ ~ Undisturbed

=============================================================================
