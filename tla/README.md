# TLA+ models of the network simulator

This directory models GNS, a discrete-event network simulator whose nodes exchange
packets over links and run TCP sessions: its simulation core (`core/` of the
repository) and the loop of the window that drives it (`app/main.cpp`). The
specifications are translated from the C++ source; TLC checks them on small
instances and TLAPS proves most of the safety results for every value of the
constants. `PROJECT.json` names, for each definition, the lines it
translates; paths below are relative to the repository's root.

## 1. The system

### Components

| Component | State | Operations | What makes it correct |
|---|---|---|---|
| **Engine** `core/src/engine/core` | event queue ordered by (timestamp, id), clock, sessions, listeners, counters, `packets_in_transit` | `schedule`, `run`, `sendPacket`, `startTCPConnection`, `startTCPListen` | one event at a time, time never goes back; counters and packets in transit agree with the events scheduled |
| **Events** `core/src/engine/events` | timestamp and a few fields each | one `execute()` per class: handshake, SYN timeout, generation, data timeout, retransmission, fast retransmission, delayed ACK, close, TIME_WAIT, packet received | what was true when an event was scheduled is tested again when it runs |
| **TCP state machine** `TCPStateMachine.hpp` | one of eleven states | nine events | a refused event changes nothing |
| **TCP connection** `TCPConnection.cpp`, `buffer/`, `recovery/` | SND.NXT, SND.UNA, RCV.NXT, send and receive buffers, duplicate-ACK streak, delayed-ACK flag, SYN retries | handshake, send, acknowledge, retransmit, close | in-order exactly-once delivery, cumulative acknowledgements that cover no hole, exact buffers, windows |
| **TCP session** `TCPSession.cpp` | two connections, packets sent, close requested | driven by the events | the payloads are a reliable stream; nothing that is outstanding is forgotten; the session ends |
| **Listener** `TCPListener.cpp` | listening, backlog, active sessions | `accept`, `trackSession`, `untrackSession` | backlog respected, unique session numbers |
| **Link** `Link.cpp` | `busy_until` and queue of each direction, up/down | `canQueue`, `reserveTransmission`, `enqueueTransmission`, `dequeueTransmission` | one packet at a time per direction, bounded queues, no slot leaked or released twice |
| **Topology** `Topology.cpp` | nodes, links, identifiers | add and remove nodes and links, up/down | routing tables follow every change |
| **Routing** `Routing.cpp` | tables of next hops | Dijkstra under four metrics | best paths, and tables of different nodes that never send a packet round in a circle |
| **Congestion control** `transport/tcp/congestion` | `cwnd`, `ssthresh`, fast recovery | `onAck`, `onDuplicateAck`, `onRecoveryAck`, `onLoss`, `onFastRetransmit`, `reset` of Tahoe, Reno, NewReno, CUBIC | windows between a floor and 2^32 - 1, growth by a segment, a recovery that neither loses nor invents its threshold |
| **RTT, RTO** `transport/tcp/timer` | smoothed RTT, backoff | `onTimeout`, `onAcknowledgement`, `reset` | backoff bounded, Karn's rule |
| **Window loop** `app/main.cpp` | Ready / Running / Paused / Finished, visual time, packets on display, loss slider | frames; start, pause, resume, step, reset, drag, load | the state shown agrees with the queue, the display with the packets on the way, and the links' queues with the queue of the engine shown |

### How they interact

Everything runs on one thread. `SimulationEngine::run` pops the earliest event
and calls `execute()`, which calls into connections, links and topology and
schedules further events. The parts share state directly: a
`PacketReceivedEvent` reads the routing tables in force when it *runs*, not
those in force when the packet was sent; a retransmission event reads the send
buffer as the acknowledgements since have left it; a user request can remove a
link while packets are on it. A packet leaves by
`PacketUtils::sendPacketThroughTopology`, which has three outcomes: it returns
false (no route, link down, queue full, dropped on the first link) and the
caller knows; it returns true and a later hop loses the packet, and nobody is
told; or it arrives.

### What is hard

There is no preemption, but there is every problem of asynchrony: the order of
events is decided by delays, queueing and timeouts, so that between two events of
one chain any other may run. The list, with lines, is `hazards` in
`PROJECT.json`. The most important ones:

- events that act on state that moved since they were scheduled
  (`TCPTimeoutEvent`, `TCPRetransmissionEvent`, `TCPFastRetransmitEvent`,
  `TCPDelayedAckEvent`, `TCPHandshakeTimeoutEvent`);
- chains of events that end when one link of the chain returns early, with
  nobody left to restart them (generation, retransmission, SYN retry);
- loss, refusal and reordering of packets, and acknowledgements of duplicates;
- 32-bit sequence numbers compared as plain integers;
- packets in flight over links that change, fail or disappear; counters kept at
  several places of one path;
- each node computing its own shortest-path tree when paths tie, with packets
  that carry no hop limit;
- a congestion controller told of the same ACK by several calls, and of a loss by a
  timeout in the middle of a fast recovery;
- buttons, drags and loads that each set the state shown by a rule of their own,
  and a reset that replaces the engine but not the links it shared.

## 2. The modules

```
TCPStateMachine <- TCPConnection <- TCPSession <- TCPStream      (implements ReliableStream)
TCPSession, CongestionAlgorithms <- TCPCongestion
CongestionAlgorithms <- CongestionControl
TCPListener
Link <- Routing <- Network
Link <- SimulationControl

TCPSession <- TCPSessionProofs                                   (types, timers, buffer, window)
TCPStream, TCPSessionProofs <- TCPStreamProofs                   (what the stream delivers)
TCPCongestion, TCPStreamProofs, CongestionAlgorithmsProofs <- TCPCongestionProofs
CongestionAlgorithms <- CongestionAlgorithmsProofs
CongestionControl, CongestionAlgorithmsProofs <- CongestionProofs
Network <- NetworkProofs                                         (packets and slots, best routes without loops)
SimulationControl <- SimulationControlProofs
TCPListener <- TCPListenerProofs

MCTCPSession, MCTCPStream, MCTCPCongestion, MCCongestionControl, MCTCPListener,
MCNetwork, MCSimulationControl                                   (instances for TLC)
```

`TCPSession` and `Network` meet at `sendPacketThroughTopology`. `Network` models
its inside, hop by hop, and lets any node send at any time; `TCPSession`
abstracts it to "refused, lost or delivered". That packets between two nodes
keep their order on a route that does not change is `Network`'s `OneAtATime`
link by link; when a change of topology moves them to another route they can
overtake each other, which is `Reordering = TRUE` in `TCPSession`. `TCPCongestion`
composes a session with the sender's congestion controller and backoff.
`SimulationControl` uses the links of `Network` and keeps, of a session, that its
events schedule events and send packets.

### TCPStateMachine, TCPConnection

Each event of the state machine is a function whose domain is the set of states
that accept it. A connection is a record, each method of `TCPConnection` an
operator on it. Abstractions:

- All payloads of a session have one length, which is the unit of sequence
  numbers and windows. Numbers wrap at `SeqSize` (2^32 in the code) and are
  compared as the code does, as plain integers.
- RCV.NXT and the receive buffer's `next_sequence_` are one field, as every
  operation leaves them equal; so is the loss detector's `last_ack_` with
  SND.UNA.
- The congestion window and the backoff are in `TCPCongestion`: `canSend` reads
  the fixed send window only. The RTT estimator, which only dates timers, and the
  advertised window, which is written and never read, are left out.
- The send window is smaller than the sequence space (`WindowAssumption`; 65535
  and 2^32 in the code).

### TCPSession

Variables: `conn` (both connections), `net` (packets on their way to each end),
`due` (events scheduled for the current instant, a FIFO as ties go by event
identifier), the timers (`synTimer`, `dataTimers`, `delayedAcks`,
`timeWaitTimer`), `packetsSent`, `generated`, `closeRequested` of the session,
two bounded counters of failures, and two history variables for properties.

Each action is the `execute()` of one event class, or one case of
`PacketReceivedEvent::execute` at the destination; a class with several
outcomes is split by outcome (`GenerationEnds` / `PacketGeneration`,
`ReceiveDataRejected` / `ReceiveDataAcked` / `ReceiveDataDelayed`,
`DelayedAckIgnored` / `DelayedAckObsolete` / `DelayedAckSent`).

- Arrivals and timers may happen at any moment: this covers every delay,
  every RTO and every tie of timestamps, at the price of some orders that
  particular delays exclude.
- `TCPSession::state` is only written; the aggregate state of which the engine
  tests only ESTABLISHED is `BothEstablished`.
- Only the source sends data and requests the close, as in the code. The
  source differs from the destination, and there is at least one packet to send.
- The server's initial number is 0: nothing draws one for it.
- A stream is shorter than the sequence space (`StreamAssumption`; 20 packets,
  numbered modulo 2^32).
- A segment sent again carries whatever acknowledgement number it is built with;
  the receiver of DATA does not read it.
- `CHECK_DEADLOCK FALSE`: a simulation ends when no event is left.

### ReliableStream, TCPStream

`ReliableStream` is the promise: a stream of payloads delivered in order without
gaps or repetition, acknowledged only when delivered, ended once by the sender.
Only when the network has failed (`impaired`) may the end come before the last
payload. `TCPStream` gives the refinement mapping. The FIN of the code moves
RCV.NXT past whatever is missing (`receive_fin`), so after a loss the stream may
indeed be cut short; as long as nothing was lost or refused it may not.

### CongestionAlgorithms, CongestionControl, TCPCongestion

`CongestionAlgorithms` has the four algorithms as one record and one operator per
method of the `CongestionControl` interface. Where two implementations have the
same text they share an operator; where they differ the operator says which
algorithm does what. `CongestionControl` makes every sequence of calls the
interface allows, for each of them. `TCPCongestion` makes those calls a session
really makes: each of its actions is an action of `TCPSession` with what the same
handler tells the controller (`onAcknowledged`, `onSendTimeout`,
`onFastRetransmit`, and the `onDuplicateAck` that `PacketReceivedEvent` adds to
every ACK), the sample it records, and the backoff of `RTOManager`.

- Windows are integers that stop at `MaxWindow`, as the code's saturating
  additions do.
- CUBIC's growth past `ssthresh` is a formula in floating point; of it only "at
  least one byte" is kept, and any member of `CubicIncreases` may be added.
- The engine builds every connection with the default algorithm, Reno, and with a
  segment as large as the send window (`DEFAULT_CONGESTION_MSS`), so
  `TCPCongestion` assumes `Mss = SendWindow`. Its assumptions on the threshold
  and the largest window hold for 65535 and 2^32 - 1.
- The engine never calls `onRecoveryAck`: in a session only a timeout ends a fast
  recovery. `CongestionControl` has the call, as tests make it.
- The backoff is a power of two up to `MaxBackoff`; the round-trip time it
  multiplies is left out.

### SimulationControl

The loop of `visualizeWindow`. A frame that runs the simulation is `BeginFrame`
(the visual time advances), any number of `RunEvent` up to the cap, and `EndFrame`;
`Redraw` is a frame in which nothing runs. Each control is an action between
frames. `ProcessEvent` is what `Step` and `RunEvent` share: the earliest event, by
time and then by scheduling, is taken; a packet that arrives releases its slot;
the event may send a packet over the link between its two ends, which `canQueue`
may refuse and a lossy link drop, and may schedule a timer of its session.

- Topologies are given as their loading leaves them, with every link idle
  (`TopologiesAssumption`; the constructor of `Link`).
- Packets go one hop: the slots of a link are the subject, and `Network` has the
  routes. A session's decisions are free, which includes those of `TCPSession`.
- `links` are the shared `Link` objects: every copy of a topology, the engine's
  included, points to the same ones. `ResetEngine` leaves them as they are, which
  is what the code does; `abandoned` remembers how many slots each reset left
  occupied, for `SlotsHeld`.
- The loss slider is above zero or not. The speed slider changes how far the
  visual time moves in a frame, which here is any number of units;
  the packet size changes no decision but the times, which are kept constant.
- Two controls of one frame are two actions; nothing the model distinguishes
  happens between them.

### TCPListener

The registry of listeners and sessions: starting and stopping to listen,
changing the backlog, active openings, and the SYN of no known session, which a
listener accepts or which is answered with a RST. A session is open or closed;
how it closes is `TCPSession`'s subject.

### Link, Routing, Network

`Link` has the operators of one link: the slots of its duplex modes, the
reservation of `busy_until`, the queues. `Routing` has `buildDijkstra` turn by
turn, with the heap's order of ties by node number, `buildRoutingTable`, and as
reference an independent definition of best distances (Floyd and Warshall).
`Network` has the engine's part: sending, forwarding, delivering, the release of
the link, `packets_in_transit`, the counters, and every change of topology or
metric with the rebuilding of the tables.

- Time is an integer; packets have one size; a link of bandwidth b takes
  `PacketSize \div b` to transmit one. Every cost is an integer: `DelayBandwidth`
  is scaled by `PacketSize`.
- Arrivals run in exact order of (time, scheduling). A send or a change may come
  at any instant up to the next arrival, before or after other events of the
  same instant.
- A loss probability becomes a flag: a lossy link may drop any packet.
- Topologies, and the links that may be added, are idle when they are given, as
  the constructor of `Link` leaves them (`LinksAssumption`).
- Links keep their duplex mode (only tests call `setMode`). Dijkstra ignores the
  direction of a SIMPLEX link; a packet routed against it is refused by
  `canQueue`, here as in the code.
- Between two nodes joined by several links the first one that is up is taken,
  whatever the metric preferred.

## 3. The runs

| Run | Question | Instance |
|---|---|---|
| `session_fifo` | Is a session over a faulty route safe, does it leave ESTABLISHED, is it a reliable stream, and does it come to its end when nothing is lost? | 3 packets, 1 refusal, 2 losses, 1 SYN retry, 2 retransmissions, threshold of 2 duplicates, order kept; 133 000 states |
| `session_reorder` | Are buffers, windows, controller and backoff right when packets overtake each other, the window is full and numbers wrap? | 4 packets, window of 3, threshold of 2 duplicates, initial numbers 0 and 6 of 8, 1 retransmission, no loss; 1 052 000 states |
| `congestion` | Do the four algorithms keep their windows in order under any calls? | segment 4, threshold 13, largest window 47, byte counts around the segment size, the floor and the largest window; 5 200 states |
| `lifecycle` | Do state shown, queue, links and display agree whatever the user does? | no link, one full-duplex, one half-duplex link; queues of 1, 2 events per frame, 3 events per engine, 1 reset, 1 load; 780 000 states |
| `listener` | Backlogs and identifiers | 2 nodes (symmetric), 4 sessions, backlogs 0–2; 188 000 states |
| `network` | Queues, counters and packets in transit under changes of topology | 3 packets, 1 change, capacity 2, ring and triangle, two metrics; 451 000 states |
| `routing` | Routing tables after any three changes | ring and mesh of 5 nodes, four metrics; 4 800 states |
| `bug_*` | See section 6 | |

### What they show

**Session.** `AckSoundness`: SND.UNA, RCV.NXT and SND.NXT keep their order around
the sequence space while the client is established; no acknowledgement is of
something unsent and nothing is dropped from the send buffer that the server
lacks. `DeliveredExactly`: what the server accepted is the stream up to RCV.NXT,
once, plus its out-of-order buffer. `SendBufferExact`: the send buffer has one
entry per number outstanding. `WindowRespected`: never more outstanding than the
window. `TimerCoverage`: the oldest outstanding segment has a timer or a queued
retransmission unless the first hop refused to resend it.
`NoDataAfterClose`: events already queued when the client closes or fails send no
data. `ServerStaysClosed`: no retransmitted SYN reopens the server (on routes
that keep order: on others an old SYN does come after the close, and the server
does open again). `LeavesEstablished`, `HandshakeCompletes`, `ClientFinishes`,
`TimeWaitFreesServer`: progress, see section 4. `ImplementsStream`: the
refinement; it is checked on routes that keep order because a FIN that overtakes
data ends the stream early.

**Congestion.** In a session: `FlightFitsWindow`: what is outstanding fits the
congestion window although nothing compares the two, because the window never
falls below one segment and a segment is as large as the send window.
`HistoryCurrent`: out of fast recovery the last recorded sample is the window; in
it the history lags, for the handler's own `onDuplicateAck` takes no sample.
`RecoveryPinned`: every fast recovery has a threshold of two segments and a window
of five or more, for `onFastRetransmit` halves what is in flight, which is never
more than a segment. `KarnRule`: a backed-off timer is restored only by the
acknowledgement of a segment sent once. `CongestionTypeOK` includes the bound of
the backoff. Under any calls: `WindowFloor`: never below one segment, nor the
threshold below two. `RecoveryWindow`: Reno and CUBIC recover at or above the
threshold. `RecoveryRemembered`, `RecoveryThresholdKept`: NewReno keeps the
threshold it entered recovery with, and leaves recovery with it, by a timeout too.
`OpensBySegment`: no ACK opens a window by more than a segment (CUBIC excepted,
whose formula sets no such limit).

**Life cycle.** `EventsMatchState`: between frames the state is Running or Paused
exactly when there is an event. `SlotsHeld`: a queue holds the packets of the
current engine, and those a reset abandoned. `InFlightShown`: a packet is on
display from its departure's decision to its arrival, also when Step has run
ahead; it is about engines with an observer, which one made by Reset lacks.
`RunEnds`: a running simulation finishes unless the user stops it.

**Listener.** `BacklogRespected`: a listener with a full backlog takes no further
session. `TypeOK` includes that identifiers are given out once, in order, and that a
listener counts sessions of its own node only.

**Network.** `TransitExact`: `packets_in_transit` lists exactly the packets whose
arrival is scheduled. `SlotsExact`: each queue holds exactly the packets on the
link, in the order in which they were sent, and never more than its capacity.
`OneAtATime`: transmissions of one slot never overlap. `PacketsAccounted`:
each packet counted as sent is delivered, lost or under way; it bounds
`packets_lost` from below only, since a packet refused on a later hop is counted by
`sendPacket` and again by `PacketReceivedEvent`. `HopsBounded`: a packet makes at
most one way through the network per routing table in force, a safety form of
"every packet ends somewhere".

**Routing.** `RoutesBest`: next hops lie on best paths and exist exactly for the
nodes that can be reached. `NoRoutingLoops`: next hops of different nodes never
form a circle. It depends on ties in the heap being broken by node number: with
ties broken by order of pushing it fails on the ring (and for the code's order it is
proved, section 5).

### Why the bounds are enough

Three packets let a hole arise, be filled from the buffer and be followed by a
further segment, and let a delayed acknowledgement meet both an immediate one
and a third segment. Three outstanding segments give two duplicate acknowledgements,
so the threshold is 2 in these instances (3 in the code), and every outcome of a fast
retransmission occurs: one that finds nothing left to send, one that gives up, one that
sends, and a recovery that meets new acknowledgements or ends by a timeout.
`session_reorder` fills its window of 3 with a fourth packet waiting; it needs no
losses, for to a safety property a packet that others overtake for good is a lost one.
Two losses strike any two packets, a segment and its retransmission included; two
retransmissions let a segment be given up after a first success of another, and
one SYN retry lets an old SYN meet the new one. `SeqSize = 8` exceeds the numbers
a session uses, so that a number has one meaning in it; initial number 6 puts the
wrap in mid-transfer. In `congestion` the segment, the threshold and the largest
window have no common divisor, so that every rounding, floor and saturation occurs,
and a largest window of eleven segments takes few duplicates to reach. In
`lifecycle` three events are a handshake, an arrival and an answer or a timer; a
queue of one is full after one packet; a frame's cap of two defers the third; one
reset and one load come in either order. In `network` capacity 2 and three packets
fill a queue; the triangle has a parallel pair, a lossy, a half-duplex and a simplex
link, the ring has ties. `MaxTime` ends new sends and changes; packets under way still run to
their end. In `routing` three changes disconnect, reconnect and rejoin a ring of
five, on which the tie-break of the heap matters. Every property of these runs has
a mutant of the code in `PROJECT.json` that violates it on the same instance.

## 4. Progress and fairness

`FairSpec` is `Spec` with weak fairness of `RunEvent`, the disjunction of all
events. The code justifies it and no more: `SimulationEngine::run` pops events
until the queue is empty, so some scheduled event always runs next. Fairness
of single events is not assumed, though the code would justify more (timestamps
increase). Losing a packet is never owed. `FairSpec` of `SimulationControl` is weak
fairness of `Frame`: the window goes on drawing frames (`main.cpp`, the loop of
`visualizeWindow`), and no control is ever owed by the user.

- `LeavesEstablished`: the established client leaves ESTABLISHED whatever is
  lost, unless the first hop refused a packet. With a refusal it may stay: the
  chain of generation events, or of retransmissions, ends there.
- `HandshakeCompletes`, `ClientFinishes`, `TimeWaitFreesServer` are stated up to
  the first loss or refusal (`Undisturbed`): neither the SYN-ACK, the FIN nor the
  acknowledgement of the handshake is retransmitted by the code.
- `RunEnds`: the cap on a frame's events only defers them. It depends on an engine
  whose events end (`MaxEvents`), as those of a session do.

## 5. Proofs

The results hold for all values of the constants under the named assumptions of
the modules: natural numbers, a non-empty sequence space, a positive threshold, a
send window and a stream smaller than the sequence space, a largest window of some
segments, links that are idle when they are given. The code's constants meet all of
them, by orders of magnitude where they are inequalities.

### The session (`TCPSessionProofs`)

- `TypeCorrect`: `Spec => []TypeOK`. `TypeOK` says more than types: retransmission
  counts and streaks stay within their limits, and no state machine function is
  applied outside its domain. It is not inductive: one must know that the
  handshake event finds the client CLOSED and is the first in the queue
  (`HandshakeOnce`), and that before traffic is generated nothing was sent.
  `TypeInv` is the conjunction; there is one lemma per action, resting on lemmas
  about sequences and about the type of each connection operator.
- `TimersNeverForgotten`: `Spec => []TimerCoverage`. `TimerInv` adds
  `FreshBuffer`, that a client on its way to ESTABLISHED has an empty send buffer.
  A timer that expires queues a retransmission; a retransmission event rearms,
  finds the segment acknowledged, gives up, or is refused; an acknowledgement arms
  a timer for the new oldest segment; and a segment queued behind others needs no
  timer yet.
- `SendBufferAlwaysExact`, `WindowAlwaysRespected`: `Spec => []SendBufferExact`
  and `Spec => []WindowRespected`. The invariant is `SessionInv`, which adds
  `SenderInv` to `TimerInv`: the buffer exact, and no more in flight than the
  window, in every state of the client. The argument is about numbers that wrap:
  from SND.UNA to SND.NXT is never a full turn (`WindowAssumption`), and what an
  accepted acknowledgement pops is what lies below it, for `receive_ack` accepts
  none with a wrap in between.

### What the stream delivers (`TCPStreamProofs`)

Numbers are replaced by *positions*: how far a number lies behind the first one of
the stream (`Offset`, `Position`). Positions are ordered as the segments were sent,
because the stream is shorter than a turn of the sequence space.

`StreamInv` has two parts. Until traffic starts only the handshake is under way
(`Opening`): the client has sent SYNs and at most one ACK, and the server expects
the number the client will begin with. From then on (`Flow`) SND.UNA, RCV.NXT and
SND.NXT come in this order, the DATA on its way is of the stream, no
acknowledgement runs ahead of RCV.NXT, and what the server has accepted is the
stream before RCV.NXT and its buffer. `Closing` completes it: while the server waits
for the last ACK, the FIN it sent or the ACK that answers it is on its way, but not
both, and otherwise neither. A server that an old SYN has opened again therefore
finds no ACK to become established with.

- `AcknowledgementsSound`: `Spec => []AckSoundness`, wrapping streams included.
- `DeliveryExact`: `Spec => []DeliveredExactly`. What `consumeContiguous` does to the
  buffer is stated without recursion, as the first number that is missing
  (`NextSequenceIsHole`, `ReceiveDataReceived`).
- `NothingSentAfterClose`: `Spec => NoDataAfterClose`. Steps that take a packet out
  of the network give an injection from the DATA that is left to the DATA there was.
- `ServerClosedForGood`: `~ Reordering => (Spec => ServerStaysClosed)`. On routes that
  keep order the client's FIN is behind every SYN, so behind it come only ACKs
  (`OrderInv`).
- `SessionIsAStream`: `Spec => ImplementsStream`, the refinement of `ReliableStream`,
  if packets keep their order and the receive buffer has room for the whole stream
  (`ReceiveWindow >= PacketsPerRoute`: `DEFAULT_RECEIVE_WINDOW` holds the 20 packets of
  a session up to a packet size of 3276 bytes; the tests use 1000). The hypothesis is
  needed only for numbers that wrap: past the wrap the buffer takes copies of what
  was consumed before (`bug_wrap`), and a buffer full of them would reject a segment
  that was sent once. Under the mapping `delivered` is the position of RCV.NXT while the
  server is established, and from the FIN on the length of what arrived without a
  gap, which does not change any more; `acked` is the position of SND.UNA. Each step
  of the session after the handshake has one of eight shapes (`StreamStep`: the client
  generates a packet, learns of an acknowledgement or does anything else, the server
  receives, ignores, ends or closes, a packet is lost), and each shape is an action of the stream or a
  stutter. That nothing is cut off while nothing is lost or refused is the last part
  of `OrderInv`: the DATA from RCV.NXT to SND.NXT is on its way in order, and ahead of
  the FIN. The theorem covers initial numbers that wrap, which the instance of
  `session_fifo` does not.
- `SessionKeepsPromise`: `Spec => []Stream!Promise` under the same hypotheses. `Promise` is
  what `ReliableStream` comes to (`acked <= delivered <= sent <= Total`, and a stream that
  ends unimpaired was delivered whole); it is an invariant of the abstract specification,
  where it is a matter of one line per action, and the refinement carries it over to
  the session.

### Its congestion control (`TCPCongestionProofs`)

- `CongestionTypeCorrect`, `FlightAlwaysFitsWindow`, `HistoryAlwaysCurrent`,
  `RecoveryAlwaysPinned`: invariants of `CongestionSpec`. Each of its steps is a
  step of the session, so `SessionInv` holds along it; `ControlInv` adds that the
  controller is Reno, in good order, with the pinned recovery and a current
  history. That the flight is at most one segment comes from the window theorem,
  that the congestion window is at least one from the algorithms'.
- `KarnAlwaysFollowed`: `CongestionSpec => KarnRule`. The rule is about segments, and
  `canMeasure` of the code about entries of the send buffer, so `KarnInv` ties them: an
  entry that counts no retransmission has a number that was never resent. It is
  inductive because every number that was resent lies before SND.NXT in the stream
  (`OfStream`), so the number of a new segment is none of them; a stream that came round
  the sequence space would break it. The rest is that a failure
  restores the backoff only of a connection it closes, and that an acknowledgement
  leaves no other entry with the number it measured.

### The algorithms (`CongestionAlgorithmsProofs`, `CongestionProofs`)

`Good` is the inductive invariant of a controller: its type, the floors, the
recovery above its threshold and the remembered one. There is one lemma per
operator; the theorems `ControlTypeCorrect`, `WindowNeverBelowFloor`,
`RecoveryStaysAboveThreshold`, `RecoveryAlwaysRemembered`, `OpensBySegmentOnly` and
`RecoveryThresholdAlwaysKept` state all six properties of the run `congestion`. The
floor is what bounds the growth of congestion avoidance: `Mss * Mss \div cwnd` is at
most `Mss` only for windows of at least a segment.

### The network (`NetworkProofs`)

`NetInv` is the one invariant behind `TransitIsExact`, `SlotsAreExact`,
`TransmissionsInTurn` and `EveryPacketAccounted`. It says that each queue lists the
packets on its link in the order they were sent and within its capacity
(`SlotsHold`, `GoodLink`), that transmissions of a queue follow each other and none
arrives later than its `busy_until` (`InTurn`), that `packets_in_transit` is the scheduled arrivals one by one, that
identifiers of links are below the next one, and the balance of the counters.

- The routing tables do not appear in `NetInv`: every step is right whatever link the
  tables choose, so their staleness cannot matter here.
- `removePacketInTransit` and `dequeueTransmission` look the packet up by its times,
  its nodes and its link, and take the first entry that is equal. It is the packet's
  own: an equal entry further to the front would belong to a packet with the same
  arrival time that was scheduled earlier, which would have been due before.
- The identifier of a link that was removed is never given out again, so a packet
  that arrives over it releases nobody's slot.
- A packet is counted as sent on its first hop only: its hop count is 0 exactly
  then. Hence the balance, over all paths through `sendPacket`, forwarding and its
  refusal.

`NetworkTypeCorrect` is `Spec => []TypeOK`, from `NetInv` and `TypeInv`, which adds the type
of the tables and that no more packets are counted as sent than were sent: a packet that
is forwarded has a hop behind it. The tables are the difficult part, because the loops
of `Routing` are recursive functions: the turns of `buildDijkstra`, the fold over the
links of a node in each of them, and the way back along the parents. For each, that
such a function exists (`SearchExists`, `FoldExists`, `ClimbExists`) and that its values stay
among the nodes is shown of the least number of turns that would be a counterexample, which needs no
induction theorem. The heap always has a first entry because its order is total
(`TopInHeap`).

**`RoutesAreBest`: `Spec => []RoutesBest`.** The code finds ways by a search, the property
compares them with a reference that shares nothing with it, `BestDistances`, which mends
direct distances by each node in turn. The two meet in the middle:

- The reference is `Surveyed`: no distance is longer than a link (`Bounded`) or than the way
  by another node (`Straight`), and any distances that no link improves (`Closed`) are at
  most what it says. That is all the proof uses of it, and `SurveyExists` provides its
  recursive function. The four metrics are treated as one, as an addition that is capped at
  `Infinity` or, for the bandwidth, as a minimum (`Plus`, `PlusLaws`, `PlusMonotone`).
- The search is `Explored`: there is a set of expanded nodes, ranked as they were expanded,
  such that every entry of the heap is at least as far as all of them and each node that was
  reached but not expanded has its entry (`Frontier`), no link of an expanded node improves
  a distance (`Settled`), and every parent was expanded before its child (`Tree`). It is
  inductive because the heap gives back its least entry: a node that was expanded is never
  improved again (`OnlyAheadImproved`), so entries of it that are left over are stale.
- The turns are a recursive function with a bound (`MaxTurns`), the loop of the code ends
  with an empty heap. `Enough` shows that the bound is never reached: a turn either takes an
  entry or exchanges links not looked at yet (`Pending`) for entries.
- An empty heap makes the distances closed, so they are at most the reference's; the ways
  shown by the parents make them at least that. The way back from a destination stays on
  best ways, and its ranks fall until it comes to the child of the source (`OnWay`), which is
  the next hop (`FirstHopBest`).
- `RoutesInv` follows the tables through the network's steps: those of packets change slots
  of links only (`SameWires`), which the search does not read, and every change ends with
  `rebuildRoutingTables`.

The theorem assumes of the links that their costs are at most `Infinity` (`FiniteCosts`, in
`Network`'s assumption): of the doubles of the code that is true of all.

**`TablesAgree`: `Spec => []NoRoutingLoops`.** Best next hops are not enough for this. A hop
brings a packet nearer only if it costs something, and under the bandwidth metric, or over links without
delay, it need not: with ties broken differently at each node, best next hops can form a circle. What
excludes it is the order of the heap, by distance and then by node:

- `Explored` therefore has a fourth part, `Ordered`: the parent of a node is the one that
  offered it its distance first (`Earliest`), and a node was expanded before another because
  its entry preceded the other's (`FirstServed`).
- `Peak` is the last node, in the heap's order, of the way from a node to d (without d). Between a
  node and its next hop the peak does not go up, if both are as far from d (`PeakDescends`):
  the next hop's search could have taken the rest of the same way (`HopAsNear`), and would
  have taken up another one only for an entry that precedes its peak.
- Suppose next hops towards d form a circle. Its nodes nearest to d form one, all as far
  from d (`NearestLoop`); of these, the nodes whose peak comes first form one, all with the
  same peak; and their next hops towards the peak are the same as those towards d. But the
  peak was expanded before d in each of their searches (`LoopWithin`), so every circle has
  one of smaller rank within it, and there is none (`NoLoop`).

**`HopsAreBounded`: `Spec => []HopsBounded`.** The bound itself is not inductive: it says
nothing of the hops still to come. `HopsInv` adds them. `Ahead` are the nodes a packet may
still come to by the tables in force; a hop leaves a node behind for good, because the
tables have no circle, so the hops made and those ahead (`HopsLeft`) do not grow in sum. New
tables may put all nodes ahead again, which is the allowance of one further round for each
change. TLC checked `HopsInv` on the instance of the run `network` before it was proved.

### The window loop (`SimulationControlProofs`)

- `ControlTypeCorrect`, `SlotsAlwaysHeld`, `InFlightAlwaysShown`: the invariants
  `TypeOK`, `SlotsHeld` and `InFlightShown`, from `SlotsInv`. Its main part, `Sound`, is
  a predicate on an engine, its links and the packets on display, and is followed
  through the steps inside one event: the event is taken, its slot released, a packet
  sent, a timer scheduled. Equal packets may be on one link at a time, and releasing
  a slot removes the first *equal* entry, which may be another event's; so the
  invariant gives each packet on its way an entry of its own (an injection), and
  exchanges two of them where the code does. New events have identifiers that none
  in the queue has. Reset moves all slots to `abandoned`, and a load starts from
  links that are idle.
- `StateMatchesQueue`: `Spec => []EventsMatchState`. Within a frame the queue may run
  empty while the state still says Running, so the invariant `FrameInv` adds that
  only a running simulation is within a frame.

### Listeners (`TCPListenerProofs`)

`ListenerTypeCorrect` and `BacklogNeverExceeded`: `Spec => []TypeOK` and
`Spec => BacklogRespected`. The listener's `TypeOK` is inductive; it gives that the
open sessions of a listener are among those it counts, a finite set, so that their
number is below a backlog the count is below.

### What stays model-checked

- The progress properties (`LeavesEstablished`, `HandshakeCompletes`,
  `ClientFinishes`, `TimeWaitFreesServer`, `RunEnds`): fairness needs `ENABLED`, which
  the prover does not support.

Every other property of a passing run is stated by a theorem.

## 6. Where the code disagrees with what is said of it

Each `bug_` run ends in a counterexample.

| Run | What happens |
|---|---|
| `bug_delayed_ack` | A delayed-ACK event of an earlier segment clears the flag that by then belongs to a later one; that segment is not acknowledged. |
| `bug_handshake` | When SYN retries are exhausted the client stays in SYN_SENT; `Topology.hpp` says the session is declared failed. |
| `bug_window` | A full send window ends the chain of generation events; nothing restarts it and the session stays ESTABLISHED. |
| `bug_wrap` | After the wrap of the sequence space a segment consumed before is accepted into the receive buffer again. |
| `bug_listener` | Closed sessions count against the backlog for ever: `untrackSession` has no caller. |
| `lifecycle` | Reset makes a new engine over the same `Link` objects: slots of packets on the way stay occupied for good, `busy_until` keeps its old times, and the new engine has no observer, so its packets are not shown. The run passes because `SlotsHeld` counts the abandoned slots and `InFlightShown` is about observed engines; `docs/event_engine_design.md` promises that the same events end in the same state, and `README.md` that the GUI renders packets in sync with simulation time. |

Apart from these, `docs/` describes retransmission, loss detection and
congestion control as planned; the source has them, and the models follow the
source.

## 7. Not modelled

- **The RTT estimator and CUBIC's growth formula**: floating-point arithmetic. The
  RTO dates timers that here may fire at any time. `canSend` of the congestion
  controllers has no caller.
- **Session identifiers in packets.** One session is modelled; sessions share
  links (`Network`) but no TCP state.
- **The panels and drawing of the GUI, and the headless loop**, which only runs the
  engine until its queue is empty. A reference of `renderStatsWindow` to the
  statistics of an engine that Reset has just replaced, used for the rest of its
  frame, and a drag's origin that survives the loading of a topology, are matters
  of the lifetime of objects, which the models do not have.
- **`validateSimulation`, CSV export, logging, observers, topology files.**
  Reports, input and display.
- **RST within a session**, which `PacketReceivedEvent::execute` ignores; `buildRst` and setters
  that only tests call.
- **Node activity flags, interfaces and addresses**: forwarding reads none.

## 8. Plan

Modelled, checked and proved so far is what sections 2 to 5 describe. What is left,
most important first.

1. `validateSimulation`, the report it makes against the states of `TCPSession`.
2. Listener and session composed: a SYN by hand to a listener, its session's
   handshake, and the backlog.
