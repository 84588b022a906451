------------------------------ MODULE Network ------------------------------
(***************************************************************************)
(* Packets on the topology: SimulationEngine's forwarding, its record of   *)
(* the packets in transit and its counters, under changes of the topology. *)
(*                                                                         *)
(* The engine runs one event at a time.  The arrivals are the              *)
(* PacketReceivedEvents it has scheduled, run in order of arrival time and *)
(* then of scheduling.  Everything else that happens is an event of a      *)
(* session or a request of the user: it comes at any instant up to the     *)
(* next arrival.  What the destination does with a packet is the subject   *)
(* of TCPSession; here it is delivered, and any node may send at any time. *)
(***************************************************************************)
EXTENDS Routing

CONSTANTS
  Topologies,    \* links at the start: sequences, the first has identifier 1
  Flows,         \* <<source, destination>> pairs of the packets sent
  NewLinks,      \* links the user may add
  Metrics,       \* routing metrics the user may choose
  MaxPackets,    \* bound: packets sent
  MaxChanges,    \* bound: changes of topology and metric
  MaxTime        \* bound: instants at which packets are sent or links change

LinkRecord == LinkRecords(Node)

ASSUME NetworkAssumption ==
  /\ Flows \subseteq (Node \X Node) \ {<<n, n>> : n \in Node}
  /\ Metrics \subseteq RoutingMetric
  /\ MaxPackets \in Nat /\ MaxChanges \in Nat /\ MaxTime \in Nat

ASSUME LinksAssumption ==
  /\ \A l \in NewLinks : l \in LinkRecord /\ Idle(l) /\ FiniteCosts(l)
  /\ \A t \in Topologies :
       t \in Seq(LinkRecord) /\ \A id \in DOMAIN t : Idle(t[id]) /\ FiniteCosts(t[id])

VARIABLES
  links,       \* Topology::links_, by identifier, in order of creation
  nextId,      \* Link::next_id_
  metric,      \* routing_metric_
  tables,      \* routing_tables_: the next hop from each node to each other
  now,         \* SimulationClock
  arrivals,    \* packets of the scheduled PacketReceivedEvents, as scheduled
  transit,     \* packets_in_transit
  stats,       \* packets_sent, packets_delivered, packets_lost
  packets,     \* packets that were to be sent so far
  changes      \* changes of topology and metric so far

topologyVars == <<links, nextId, metric, tables, changes>>
packetVars == <<arrivals, transit, stats, packets>>
vars == <<topologyVars, packetVars, now>>

\* LinkTransmission of a packet under way, and its PacketTravelInfo.
Transmission(p) ==
  [from |-> p.previous, to |-> p.current,
   departure |-> p.departure, arrival |-> p.arrival]

TravelInfo(p) == [transmission |-> Transmission(p), link |-> p.link]

NewPacket(source, destination) ==
  [source |-> source, destination |-> destination, current |-> source,
   previous |-> NoHop, link |-> 0, hops |-> 0, departure |-> 0, arrival |-> 0]

Stats(sent, delivered, lost) ==
  [sent |-> sent, delivered |-> delivered, lost |-> lost]

Init ==
  /\ links \in {[id \in DOMAIN t |-> t[id]] : t \in Topologies}
  /\ nextId = Len(links) + 1
  /\ metric \in Metrics
  /\ tables = RoutingTables(metric, links)
  /\ now = 0
  /\ arrivals = <<>>
  /\ transit = <<>>
  /\ stats = Stats(0, 0, 0)
  /\ packets = 0
  /\ changes = 0

-----------------------------------------------------------------------------
(* Sending over one link. *)

\* The links up from the packet's node to its next hop.
UsableLinks(ls, p) ==
  {id \in DOMAIN ls :
     ls[id].up /\ Joins(ls[id], p.current, tables[p.current][p.destination])}

\* The one sendPacketThroughTopology takes: the first in the adjacency list.
\* There is none without a next hop, for no link joins a node to NoHop.
SelectedLink(ls, p) ==
  {id \in UsableLinks(ls, p) : \A o \in UsableLinks(ls, p) : id <= o}

\* The packet under way on link l, sent at time t.
Moved(l, id, p, t) ==
  LET departure == NextAvailableTime(l, p.current, t) IN
  [p EXCEPT !.current = OtherNode(l, p.current), !.previous = p.current,
            !.link = id, !.hops = @ + 1, !.departure = departure,
            !.arrival = departure + TravelTime(l)]

\* How a send may end: the links after it, the packet if it is under way, and
\* what it adds to the counters.
Sending(ls, moved, sent, lost) ==
  [links |-> ls, moved |-> moved, sent |-> sent, lost |-> lost]

\* Mutant: a packet is counted on every hop.
FirstHopCountAlways(p) == 1

\* packets_sent counts a packet when it leaves its source.
FirstHopCount(p) == IF p.hops = 0 THEN 1 ELSE 0

\* sendPacket.  A packet that is dropped has reserved the link, but it is in no
\* queue.
OutcomesOn(ls, id, p, t) ==
  LET moved == Moved(ls[id], id, p, t)
      reserved == ReserveTransmission(ls[id], p.current, moved.departure)
      queued == EnqueueTransmission(reserved, Transmission(moved))
  IN  IF ~ CanQueue(ls[id], p.current)
        THEN {Sending(ls, <<>>, 0, 1)}
        ELSE {Sending([ls EXCEPT ![id] = queued], <<moved>>, FirstHopCount(p), 0)}
               \union
               IF ls[id].lossy
                 THEN {Sending([ls EXCEPT ![id] = reserved], <<>>, FirstHopCount(p), 1)}
                 ELSE {}

\* sendPacketThroughTopology.
SendOutcomes(ls, p, t) ==
  IF UsableLinks(ls, p) = {}
    THEN {Sending(ls, <<>>, 0, 0)}
    ELSE UNION {OutcomesOn(ls, id, p, t) : id \in SelectedLink(ls, p)}

\* The next PacketReceivedEvent: the earliest, and the first scheduled of those.
IsNext(i) ==
  \A j \in DOMAIN arrivals :
    \/ arrivals[i].arrival < arrivals[j].arrival
    \/ arrivals[i].arrival = arrivals[j].arrival /\ i <= j

\* Instants at which something other than an arrival may happen.
Instants == {t \in now .. MaxTime : \A i \in DOMAIN arrivals : t <= arrivals[i].arrival}

-----------------------------------------------------------------------------

\* A session sends a packet from its source.
Send(source, destination, t) ==
  /\ packets < MaxPackets
  /\ packets' = packets + 1
  /\ now' = t
  /\ \E o \in SendOutcomes(links, NewPacket(source, destination), t) :
       /\ links' = o.links
       /\ arrivals' = arrivals \o o.moved
       /\ transit' = transit \o [k \in DOMAIN o.moved |-> TravelInfo(o.moved[k])]
       /\ stats' = Stats(stats.sent + o.sent, stats.delivered, stats.lost + o.lost)
  /\ UNCHANGED <<nextId, metric, tables, changes>>

\* releasePacketThroughTopology: the link may have been removed meanwhile.
Released(p) ==
  IF p.link \in DOMAIN links
    THEN [links EXCEPT ![p.link] = DequeueTransmission(@, Transmission(p))]
    ELSE links

\* Mutant: arrivals are taken to come in the order of sending.
TransitWithoutOldest(p) == Tail(transit)

TransitWithout(p) == RemoveFirst(transit, TravelInfo(p))

\* PacketReceivedEvent at the destination.
Deliver(i) ==
  LET p == arrivals[i] IN
  /\ IsNext(i)
  /\ p.current = p.destination
  /\ now' = p.arrival
  /\ links' = Released(p)
  /\ arrivals' = RemoveAt(arrivals, i)
  /\ transit' = TransitWithout(p)
  /\ stats' = Stats(stats.sent, stats.delivered + 1, stats.lost)
  /\ UNCHANGED <<nextId, metric, tables, changes, packets>>

\* Mutant: the caller does not count a packet it could not pass on.
ForwardingLossNone(o) == 0

\* What execute adds to packets_lost when the packet could not be passed on.
ForwardingLoss(o) == IF o.moved = <<>> THEN 1 ELSE 0

\* PacketReceivedEvent on the way.
Forward(i) ==
  LET p == arrivals[i] IN
  /\ IsNext(i)
  /\ p.current # p.destination
  /\ now' = p.arrival
  /\ \E o \in SendOutcomes(Released(p), p, p.arrival) :
       /\ links' = o.links
       /\ arrivals' = RemoveAt(arrivals, i) \o o.moved
       /\ transit' = TransitWithout(p)
                       \o [k \in DOMAIN o.moved |-> TravelInfo(o.moved[k])]
       /\ stats' = Stats(stats.sent + o.sent, stats.delivered,
                         stats.lost + o.lost + ForwardingLoss(o))
  /\ UNCHANGED <<nextId, metric, tables, changes, packets>>

-----------------------------------------------------------------------------
(* Changes, each followed by rebuildRoutingTables. *)

\* Mutant: the tables stay as they were.
RebuiltNone(m, ls) == tables

Rebuilt(m, ls) == RoutingTables(m, ls)

Change(t) ==
  /\ changes < MaxChanges
  /\ changes' = changes + 1
  /\ now' = t
  /\ UNCHANGED packetVars

LinksBetween(a, b) == {id \in DOMAIN links : Joins(links[id], a, b)}

\* setLinkUp and removeLink take the first link between the two nodes.
FirstLink(a, b) == CHOOSE id \in LinksBetween(a, b) : \A o \in LinksBetween(a, b) : id <= o

ToggleLinkUp(a, b, up, t) ==
  /\ Change(t)
  /\ LinksBetween(a, b) # {}
  /\ links' = [links EXCEPT ![FirstLink(a, b)].up = up]
  /\ tables' = Rebuilt(metric, links')
  /\ UNCHANGED <<nextId, metric>>

Keep(ids) == [id \in ids |-> links[id]]

DeleteLink(a, b, t) ==
  /\ Change(t)
  /\ LinksBetween(a, b) # {}
  /\ links' = Keep(DOMAIN links \ {FirstLink(a, b)})
  /\ tables' = Rebuilt(metric, links')
  /\ UNCHANGED <<nextId, metric>>

\* The node keeps its number: only its links go.
DeleteNode(n, t) ==
  /\ Change(t)
  /\ links' = Keep({id \in DOMAIN links : ~ TouchesNode(links[id], n)})
  /\ tables' = Rebuilt(metric, links')
  /\ UNCHANGED <<nextId, metric>>

CreateLink(l, t) ==
  /\ Change(t)
  /\ links' = [id \in DOMAIN links \union {nextId} |->
                 IF id = nextId THEN l ELSE links[id]]
  /\ nextId' = nextId + 1
  /\ tables' = Rebuilt(metric, links')
  /\ UNCHANGED metric

SetRoutingMetric(m, t) ==
  /\ Change(t)
  /\ metric' = m
  /\ tables' = Rebuilt(m, links)
  /\ UNCHANGED <<links, nextId>>

RunArrival == \E i \in DOMAIN arrivals : Deliver(i) \/ Forward(i)

ChangeTopology(t) ==
  \/ \E a, b \in Node, up \in BOOLEAN : a < b /\ ToggleLinkUp(a, b, up, t)
  \/ \E a, b \in Node : a < b /\ DeleteLink(a, b, t)
  \/ \E n \in Node : DeleteNode(n, t)
  \/ \E l \in NewLinks : CreateLink(l, t)
  \/ \E m \in Metrics : SetRoutingMetric(m, t)

Next ==
  \/ \E f \in Flows, t \in Instants : Send(f[1], f[2], t)
  \/ RunArrival
  \/ \E t \in Instants : ChangeTopology(t)

Spec == Init /\ [][Next]_vars

-----------------------------------------------------------------------------

Packet ==
  [source : Node, destination : Node, current : Node, previous : Node,
   link : Nat, hops : Nat \ {0}, departure : Nat, arrival : Nat]

TypeOK ==
  /\ nextId \in Nat
  /\ DOMAIN links \subseteq 1 .. nextId - 1
  /\ \A id \in DOMAIN links : links[id] \in LinkRecord
  /\ metric \in Metrics
  /\ tables \in [Node -> [Node -> Node \union {NoHop}]]
  /\ now \in Nat
  /\ arrivals \in Seq(Packet)
  /\ stats \in [sent : 0 .. packets, delivered : Nat, lost : Nat]
  /\ packets \in 0 .. MaxPackets
  /\ changes \in 0 .. MaxChanges

(***************************************************************************)
(* packets_in_transit lists exactly the packets whose arrival is           *)
(* scheduled, in the order they were sent, whatever links and nodes have   *)
(* been removed under them (releasePacketThroughTopology finds the right   *)
(* entry by its times, its nodes and the identifier of its link).          *)
(***************************************************************************)
TransitExact ==
  transit = [i \in DOMAIN arrivals |-> TravelInfo(arrivals[i])]

\* The arrivals that are on slot s of link id.
OnSlot(id, s) ==
  {i \in DOMAIN arrivals :
     arrivals[i].link = id /\ SlotOf(links[id], arrivals[i].previous) = s}

(***************************************************************************)
(* The queues of a link hold exactly the packets on it, in the order they  *)
(* were sent, and never more than its capacity: no slot leaks when a       *)
(* packet is dropped, when the link goes down or when a link between the   *)
(* same nodes is removed, and none is released twice                       *)
(* (enqueueTransmission, dequeueTransmission).                             *)
(***************************************************************************)
SlotsExact ==
  \A id \in DOMAIN links, s \in Slot :
    LET q == links[id].queue[s] IN
    /\ Len(q) <= QueueCapacity
    /\ \E sent \in [DOMAIN q -> OnSlot(id, s)] :
         /\ \A k, m \in DOMAIN q : k < m => sent[k] < sent[m]
         /\ \A i \in OnSlot(id, s) : \E k \in DOMAIN q : sent[k] = i
         /\ \A k \in DOMAIN q : q[k] = Transmission(arrivals[sent[k]])

(***************************************************************************)
(* A link carries one packet at a time in each direction, or one in all if *)
(* it is half duplex, so that packets never overtake each other on it      *)
(* (getNextAvailableTime, reserveTransmission).                            *)
(***************************************************************************)
OneAtATime ==
  \A id \in DOMAIN links, s \in Slot :
    LET q == links[id].queue[s]
    IN  \A i, j \in DOMAIN q : i < j => q[i].arrival <= q[j].departure

(***************************************************************************)
(* Every packet counted as sent is delivered, counted as lost, or on its   *)
(* way, and none is delivered that was not sent: on each of the paths a    *)
(* packet takes through sendPacket and PacketReceivedEvent, with links     *)
(* full, lossy, down or gone (policy item 3 of Topology.hpp).              *)
(***************************************************************************)
PacketsAccounted ==
  /\ stats.sent <= stats.delivered + stats.lost + Len(arrivals)
  /\ stats.delivered + Len(arrivals) <= stats.sent

(***************************************************************************)
(* The tables in force lead along best paths of the topology as it is now, *)
(* after any sequence of failures, removals and additions, and to every    *)
(* node that can be reached (buildDijkstra, policy item 5 of Topology.hpp: *)
(* tables are rebuilt synchronously on every mutation).                    *)
(***************************************************************************)
RoutesBest ==
  LET best == BestDistances(metric, links) IN
  \A src, d \in Node : src # d =>
    LET hop == tables[src][d] IN
    IF best[src][d] = Worst(metric)
      THEN hop = NoHop
      ELSE \E id \in DOMAIN links :
             /\ links[id].up /\ Joins(links[id], src, hop)
             /\ Combine(metric, LinkCost(metric, links[id]), best[hop][d]) = best[src][d]

(***************************************************************************)
(* The tables of different nodes agree: following next hops towards a      *)
(* destination never leads round in a circle (no set of nodes keeps all of *)
(* its next hops to itself), although each node computes                   *)
(* its own tree and paths may tie, as they do under the bandwidth metric   *)
(* and over links without delay.  It rests on the heap's order of equal    *)
(* distances by node.  Packets carry no hop limit.                         *)
(***************************************************************************)
NoRoutingLoops ==
  \A d \in Node : \A circle \in (SUBSET Node) \ {{}} :
    \E n \in circle : tables[n][d] \notin circle

(***************************************************************************)
(* No packet travels for ever, though it carries no hop limit: it never    *)
(* passes a node twice under the same tables, so each change of the        *)
(* topology adds at most one way through the whole network                 *)
(* (the forwarding case of PacketReceivedEvent::execute).                  *)
(***************************************************************************)
HopsBounded ==
  \A i \in DOMAIN arrivals : arrivals[i].hops <= (changes + 1) * (NumNodes - 1)

=============================================================================
