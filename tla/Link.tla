-------------------------------- MODULE Link --------------------------------
(***************************************************************************)
(* One link of the topology (Link.cpp): how packets share it, and the      *)
(* queues that remember which packets are on it.                           *)
(*                                                                         *)
(* Time is counted in units.  All packets have one size, and the unit of   *)
(* the bandwidth is such that a link of bandwidth b takes PacketSize \div b *)
(* units to transmit one.  The loss probability becomes a choice: a link   *)
(* either may drop packets or never does.  The mode of a link never        *)
(* changes: only tests call setMode.                                       *)
(***************************************************************************)
EXTENDS Integers, Sequences, SequencesExt

CONSTANTS
  PacketSize,     \* packet_size_bytes * 8, in units of bandwidth times time
  QueueCapacity   \* queue_capacity_

ASSUME LinkAssumption == PacketSize \in Nat \ {0} /\ QueueCapacity \in Nat

LinkMode == {"FULL_DUPLEX", "HALF_DUPLEX", "SIMPLEX"}

\* The queues of a link, each with its busy_until time.
Slot == {"AB", "BA", "Shared"}

\* A link as the topology is given: lossy is should_drop's chance above 0.
NewLink(a, b, mode, delay, bandwidth, lossy) ==
  [a |-> a, b |-> b, mode |-> mode, delay |-> delay, bandwidth |-> bandwidth,
   lossy |-> lossy, up |-> TRUE,
   busyUntil |-> [s \in Slot |-> 0], queue |-> [s \in Slot |-> <<>>]]

\* The links between some nodes.
LinkRecords(nodes) ==
  [a : nodes, b : nodes, mode : LinkMode, delay : Nat, bandwidth : Nat \ {0},
   lossy : BOOLEAN, up : BOOLEAN, busyUntil : [Slot -> Nat],
   queue : [Slot -> Seq([from : nodes, to : nodes, departure : Nat, arrival : Nat])]]

\* As Link's constructor leaves it: nothing on the link, and nothing reserved.
Idle(l) == \A s \in Slot : l.busyUntil[s] = 0 /\ l.queue[s] = <<>>

Joins(l, m, n) == {l.a, l.b} = {m, n}

TouchesNode(l, n) == n \in {l.a, l.b}

OtherNode(l, n) == IF n = l.a THEN l.b ELSE l.a

\* getDirectionSlot and getQueueSlot; only a simplex link has a direction that
\* leads to no slot.
CanCarry(l, from) == l.mode # "SIMPLEX" \/ from = l.a

SlotOf(l, from) ==
  IF l.mode = "HALF_DUPLEX" THEN "Shared" ELSE IF from = l.a THEN "AB" ELSE "BA"

\* Mutant: the link takes one packet more than its queue holds.
CanQueueOneMore(l, from) ==
  /\ l.up
  /\ CanCarry(l, from)
  /\ Len(l.queue[SlotOf(l, from)]) <= QueueCapacity

CanQueue(l, from) ==
  /\ l.up
  /\ CanCarry(l, from)
  /\ Len(l.queue[SlotOf(l, from)]) < QueueCapacity

NextAvailableTime(l, from, now) ==
  LET busy == l.busyUntil[SlotOf(l, from)] IN IF busy > now THEN busy ELSE now

TravelTime(l) == l.delay + PacketSize \div l.bandwidth

\* Mutant: the reservation ends when the packet departs.
ReserveTransmissionTooShort(l, from, departure) ==
  [l EXCEPT !.busyUntil[SlotOf(l, from)] = departure]

\* The slot stays reserved until the packet has arrived at the other end.
ReserveTransmission(l, from, departure) ==
  [l EXCEPT !.busyUntil[SlotOf(l, from)] = departure + TravelTime(l)]

EnqueueTransmission(l, transmission) ==
  [l EXCEPT !.queue[SlotOf(l, transmission.from)] = Append(@, transmission)]

\* Mutant: the queue of the opposite direction is searched.
DequeueTransmissionOpposite(l, transmission) ==
  [l EXCEPT !.queue[SlotOf(l, transmission.to)] = RemoveFirst(@, transmission)]

DequeueTransmission(l, transmission) ==
  [l EXCEPT !.queue[SlotOf(l, transmission.from)] = RemoveFirst(@, transmission)]

=============================================================================
