----------------------- MODULE SimulationControlProofs -----------------------
(***************************************************************************)
(* What holds of the GUI's loop and its controls, for every topology and   *)
(* every bound: the state shown agrees with the event queue                *)
(* (EventsMatchState), the slots of the links hold the packets on their    *)
(* way and what a Reset left there (SlotsHeld), and those packets are on   *)
(* the screen (InFlightShown).                                             *)
(*                                                                         *)
(* SlotsInv follows the engine, its links and the packets shown through    *)
(* the steps of one event: the slot released, a timer scheduled, a packet  *)
(* sent.  Equal entries may stand in one slot, so it gives each packet on  *)
(* its way an entry of its own (Matched); FrameInv is about the state      *)
(* shown.                                                                  *)
(***************************************************************************)
EXTENDS SimulationControl, FiniteSetTheorems, SequenceTheorems, WellFoundedInduction, TLAPS

-----------------------------------------------------------------------------
(* Sequences: what arrives is taken out, what is sent is put at the end. *)

LEMMA Removed ==
  ASSUME NEW S, NEW q \in Seq(S), NEW i \in 1 .. Len(q)
  PROVE  /\ RemoveAt(q, i) \in Seq(S)
         /\ Len(q) \in Nat /\ DOMAIN q = 1 .. Len(q)
         /\ Len(RemoveAt(q, i)) = Len(q) - 1
         /\ DOMAIN RemoveAt(q, i) = 1 .. Len(q) - 1
         /\ \A k \in 1 .. Len(q) - 1 :
              RemoveAt(q, i)[k] = q[IF k < i THEN k ELSE k + 1]
<1> DEFINE front == SubSeq(q, 1, i - 1)
           back == SubSeq(q, i + 1, Len(q))
<1>1. Len(q) \in Nat /\ DOMAIN q = 1 .. Len(q) /\ \A k \in 1 .. Len(q) : q[k] \in S
  BY LenProperties, ElementOfSeq
<1>2. /\ front \in Seq(S) /\ Len(front) = i - 1
      /\ \A k \in 1 .. i - 1 : front[k] = q[k]
  <2>1. \A k \in 1 .. i - 1 : q[k] \in S
    BY <1>1
  <2>2. /\ front \in Seq(S)
        /\ Len(front) = IF 1 <= i - 1 THEN i - 1 - 1 + 1 ELSE 0
        /\ \A k \in 1 .. i - 1 - 1 + 1 : front[k] = q[1 + k - 1]
    BY <1>1, <2>1, SubSeqProperties
  <2> HIDE DEF front
  <2> QED
    BY <1>1, <2>2
<1>3. /\ back \in Seq(S) /\ Len(back) = Len(q) - i
      /\ \A k \in 1 .. Len(q) - i : back[k] = q[i + k]
  <2>1. \A k \in i + 1 .. Len(q) : q[k] \in S
    BY <1>1
  <2>2. /\ back \in Seq(S)
        /\ Len(back) = IF i + 1 <= Len(q) THEN Len(q) - (i + 1) + 1 ELSE 0
        /\ \A k \in 1 .. Len(q) - (i + 1) + 1 : back[k] = q[i + 1 + k - 1]
    BY <1>1, <2>1, SubSeqProperties
  <2> HIDE DEF back
  <2>3. Len(back) = Len(q) - i
    <3>1. i \in Nat /\ i <= Len(q) /\ Len(q) \in Nat
      BY <1>1
    <3>2. CASE i + 1 <= Len(q)
      BY <1>1, <2>2, <3>1, <3>2
    <3>3. CASE ~ (i + 1 <= Len(q))
      <4>1. Len(q) = i
        BY <3>1, <3>3
      <4>2. Len(back) = 0
        BY <2>2, <3>3
      <4> QED
        BY <3>1, <4>1, <4>2
    <3> QED
      BY <3>2, <3>3
  <2>4. ASSUME NEW k \in 1 .. Len(q) - i
        PROVE  back[k] = q[i + k]
    <3>1. k \in 1 .. Len(q) - (i + 1) + 1 /\ i + 1 + k - 1 = i + k
      BY <1>1
    <3> QED
      BY <2>2, <3>1
  <2> QED
    BY <2>2, <2>3, <2>4
<1> HIDE DEF front, back
<1>4. /\ front \o back \in Seq(S)
      /\ Len(front \o back) = Len(q) - 1
      /\ \A k \in 1 .. Len(q) - 1 :
           (front \o back)[k] = IF k <= i - 1 THEN front[k] ELSE back[k - (i - 1)]
  <2>1. /\ front \o back \in Seq(S)
        /\ Len(front \o back) = Len(front) + Len(back)
        /\ \A k \in 1 .. Len(front) + Len(back) :
             (front \o back)[k] = IF k <= Len(front) THEN front[k]
                                                    ELSE back[k - Len(front)]
    BY <1>2, <1>3, ConcatProperties
  <2>2. Len(front) + Len(back) = Len(q) - 1
    BY <1>1, <1>2, <1>3
  <2> QED
    BY <1>2, <2>1, <2>2
<1>5. ASSUME NEW k \in 1 .. Len(q) - 1
      PROVE  (front \o back)[k] = q[IF k < i THEN k ELSE k + 1]
  <2>1. CASE k < i
    BY <1>1, <1>2, <1>4, <2>1
  <2>2. CASE ~ (k < i)
    <3>1. ~ (k <= i - 1) /\ k - (i - 1) \in 1 .. Len(q) - i /\ i + (k - (i - 1)) = k + 1
      BY <1>1, <2>2
    <3> QED
      BY <1>3, <1>4, <2>2, <3>1
  <2> QED
    BY <2>1, <2>2
<1>6. RemoveAt(q, i) = front \o back
  BY DEF RemoveAt, front, back
<1>7. DOMAIN RemoveAt(q, i) = 1 .. Len(q) - 1
  BY <1>4, <1>6, LenProperties
<1> QED
  BY <1>1, <1>4, <1>5, <1>6, <1>7

LEMMA LeastNatural ==
  ASSUME NEW I \in SUBSET Nat, I # {}
  PROVE  \E k \in I : \A l \in I : k <= l
<1>1. PICK k \in I : \A l \in I : ~ (<<l, k>> \in OpToRel(<, Nat))
  BY NatLessThanWellFounded, WFMin
<1>2. \A l \in I : ~ (l < k)
  BY <1>1 DEF OpToRel
<1> QED
  BY <1>2

\* RemoveFirst looks for the first entry that is equal.
LEMMA FirstFound ==
  ASSUME NEW S, NEW q \in Seq(S), NEW e, \E k \in 1 .. Len(q) : q[k] = e
  PROVE  \E i \in 1 .. Len(q) :
           /\ q[i] = e /\ \A k \in 1 .. Len(q) : q[k] = e => i <= k
           /\ RemoveFirst(q, e) = RemoveAt(q, i)
<1> DEFINE I == {k \in 1 .. Len(q) : q[k] = e}
           i == Min(I)
<1>1. I \in SUBSET Nat /\ I # {}
  BY LenProperties
<1>2. \E k \in I : \A l \in I : k <= l
  <2> HIDE DEF I
  <2> QED
    BY <1>1, LeastNatural
<1>3. i \in I /\ \A l \in I : i <= l
  <2> HIDE DEF I
  <2> QED
    BY <1>2 DEF Min
<1>4. SelectInSeq(q, LAMBDA v : v = e) = i
  BY <1>1 DEF SelectInSeq
<1> HIDE DEF i
<1>5. RemoveFirst(q, e) = RemoveAt(q, i)
  BY <1>4 DEF RemoveFirst
<1> QED
  BY <1>3, <1>5

-----------------------------------------------------------------------------
(* The packets of a slot: each event finds an entry of its own. *)

Matched(q, evs) ==
  \E g \in [evs -> DOMAIN q] :
    /\ \A o, p \in evs : g[o] = g[p] => o = p
    /\ \A o \in evs : q[g[o]] = Transmission(o)

\* A queue with n entries besides those of the events evs.
Holds(q, n, evs) == Len(q) = n + Cardinality(evs) /\ Matched(q, evs)

(***************************************************************************)
(* dequeueTransmission takes out the first entry that equals the packet's: *)
(* it may have been put there for another event, which then finds the      *)
(* packet's own.                                                           *)
(***************************************************************************)
LEMMA EntryTaken ==
  ASSUME NEW S, NEW q \in Seq(S), NEW n \in Nat, NEW evs, IsFiniteSet(evs),
         NEW ev \in evs, Holds(q, n, evs)
  PROVE  /\ RemoveFirst(q, Transmission(ev)) \in Seq(S)
         /\ Holds(RemoveFirst(q, Transmission(ev)), n, evs \ {ev})
<1> DEFINE left == evs \ {ev}
<1>1. Len(q) \in Nat /\ DOMAIN q = 1 .. Len(q)
  BY LenProperties
<1>2. PICK g \in [evs -> DOMAIN q] :
        /\ \A o, p \in evs : g[o] = g[p] => o = p
        /\ \A o \in evs : q[g[o]] = Transmission(o)
  BY DEF Holds, Matched
<1>3. PICK i \in 1 .. Len(q) :
        /\ q[i] = Transmission(ev)
        /\ RemoveFirst(q, Transmission(ev)) = RemoveAt(q, i)
  <2>1. \E k \in 1 .. Len(q) : q[k] = Transmission(ev)
    BY <1>1, <1>2
  <2> QED
    BY <2>1, FirstFound
<1> DEFINE r == RemoveAt(q, i)
           moved == [o \in left |-> IF g[o] = i THEN g[ev] ELSE g[o]]
           h == [o \in left |-> IF moved[o] < i THEN moved[o] ELSE moved[o] - 1]
<1>4. /\ r \in Seq(S) /\ Len(r) = Len(q) - 1 /\ DOMAIN r = 1 .. Len(q) - 1
      /\ \A k \in 1 .. Len(q) - 1 : r[k] = q[IF k < i THEN k ELSE k + 1]
  BY Removed
<1> HIDE DEF r
<1>5. \A o \in left : moved[o] \in 1 .. Len(q) /\ moved[o] # i /\ q[moved[o]] = Transmission(o)
  BY <1>1, <1>2, <1>3
<1>6. \A o, p \in left : moved[o] = moved[p] => o = p
  BY <1>2
<1> HIDE DEF moved
<1>7. \A k \in (1 .. Len(q)) \ {i} :
        LET m == IF k < i THEN k ELSE k - 1 IN
        m \in 1 .. Len(q) - 1 /\ (IF m < i THEN m ELSE m + 1) = k
  BY <1>1
<1>8. \A o \in left : /\ h[o] \in 1 .. Len(q) - 1
                     /\ (IF h[o] < i THEN h[o] ELSE h[o] + 1) = moved[o]
  BY <1>5, <1>7
<1> HIDE DEF h
<1>9. \A o \in left : r[h[o]] = Transmission(o)
  BY <1>4, <1>5, <1>8
<1>10. \A o, p \in left : h[o] = h[p] => o = p
  BY <1>6, <1>8
<1>11. h \in [left -> DOMAIN r]
  <2>1. \A o \in left : h[o] \in DOMAIN r
    BY <1>4, <1>8
  <2> QED
    BY <2>1 DEF h
<1>12. Matched(r, left)
  BY <1>9, <1>10, <1>11 DEF Matched
<1>13. Len(r) = n + Cardinality(left)
  <2>1. /\ Cardinality(evs) \in Nat /\ Cardinality(left) = Cardinality(evs) - 1
    BY FS_CardinalityType, FS_RemoveElement
  <2>2. Len(q) = n + Cardinality(evs)
    BY DEF Holds
  <2> HIDE DEF left
  <2> QED
    BY <1>1, <1>4, <2>1, <2>2
<1> QED
  BY <1>3, <1>4, <1>12, <1>13 DEF Holds, r

(***************************************************************************)
(* enqueueTransmission puts the entry of a new event at the end.           *)
(***************************************************************************)
LEMMA EntryAdded ==
  ASSUME NEW S, NEW q \in Seq(S), NEW n \in Nat, NEW evs, IsFiniteSet(evs),
         NEW ev, ev \notin evs, Transmission(ev) \in S, Holds(q, n, evs)
  PROVE  /\ Append(q, Transmission(ev)) \in Seq(S)
         /\ Holds(Append(q, Transmission(ev)), n, evs \union {ev})
<1> DEFINE more == evs \union {ev}
           t == Transmission(ev)
           r == Append(q, t)
<1>1. Len(q) \in Nat /\ DOMAIN q = 1 .. Len(q)
  BY LenProperties
<1>2. /\ r \in Seq(S) /\ Len(r) = Len(q) + 1 /\ DOMAIN r = 1 .. Len(q) + 1
      /\ r[Len(q) + 1] = t /\ \A k \in 1 .. Len(q) : r[k] = q[k]
  BY <1>1
<1> HIDE DEF r
<1>3. PICK g \in [evs -> DOMAIN q] :
        /\ \A o, p \in evs : g[o] = g[p] => o = p
        /\ \A o \in evs : q[g[o]] = Transmission(o)
  BY DEF Holds, Matched
<1> DEFINE h == [o \in more |-> IF o = ev THEN Len(q) + 1 ELSE g[o]]
<1>4. h[ev] = Len(q) + 1 /\ \A o \in evs : h[o] = g[o] /\ h[o] \in 1 .. Len(q)
  BY <1>1, <1>3
<1>5. h \in [more -> DOMAIN r]
  <2>1. \A o \in more : h[o] \in DOMAIN r
    BY <1>1, <1>2, <1>4
  <2> QED
    BY <2>1
<1> HIDE DEF h
<1>6. \A o \in more : r[h[o]] = Transmission(o)
  BY <1>2, <1>3, <1>4
<1>7. \A o, p \in more : h[o] = h[p] => o = p
  <2>1. \A o \in evs : h[o] # h[ev]
    BY <1>1, <1>4
  <2> QED
    BY <1>3, <1>4, <2>1
<1>8. Matched(r, more)
  BY <1>5, <1>6, <1>7 DEF Matched
<1>9. Len(r) = n + Cardinality(more)
  <2>1. /\ Cardinality(evs) \in Nat /\ Cardinality(more) = Cardinality(evs) + 1
    BY FS_CardinalityType, FS_AddElement
  <2>2. Len(q) = n + Cardinality(evs)
    BY DEF Holds
  <2> HIDE DEF more
  <2> QED
    BY <1>1, <1>2, <2>1, <2>2
<1> QED
  BY <1>2, <1>8, <1>9 DEF Holds, r

-----------------------------------------------------------------------------
(* Links. *)

Entry == [from : Nat, to : Nat, departure : Nat, arrival : Nat]

\* What the operations on a link leave alone.
SameEnds(k, l) == k.a = l.a /\ k.b = l.b /\ k.mode = l.mode /\ k.lossy = l.lossy

LEMMA LinkFields ==
  ASSUME NEW l \in LinkRecords(Nat), NEW n \in Nat
  PROVE  /\ SlotOf(l, n) \in Slot /\ OtherNode(l, n) \in Nat
         /\ l.a \in Nat /\ l.b \in Nat /\ l.delay \in Nat /\ l.bandwidth \in Nat \ {0}
         /\ l.busyUntil \in [Slot -> Nat] /\ l.queue \in [Slot -> Seq(Entry)]
BY DEF LinkRecords, SlotOf, Slot, Entry, OtherNode

LEMMA TravelTimeNat ==
  ASSUME NEW l \in LinkRecords(Nat)
  PROVE  TravelTime(l) \in Nat
<1>1. l.delay \in Nat /\ l.bandwidth \in Nat \ {0} /\ PacketSize \in Nat
  BY LinkFields, LinkAssumption
<1>2. \A x, y \in Nat : y # 0 => x \div y \in Nat
  OBVIOUS
<1>3. PacketSize \div l.bandwidth \in Nat
  BY <1>1, <1>2
<1> QED
  BY <1>1, <1>3 DEF TravelTime

\* k is link l with another queue in slot s.
WithQueue(k, l, s, q) ==
  /\ k \in LinkRecords(Nat) /\ SameEnds(k, l)
  /\ k.queue = [l.queue EXCEPT ![s] = q]

\* dequeueTransmission.
LEMMA DequeuedLink ==
  ASSUME NEW l \in LinkRecords(Nat), NEW e \in Entry,
         RemoveFirst(l.queue[SlotOf(l, e.from)], e) \in Seq(Entry)
  PROVE  WithQueue(DequeueTransmission(l, e), l, SlotOf(l, e.from),
                   RemoveFirst(l.queue[SlotOf(l, e.from)], e))
<1> DEFINE s == SlotOf(l, e.from)
           q == RemoveFirst(l.queue[s], e)
           queue == [l.queue EXCEPT ![s] = q]
           k == DequeueTransmission(l, e)
<1>1. s \in Slot /\ l.queue \in [Slot -> Seq(Entry)]
  <2>1. e.from \in Nat
    BY DEF Entry
  <2> QED
    BY <2>1, LinkFields
<1>2. k = [l EXCEPT !.queue = queue]
  BY <1>1 DEF DequeueTransmission, LinkRecords
<1> HIDE DEF s, q
<1>3. queue \in [Slot -> Seq(Entry)]
  BY <1>1 DEF q, s
<1> HIDE DEF queue, k
<1>4. k \in LinkRecords(Nat) /\ k.queue = queue /\ SameEnds(k, l)
  BY <1>2, <1>3 DEF LinkRecords, SameEnds, Entry
<1> QED
  BY <1>4 DEF WithQueue, k, queue, q, s

\* reserveTransmission.
LEMMA ReservedLink ==
  ASSUME NEW l \in LinkRecords(Nat), NEW n \in Nat, NEW now \in Nat
  PROVE  /\ NextAvailableTime(l, n, now) \in Nat
         /\ ReserveTransmission(l, n, NextAvailableTime(l, n, now)) \in LinkRecords(Nat)
         /\ SameEnds(ReserveTransmission(l, n, NextAvailableTime(l, n, now)), l)
         /\ ReserveTransmission(l, n, NextAvailableTime(l, n, now)).queue = l.queue
<1> DEFINE s == SlotOf(l, n)
           d == NextAvailableTime(l, n, now)
           r == ReserveTransmission(l, n, d)
           busy == [l.busyUntil EXCEPT ![s] = d + TravelTime(l)]
<1>1. s \in Slot /\ l.busyUntil \in [Slot -> Nat] /\ TravelTime(l) \in Nat
  BY LinkFields, TravelTimeNat
<1>2. r = [l EXCEPT !.busyUntil = busy]
  BY <1>1 DEF ReserveTransmission, LinkRecords
<1>3. d \in Nat
  <2>1. l.busyUntil[s] \in Nat
    BY <1>1
  <2> QED
    BY <2>1 DEF NextAvailableTime
<1> HIDE DEF s, d, r
<1>4. busy \in [Slot -> Nat]
  BY <1>1, <1>3
<1> HIDE DEF busy
<1>5. r \in LinkRecords(Nat) /\ r.queue = l.queue /\ SameEnds(r, l)
  BY <1>2, <1>4 DEF LinkRecords, SameEnds
<1> QED
  BY <1>3, <1>5 DEF r, d

\* enqueueTransmission.
LEMMA EnqueuedLink ==
  ASSUME NEW l \in LinkRecords(Nat), NEW e \in Entry
  PROVE  WithQueue(EnqueueTransmission(l, e), l, SlotOf(l, e.from),
                   Append(l.queue[SlotOf(l, e.from)], e))
<1> DEFINE s == SlotOf(l, e.from)
           q == Append(l.queue[s], e)
           queue == [l.queue EXCEPT ![s] = q]
           k == EnqueueTransmission(l, e)
<1>1. s \in Slot /\ l.queue \in [Slot -> Seq(Entry)]
  <2>1. e.from \in Nat
    BY DEF Entry
  <2> QED
    BY <2>1, LinkFields
<1>2. k = [l EXCEPT !.queue = queue]
  BY <1>1 DEF EnqueueTransmission, LinkRecords
<1>3. q \in Seq(Entry)
  BY <1>1
<1> HIDE DEF s, q
<1>4. queue \in [Slot -> Seq(Entry)]
  BY <1>1, <1>3
<1> HIDE DEF queue, k
<1>5. k \in LinkRecords(Nat) /\ k.queue = queue /\ SameEnds(k, l)
  BY <1>2, <1>4 DEF LinkRecords, SameEnds, Entry
<1> QED
  BY <1>5 DEF WithQueue, k, queue, q, s

\* setGlobalLossProb changes no queue.
LEMMA LossyLinks ==
  ASSUME NEW ls \in Seq(LinkRecords(Nat)), NEW loss \in BOOLEAN
  PROVE  /\ WithLoss(ls, loss) \in Seq(LinkRecords(Nat))
         /\ DOMAIN WithLoss(ls, loss) = DOMAIN ls
         /\ Len(WithLoss(ls, loss)) = Len(ls)
         /\ \A i \in DOMAIN ls :
              LET k == WithLoss(ls, loss)[i] IN
              /\ k.lossy = loss /\ k.queue = ls[i].queue
              /\ \A n : SlotOf(k, n) = SlotOf(ls[i], n)
<1>1. DOMAIN ls = 1 .. Len(ls) /\ Len(ls) \in Nat
  BY LenProperties
<1> DEFINE ks == WithLoss(ls, loss)
<1>2. DOMAIN ks = 1 .. Len(ls)
  BY <1>1 DEF WithLoss
<1>3. ASSUME NEW i \in DOMAIN ls
      PROVE  /\ ks[i] \in LinkRecords(Nat) /\ ks[i].lossy = loss /\ ks[i].queue = ls[i].queue
             /\ \A n : SlotOf(ks[i], n) = SlotOf(ls[i], n)
  <2>1. ks[i] = [ls[i] EXCEPT !.lossy = loss] /\ ls[i] \in LinkRecords(Nat)
    BY <1>1, ElementOfSeq DEF WithLoss
  <2> HIDE DEF ks
  <2>2. /\ ks[i] \in LinkRecords(Nat) /\ ks[i].lossy = loss /\ ks[i].queue = ls[i].queue
        /\ ks[i].mode = ls[i].mode /\ ks[i].a = ls[i].a
    BY <2>1 DEF LinkRecords
  <2> QED
    BY <2>2 DEF SlotOf
<1>4. ks \in Seq(LinkRecords(Nat))
  <2>1. ks = [i \in 1 .. Len(ls) |-> ks[i]]
    BY <1>1 DEF WithLoss
  <2>2. \A i \in 1 .. Len(ls) : ks[i] \in LinkRecords(Nat)
    BY <1>1, <1>3
  <2> HIDE DEF ks
  <2>3. ks \in [1 .. Len(ls) -> LinkRecords(Nat)]
    BY <2>1, <2>2
  <2> QED
    BY <1>1, <2>3, SeqDef
<1>5. Len(ks) = Len(ls)
  <2> HIDE DEF ks
  <2> QED
    BY <1>1, <1>2, <1>4, LenProperties
<1> QED
  BY <1>1, <1>2, <1>3, <1>4, <1>5

-----------------------------------------------------------------------------
(* Engines. *)

Engine == [clock : Nat, events : SUBSET Event, scheduled : Nat, offset : Nat,
           observed : BOOLEAN]

\* An engine over n links: identifiers of events are never used again.
GoodEngine(e, n) ==
  /\ e \in Engine /\ IsFiniteSet(e.events)
  /\ \A ev \in e.events : ev.id < e.scheduled /\ ev.link \in 0 .. n

\* f has the same packets on their way as e.
SameArrivals(e, f) ==
  /\ f.observed = e.observed
  /\ \A ev : ev.link # 0 => (ev \in f.events <=> ev \in e.events)

\* The events whose packets slot s of link l, the i-th, holds.
OnSlot(e, i, l, s) == {ev \in e.events : ev.link = i /\ SlotOf(l, ev.from) = s}

SlotsHold(e, ls, others) ==
  \A i \in DOMAIN ls, s \in Slot :
    Holds(ls[i].queue[s], others[i][s], OnSlot(e, i, ls[i], s))

\* A packet on its way is among those shown.
Shown(e, shown, now) ==
  e.observed =>
    \A ev \in e.events : ev.link # 0 /\ now < ev.at => Transmission(ev) \in shown

LEMMA SessionEventType ==
  ASSUME NEW t \in Nat, NEW n \in Nat, NEW a \in Nat, NEW b \in Nat
  PROVE  /\ SessionEvent(t, n, a, b) \in Event
         /\ SessionEvent(t, n, a, b).link = 0 /\ SessionEvent(t, n, a, b).id = n
BY DEF SessionEvent, Event

LEMMA ArrivalType ==
  ASSUME NEW id \in Nat, NEW i \in Nat, NEW t \in Entry
  PROVE  /\ Arrival(id, i, t) \in Event /\ Transmission(Arrival(id, i, t)) = t
         /\ Arrival(id, i, t).id = id /\ Arrival(id, i, t).link = i
         /\ Arrival(id, i, t).from = t.from /\ Arrival(id, i, t).at = t.arrival
BY DEF Event, Arrival, Entry, Transmission

LEMMA TransmissionType ==
  ASSUME NEW ev \in Event
  PROVE  /\ Transmission(ev) \in Entry /\ Transmission(ev).from = ev.from
         /\ Transmission(ev).arrival = ev.at
BY DEF Event, Entry, Transmission

\* Engines change in their events and counters.
Changed(e, clock, events, scheduled, offset) ==
  [e EXCEPT !.clock = clock, !.events = events, !.scheduled = scheduled, !.offset = offset]

LEMMA EngineChanged ==
  ASSUME NEW e \in Engine, NEW clock \in Nat, NEW events \in SUBSET Event,
         NEW scheduled \in Nat, NEW offset \in Nat
  PROVE  /\ Changed(e, clock, events, scheduled, offset) \in Engine
         /\ Changed(e, clock, events, scheduled, offset).observed = e.observed
         /\ Changed(e, clock, events, scheduled, offset).events = events
         /\ Changed(e, clock, events, scheduled, offset).scheduled = scheduled
BY DEF Engine, Changed

LEMMA SameArrivalsKeep ==
  ASSUME NEW e, NEW f, SameArrivals(e, f), NEW ls \in Seq(LinkRecords(Nat))
  PROVE  /\ \A others : SlotsHold(e, ls, others) => SlotsHold(f, ls, others)
         /\ \A shown, now : Shown(e, shown, now) => Shown(f, shown, now)
<1>1. \A i \in DOMAIN ls : i # 0
  BY LenProperties
<1>2. \A i \in DOMAIN ls : \A s : OnSlot(f, i, ls[i], s) = OnSlot(e, i, ls[i], s)
  BY <1>1 DEF SameArrivals, OnSlot
<1> QED
  BY <1>2 DEF SameArrivals, SlotsHold, Shown

\* schedule, of an event that goes into the queue as it is numbered.
LEMMA EventAdded ==
  ASSUME NEW n \in Nat, NEW e, GoodEngine(e, n), NEW ev \in Event, ev.id = e.scheduled,
         ev.link \in 0 .. n
  PROVE  /\ GoodEngine(WithEvent(e, ev), n) /\ ev \notin e.events
         /\ WithEvent(e, ev).events = e.events \union {ev}
         /\ WithEvent(e, ev).observed = e.observed
<1> DEFINE f == WithEvent(e, ev)
<1>1. /\ e \in Engine /\ e.clock \in Nat /\ e.events \in SUBSET Event
      /\ e.scheduled \in Nat /\ e.offset \in Nat
  BY DEF GoodEngine, Engine
<1> DEFINE events == e.events \union {ev}
           scheduled == e.scheduled + 1
<1>a. f = Changed(e, e.clock, events, scheduled, e.offset)
  BY <1>1 DEF WithEvent, Engine, Changed
<1> HIDE DEF f
<1>2. /\ f \in Engine /\ f.observed = e.observed /\ f.events = e.events \union {ev}
      /\ f.scheduled = e.scheduled + 1
  <2>1. events \in SUBSET Event /\ scheduled \in Nat
    BY <1>1
  <2> HIDE DEF events, scheduled
  <2>2. /\ f \in Engine /\ f.observed = e.observed /\ f.events = events
        /\ f.scheduled = scheduled
    BY <1>1, <1>a, <2>1, EngineChanged
  <2> QED
    BY <2>2 DEF events, scheduled
<1>3. \A o \in e.events : o.id \in Nat /\ o.id < e.scheduled
  BY <1>1 DEF GoodEngine, Event
<1>4. ev \notin e.events
  BY <1>1, <1>3
<1>5. IsFiniteSet(f.events)
  BY <1>2, FS_AddElement DEF GoodEngine
<1>6. \A o \in f.events : o.id < f.scheduled /\ o.link \in 0 .. n
  <2>1. \A a, b \in Nat : (a < b \/ a = b) => a < b + 1
    OBVIOUS
  <2>2. \A o \in e.events : o.id < f.scheduled /\ o.link \in 0 .. n
    BY <1>1, <1>2, <1>3, <2>1 DEF GoodEngine
  <2>3. ev.id < f.scheduled
    BY <1>1, <1>2, <2>1
  <2> QED
    BY <1>2, <2>2, <2>3
<1> QED
  BY <1>2, <1>4, <1>5, <1>6 DEF GoodEngine, f

\* A timer of a session.
LEMMA TimerAdded ==
  ASSUME NEW n \in Nat, NEW e, GoodEngine(e, n), NEW a \in Nat, NEW b \in Nat
  PROVE  LET f == WithEvent(e, SessionEvent(e.clock + 1, e.scheduled, a, b)) IN
         GoodEngine(f, n) /\ SameArrivals(e, f)
<1> DEFINE time == e.clock + 1
           id == e.scheduled
           ev == SessionEvent(time, id, a, b)
<1>1. time \in Nat /\ id \in Nat
  <2>1. e.clock \in Nat /\ e.scheduled \in Nat
    BY DEF GoodEngine, Engine
  <2> QED
    BY <2>1
<1> HIDE DEF time, id
<1>2. ev \in Event /\ ev.link = 0 /\ ev.id = id
  BY <1>1, SessionEventType
<1> HIDE DEF ev
<1>3. /\ GoodEngine(WithEvent(e, ev), n)
      /\ WithEvent(e, ev).events = e.events \union {ev}
      /\ WithEvent(e, ev).observed = e.observed
  <2>1. 0 \in 0 .. n
    OBVIOUS
  <2> QED
    BY <1>2, <2>1, EventAdded DEF id
<1>4. SameArrivals(e, WithEvent(e, ev))
  BY <1>2, <1>3 DEF SameArrivals
<1> QED
  BY <1>3, <1>4 DEF ev, time, id

\* The place of a pair among those that are started with it.
LEMMA PlaceBelow ==
  ASSUME NEW pairs \in SUBSET (Nat \X Nat), IsFiniteSet(pairs), NEW p \in pairs
  PROVE  Place(p, pairs) \in Nat /\ Place(p, pairs) < Cardinality(pairs)
<1> DEFINE before == {q \in pairs : Before(q, p)}
           others == pairs \ {p}
<1>1. p[1] \in Nat /\ p[2] \in Nat
  OBVIOUS
<1>2. before \subseteq others
  BY <1>1 DEF Before
<1>3. /\ IsFiniteSet(others) /\ Cardinality(others) = Cardinality(pairs) - 1
      /\ Cardinality(pairs) \in Nat
  BY FS_RemoveElement, FS_CardinalityType
<1>4. Cardinality(before) \in Nat /\ Cardinality(before) <= Cardinality(others)
  <2> HIDE DEF before, others
  <2> QED
    BY <1>2, <1>3, FS_Subset, FS_CardinalityType
<1> HIDE DEF others
<1> QED
  BY <1>3, <1>4 DEF Place

(***************************************************************************)
(* Sessions started together get an event each, and identifiers in turn    *)
(* (startTCPConnection).                                                   *)
(***************************************************************************)
LEMMA SessionsStarted ==
  ASSUME NEW n \in Nat, NEW e, GoodEngine(e, n), NEW pairs \in SUBSET (Nat \X Nat),
         IsFiniteSet(pairs)
  PROVE  GoodEngine(Started(e, pairs), n) /\ SameArrivals(e, Started(e, pairs))
<1> DEFINE f == Started(e, pairs)
           new == Handshakes(e, pairs)
           count == Cardinality(pairs)
<1>1. /\ e \in Engine /\ e.clock \in Nat /\ e.scheduled \in Nat /\ e.offset \in Nat
      /\ e.events \in SUBSET Event
  BY DEF GoodEngine, Engine
<1>2. count \in Nat
  BY FS_CardinalityType
<1>3. \A ev \in new : ev \in Event /\ ev.link = 0 /\ ev.id < e.scheduled + count
  <2> SUFFICES ASSUME NEW p \in pairs
               PROVE  LET ev == SessionEvent(e.clock + e.offset + Place(p, pairs),
                                             e.scheduled + Place(p, pairs), p[1], p[2])
                      IN  ev \in Event /\ ev.link = 0 /\ ev.id < e.scheduled + count
    BY DEF Handshakes
  <2>1. Place(p, pairs) \in Nat /\ Place(p, pairs) < count
    BY PlaceBelow
  <2>2. p[1] \in Nat /\ p[2] \in Nat
    OBVIOUS
  <2> DEFINE time == e.clock + e.offset + Place(p, pairs)
             id == e.scheduled + Place(p, pairs)
             from == p[1]
             to == p[2]
             ev == SessionEvent(time, id, from, to)
  <2>3. time \in Nat /\ id \in Nat /\ id < e.scheduled + count
    <3> HIDE DEF count
    <3> QED
      BY <1>1, <1>2, <2>1
  <2> HIDE DEF time, id, count, from, to
  <2>4. ev \in Event /\ ev.link = 0 /\ ev.id = id
    <3>1. from \in Nat /\ to \in Nat
      BY <2>2 DEF from, to
    <3>2. time \in Nat /\ id \in Nat
      BY <2>3
    <3> QED
      BY <3>1, <3>2 DEF SessionEvent, Event
  <2>5. ev.id < e.scheduled + count
    BY <2>3, <2>4
  <2> QED
    BY <2>4, <2>5 DEF time, id, from, to
<1>4. IsFiniteSet(new)
  <2> DEFINE F(p) == SessionEvent(e.clock + e.offset + Place(p, pairs),
                                  e.scheduled + Place(p, pairs), p[1], p[2])
  <2>1. new = {F(p) : p \in pairs}
    BY DEF Handshakes
  <2> HIDE DEF F
  <2> DEFINE g == [p \in pairs |-> F(p)]
  <2>2. new = {g[p] : p \in pairs}
    BY <2>1
  <2>3. g \in Surjection(pairs, new)
    BY <2>2 DEF Surjection
  <2> QED
    BY <2>3, FS_Surjection
<1> HIDE DEF new, count
<1> DEFINE events == e.events \union new
           scheduled == e.scheduled + count
           offset == e.offset + count
<1>5. f = Changed(e, e.clock, events, scheduled, offset)
  BY <1>1 DEF Started, new, count, Engine, Changed
<1>6. events \in SUBSET Event /\ scheduled \in Nat /\ offset \in Nat
  BY <1>1, <1>2, <1>3
<1> HIDE DEF f
<1>7. /\ f \in Engine /\ f.events = e.events \union new /\ f.observed = e.observed
      /\ f.scheduled = e.scheduled + count
  <2> HIDE DEF events, scheduled, offset
  <2>1. /\ f \in Engine /\ f.observed = e.observed /\ f.events = events
        /\ f.scheduled = scheduled
    BY <1>1, <1>5, <1>6, EngineChanged
  <2> QED
    BY <2>1 DEF events, scheduled
<1>8. IsFiniteSet(f.events)
  BY ZenonT(60), <1>4, <1>7, FS_Union DEF GoodEngine
<1>9. \A ev \in f.events : ev.id < f.scheduled /\ ev.link \in 0 .. n
  <2>1. \A ev \in e.events : ev.id \in Nat /\ ev.id < e.scheduled /\ ev.link \in 0 .. n
    BY <1>1 DEF GoodEngine, Event
  <2>2. \A ev \in e.events : ev.id < f.scheduled /\ ev.link \in 0 .. n
    <3>1. \A a, b, c \in Nat : a < b => a < b + c
      OBVIOUS
    <3> QED
      BY <1>1, <1>2, <1>7, <2>1, <3>1
  <2>3. \A ev \in new : ev.id < f.scheduled /\ ev.link \in 0 .. n
    BY <1>3, <1>7
  <2> QED
    BY <1>7, <2>2, <2>3
<1>10. SameArrivals(e, f)
  BY <1>3, <1>7 DEF SameArrivals
<1> QED
  BY <1>7, <1>8, <1>9, <1>10 DEF GoodEngine, f

\* The pairs of nodes of which generatePackets starts sessions.
LEMMA PlanFinite ==
  ASSUME NEW ls \in Seq(LinkRecords(Nat))
  PROVE  Plan(ls) \in SUBSET (Nat \X Nat) /\ IsFiniteSet(Plan(ls))
<1>1. /\ DOMAIN ls = 1 .. Len(ls) /\ Len(ls) \in Nat
      /\ \A i \in DOMAIN ls : ls[i] \in LinkRecords(Nat)
  BY LenProperties, ElementOfSeq
<1>2. \A i \in DOMAIN ls : ls[i].a \in Nat /\ ls[i].b \in Nat
  BY <1>1 DEF LinkRecords
<1>3. IsFiniteSet(DOMAIN ls)
  BY <1>1, FS_Interval
<1> DEFINE g == [i \in DOMAIN ls |-> <<ls[i].a, ls[i].b>>]
<1>4. g \in Surjection(DOMAIN ls, Plan(ls))
  BY DEF Surjection, Plan
<1>5. IsFiniteSet(Plan(ls))
  BY <1>3, <1>4, FS_Surjection
<1> QED
  BY <1>2, <1>5 DEF Plan

-----------------------------------------------------------------------------
(* Executing an event. *)

GoodLinks(ls) ==
  ls \in Seq(LinkRecords(Nat)) /\ \A i \in DOMAIN ls : ls[i].lossy = lossy

\* What holds of an engine, its links and the packets shown, also between the
\* steps of processEvent.
Sound(e, ls, shown) ==
  /\ GoodLinks(ls) /\ DOMAIN ls = DOMAIN links
  /\ GoodEngine(e, Len(ls))
  /\ SlotsHold(e, ls, abandoned)
  /\ shown \subseteq Entry /\ Shown(e, shown, visualTime)

AbandonedType == abandoned \in [DOMAIN links -> [Slot -> Nat]]

\* One link of several is replaced.
Replaced(ls, i, k) == [ls EXCEPT ![i] = k]

LEMMA LinkReplaced ==
  ASSUME NEW ls, GoodLinks(ls), NEW i \in DOMAIN ls, NEW k \in LinkRecords(Nat),
         SameEnds(k, ls[i])
  PROVE  /\ GoodLinks(Replaced(ls, i, k))
         /\ DOMAIN Replaced(ls, i, k) = DOMAIN ls /\ Len(Replaced(ls, i, k)) = Len(ls)
         /\ Replaced(ls, i, k)[i] = k
         /\ \A j \in DOMAIN ls : j # i => Replaced(ls, i, k)[j] = ls[j]
<1>1. ls \in Seq(LinkRecords(Nat)) /\ i \in 1 .. Len(ls) /\ DOMAIN ls = 1 .. Len(ls)
  BY LenProperties DEF GoodLinks
<1> DEFINE ks == Replaced(ls, i, k)
<1>2. /\ ks \in Seq(LinkRecords(Nat)) /\ Len(ks) = Len(ls)
      /\ \A j \in 1 .. Len(ls) : ks[j] = IF j = i THEN k ELSE ls[j]
  BY <1>1, ExceptSeq DEF Replaced
<1> HIDE DEF ks
<1>3. DOMAIN ks = DOMAIN ls
  BY <1>1, <1>2, LenProperties
<1>4. \A j \in DOMAIN ls : ks[j].lossy = lossy
  BY <1>1, <1>2 DEF GoodLinks, SameEnds
<1> QED
  BY <1>1, <1>2, <1>3, <1>4 DEF GoodLinks, ks

LEMMA LinkTypes ==
  ASSUME NEW ls, GoodLinks(ls), NEW i \in DOMAIN ls
  PROVE  i \in 1 .. Len(ls) /\ Len(ls) \in Nat /\ ls[i] \in LinkRecords(Nat)
BY LenProperties, ElementOfSeq DEF GoodLinks

\* The slots of a link with the same queues hold the same packets.
LEMMA OnSlotSame ==
  ASSUME NEW k, NEW l, SameEnds(k, l)
  PROVE  \A e, i, s : OnSlot(e, i, k, s) = OnSlot(e, i, l, s)
BY DEF OnSlot, SameEnds, SlotOf

\* The event taken from the queue.
LEMMA EventPopped ==
  ASSUME NEW n \in Nat, NEW e, GoodEngine(e, n), NEW ev \in e.events
  PROVE  LET f == [e EXCEPT !.clock = ev.at, !.events = @ \ {ev}] IN
         GoodEngine(f, n) /\ f.observed = e.observed /\ f.events = e.events \ {ev}
<1> DEFINE f == [e EXCEPT !.clock = ev.at, !.events = @ \ {ev}]
           events == e.events \ {ev}
           time == ev.at
<1>1. /\ e \in Engine /\ e.events \in SUBSET Event
      /\ e.scheduled \in Nat /\ e.offset \in Nat
  BY DEF GoodEngine, Engine
<1>2. time \in Nat
  BY <1>1 DEF Event
<1>3. f = Changed(e, time, events, e.scheduled, e.offset)
  BY <1>1 DEF Engine, Changed
<1>4. events \in SUBSET Event
  BY <1>1
<1> HIDE DEF f, time, events
<1>5. /\ f \in Engine /\ f.observed = e.observed /\ f.events = events
      /\ f.scheduled = e.scheduled
  BY <1>1, <1>2, <1>3, <1>4, EngineChanged
<1>6. IsFiniteSet(f.events)
  BY <1>5, FS_RemoveElement DEF events, GoodEngine
<1>7. \A o \in f.events : o.id < f.scheduled /\ o.link \in 0 .. n
  BY <1>5 DEF events, GoodEngine
<1> QED
  BY <1>5, <1>6, <1>7 DEF GoodEngine, f, events

(***************************************************************************)
(* The arrival of a packet releases its slot, and no other                 *)
(* (PacketReceivedEvent::execute).                                         *)
(***************************************************************************)
LEMMA EventReleased ==
  ASSUME AbandonedType, NEW e, NEW ls, NEW shown, Sound(e, ls, shown), NEW ev \in e.events
  PROVE  Sound([e EXCEPT !.clock = ev.at, !.events = @ \ {ev}], Released(ls, ev), shown)
<1> DEFINE f == [e EXCEPT !.clock = ev.at, !.events = @ \ {ev}]
           n == Len(ls)
           t == Transmission(ev)
<1>1. n \in Nat /\ GoodEngine(e, n) /\ GoodLinks(ls)
  <2>1. ls \in Seq(LinkRecords(Nat))
    BY DEF Sound, GoodLinks
  <2> QED
    BY <2>1, LenProperties DEF Sound
<1>2. GoodEngine(f, n) /\ f.observed = e.observed /\ f.events = e.events \ {ev}
  BY <1>1, EventPopped
<1> HIDE DEF f, n
<1>3. ev \in Event /\ IsFiniteSet(e.events) /\ ev.link \in 0 .. n
  BY <1>1 DEF GoodEngine, Engine
<1>4. Shown(f, shown, visualTime)
  BY <1>2 DEF Sound, Shown
<1>5. CASE ev.link = 0
  <2>1. SameArrivals(e, f)
    BY <1>2, <1>5 DEF SameArrivals
  <2>2. SlotsHold(f, ls, abandoned)
    BY <1>1, <2>1, SameArrivalsKeep DEF Sound, GoodLinks
  <2>3. Released(ls, ev) = ls
    BY <1>5 DEF Released
  <2> QED
    BY <1>2, <1>4, <2>2, <2>3 DEF Sound, f, n
<1>6. CASE ev.link # 0
  <2> DEFINE i == ev.link
             l == ls[i]
             x == SlotOf(l, ev.from)
             k == DequeueTransmission(l, t)
             ks == Released(ls, ev)
  <2>1. i \in DOMAIN ls /\ l \in LinkRecords(Nat)
    <3>1. DOMAIN ls = 1 .. n
      BY <1>1, LenProperties DEF GoodLinks, n
    <3>2. i \in DOMAIN ls
      BY <1>1, <1>3, <1>6, <3>1
    <3> QED
      BY <1>1, <3>2, LinkTypes
  <2>2. t \in Entry /\ t.from = ev.from /\ ev.from \in Nat
    BY <1>3, TransmissionType DEF Event
  <2>3. x \in Slot /\ l.queue \in [Slot -> Seq(Entry)]
    BY <2>1, <2>2, LinkFields
  <2> DEFINE on == OnSlot(e, i, l, x)
             r == RemoveFirst(l.queue[x], t)
  <2>4. /\ IsFiniteSet(on) /\ ev \in on /\ abandoned[i][x] \in Nat
        /\ Holds(l.queue[x], abandoned[i][x], on)
    <3>1. IsFiniteSet(on)
      BY <1>3, FS_Subset DEF OnSlot
    <3>2. abandoned[i] \in [Slot -> Nat]
      BY <2>1 DEF AbandonedType, Sound
    <3>3. ev \in on
      BY DEF OnSlot
    <3> HIDE DEF on, l, x
    <3>4. Holds(ls[i].queue[x], abandoned[i][x], OnSlot(e, i, ls[i], x))
      BY <2>1, <2>3 DEF Sound, SlotsHold
    <3> QED
      BY <2>3, <3>1, <3>2, <3>3, <3>4 DEF on, l
  <2>5. r \in Seq(Entry) /\ Holds(r, abandoned[i][x], on \ {ev})
    <3>1. l.queue[x] \in Seq(Entry)
      BY <2>3
    <3> HIDE DEF on, l, x, t
    <3> QED
      BY <2>4, <3>1, EntryTaken DEF t
  <2>6. WithQueue(k, l, x, r)
    <3> HIDE DEF l, t
    <3>1. RemoveFirst(l.queue[SlotOf(l, t.from)], t) \in Seq(Entry)
      BY <2>2, <2>5
    <3> QED
      BY <2>1, <2>2, <3>1, DequeuedLink
  <2>7. ks = Replaced(ls, i, k)
    BY <1>6 DEF Released, Replaced
  <2> HIDE DEF k, r, ks, t, x
  <2>8. /\ GoodLinks(ks) /\ DOMAIN ks = DOMAIN ls /\ Len(ks) = n
        /\ ks[i] = k /\ \A j \in DOMAIN ls : j # i => ks[j] = ls[j]
    <3>1. k \in LinkRecords(Nat) /\ SameEnds(k, ls[i])
      BY <2>6 DEF WithQueue
    <3> HIDE DEF i
    <3> QED
      BY <1>1, <2>1, <2>7, <3>1, LinkReplaced DEF n
  <2>9. ASSUME NEW j \in DOMAIN ks, NEW s \in Slot
        PROVE  Holds(ks[j].queue[s], abandoned[j][s], OnSlot(f, j, ks[j], s))
    <3>1. Holds(ls[j].queue[s], abandoned[j][s], OnSlot(e, j, ls[j], s))
      BY <2>8 DEF Sound, SlotsHold
    <3>2. CASE j # i
      <4>1. OnSlot(f, j, ls[j], s) = OnSlot(e, j, ls[j], s)
        BY <1>2, <3>2 DEF OnSlot
      <4> QED
        BY <2>8, <3>1, <3>2, <4>1
    <3>3. CASE j = i
      <4>1. OnSlot(f, i, k, s) = OnSlot(f, i, l, s)
        BY <2>6, OnSlotSame DEF WithQueue
      <4>2. k.queue = [l.queue EXCEPT ![x] = r]
        BY <2>6 DEF WithQueue
      <4>3. CASE s = x
        <5>1. OnSlot(f, i, l, x) = on \ {ev}
          BY <1>2 DEF OnSlot
        <5>2. k.queue[x] = r
          BY <2>3, <4>2
        <5> HIDE DEF i, l, on
        <5> QED
          BY <2>5, <2>8, <3>3, <4>1, <4>3, <5>1, <5>2
      <4>4. CASE s # x
        <5>1. OnSlot(f, i, l, s) = OnSlot(e, i, l, s)
          BY <1>2, <4>4 DEF OnSlot, x
        <5>2. k.queue[s] = l.queue[s]
          BY <2>3, <4>2, <4>4
        <5> HIDE DEF i
        <5> QED
          BY <2>8, <3>1, <3>3, <4>1, <5>1, <5>2
      <4> QED
        BY <4>3, <4>4
    <3> QED
      BY <3>2, <3>3
  <2>10. SlotsHold(f, ks, abandoned)
    BY <2>9 DEF SlotsHold
  <2> QED
    BY <1>2, <1>4, <2>8, <2>10 DEF Sound, f, ks
<1> QED
  BY <1>5, <1>6

(***************************************************************************)
(* A packet sent over a link is refused, lost with its reservation, or     *)
(* under way: then its entry is in the slot, its arrival in the queue and  *)
(* the packet on the screen (sendPacket).                                  *)
(***************************************************************************)
LEMMA TransmissionRefused ==
  ASSUME NEW e, NEW ls, Sound(e, ls, animated), NEW i \in DOMAIN ls, NEW k \in LinkRecords(Nat),
         SameEnds(k, ls[i]), k.queue = ls[i].queue
  PROVE  Sound(e, Replaced(ls, i, k), animated)
<1> DEFINE ks == Replaced(ls, i, k)
<1>1. GoodLinks(ls) /\ GoodEngine(e, Len(ls)) /\ SlotsHold(e, ls, abandoned)
  BY DEF Sound
<1>2. /\ GoodLinks(ks) /\ DOMAIN ks = DOMAIN ls /\ Len(ks) = Len(ls)
      /\ ks[i] = k /\ \A j \in DOMAIN ls : j # i => ks[j] = ls[j]
  BY <1>1, LinkReplaced
<1> HIDE DEF ks
<1>3. ASSUME NEW j \in DOMAIN ks, NEW s \in Slot
      PROVE  Holds(ks[j].queue[s], abandoned[j][s], OnSlot(e, j, ks[j], s))
  <2>1. Holds(ls[j].queue[s], abandoned[j][s], OnSlot(e, j, ls[j], s))
    BY <1>1, <1>2 DEF SlotsHold
  <2>2. CASE j # i
    BY <1>2, <2>1, <2>2
  <2>3. CASE j = i
    <3>1. OnSlot(e, i, k, s) = OnSlot(e, i, ls[i], s)
      BY OnSlotSame
    <3> QED
      BY <1>2, <2>1, <2>3, <3>1
  <2> QED
    BY <2>2, <2>3
<1>4. SlotsHold(e, ks, abandoned)
  BY <1>3 DEF SlotsHold
<1> QED
  BY <1>1, <1>2, <1>4 DEF Sound, ks

LEMMA TransmissionUnderWay ==
  ASSUME AbandonedType, NEW e, NEW ls, Sound(e, ls, animated), NEW i \in DOMAIN ls,
         NEW t \in Entry, NEW k,
         WithQueue(k, ls[i], SlotOf(ls[i], t.from),
                   Append(ls[i].queue[SlotOf(ls[i], t.from)], t))
  PROVE  Sound(WithEvent(e, Arrival(e.scheduled, i, t)), Replaced(ls, i, k),
               IF e.observed THEN animated \union {t} ELSE animated)
<1> DEFINE n == Len(ls)
           l == ls[i]
           x == SlotOf(l, t.from)
           q == Append(l.queue[x], t)
           id == e.scheduled
           ev == Arrival(id, i, t)
           f == WithEvent(e, ev)
           ks == Replaced(ls, i, k)
           shown == IF e.observed THEN animated \union {t} ELSE animated
<1>1. GoodLinks(ls) /\ GoodEngine(e, n) /\ SlotsHold(e, ls, abandoned)
  BY DEF Sound
<1>2. i \in 1 .. n /\ n \in Nat /\ l \in LinkRecords(Nat) /\ i \in Nat
  BY <1>1, LinkTypes
<1>3. id \in Nat /\ IsFiniteSet(e.events)
  BY <1>1 DEF GoodEngine, Engine
<1> HIDE DEF id, n
<1>4. /\ ev \in Event /\ Transmission(ev) = t /\ ev.id = id /\ ev.link = i
      /\ ev.from = t.from /\ ev.at = t.arrival
  BY <1>2, <1>3, ArrivalType
<1> HIDE DEF ev
<1>5. /\ GoodEngine(f, n) /\ f.events = e.events \union {ev} /\ f.observed = e.observed
      /\ ev \notin e.events
  <2>1. i \in 0 .. n
    BY <1>2
  <2> QED
    BY <1>1, <1>2, <1>4, <2>1, EventAdded DEF id
<1> HIDE DEF f
<1>6. x \in Slot /\ l.queue \in [Slot -> Seq(Entry)]
  <2>1. t.from \in Nat
    BY DEF Entry
  <2> QED
    BY <1>2, <2>1, LinkFields
<1> DEFINE on == OnSlot(e, i, l, x)
<1>7. Holds(q, abandoned[i][x], on \union {ev})
  <2>1. IsFiniteSet(on)
    BY <1>3, FS_Subset DEF OnSlot
  <2>2. abandoned[i][x] \in Nat
    <3>1. i \in DOMAIN links
      BY DEF Sound
    <3>2. abandoned[i] \in [Slot -> Nat]
      BY <3>1 DEF AbandonedType
    <3> HIDE DEF x
    <3> QED
      BY <1>6, <3>2
  <2>3. ev \notin on
    BY <1>5 DEF OnSlot
  <2> HIDE DEF on, l, x
  <2>4. Holds(l.queue[x], abandoned[i][x], on)
    BY <1>1, <1>6 DEF SlotsHold, on, l
  <2>5. l.queue[x] \in Seq(Entry)
    BY <1>6
  <2> QED
    BY <1>4, <2>1, <2>2, <2>3, <2>4, <2>5, EntryAdded
<1>8. k \in LinkRecords(Nat) /\ SameEnds(k, l) /\ k.queue = [l.queue EXCEPT ![x] = q]
  BY DEF WithQueue
<1> HIDE DEF x, q
<1>9. /\ GoodLinks(ks) /\ DOMAIN ks = DOMAIN ls /\ Len(ks) = n
      /\ ks[i] = k /\ \A j \in DOMAIN ls : j # i => ks[j] = ls[j]
  BY <1>1, <1>8, LinkReplaced DEF n
<1> HIDE DEF ks
<1>10. ASSUME NEW j \in DOMAIN ks, NEW s \in Slot
       PROVE  Holds(ks[j].queue[s], abandoned[j][s], OnSlot(f, j, ks[j], s))
  <2>1. Holds(ls[j].queue[s], abandoned[j][s], OnSlot(e, j, ls[j], s))
    BY <1>1, <1>9 DEF SlotsHold
  <2>2. CASE j # i
    <3>1. OnSlot(f, j, ls[j], s) = OnSlot(e, j, ls[j], s)
      BY <1>4, <1>5, <2>2 DEF OnSlot
    <3> QED
      BY <1>9, <2>1, <2>2, <3>1
  <2>3. CASE j = i
    <3>1. OnSlot(f, i, k, s) = OnSlot(f, i, l, s)
      BY <1>8, OnSlotSame
    <3>2. CASE s = x
      <4>1. OnSlot(f, i, l, x) = on \union {ev}
        BY <1>4, <1>5 DEF OnSlot, x
      <4>2. k.queue[x] = q
        BY <1>6, <1>8
      <4> HIDE DEF l, on
      <4> QED
        BY <1>7, <1>9, <2>3, <3>1, <3>2, <4>1, <4>2
    <3>3. CASE s # x
      <4>1. OnSlot(f, i, l, s) = OnSlot(e, i, l, s)
        BY <1>4, <1>5, <3>3 DEF OnSlot, x
      <4>2. k.queue[s] = l.queue[s]
        BY <1>6, <1>8, <3>3
      <4> QED
        BY <1>9, <2>1, <2>3, <3>1, <4>1, <4>2
    <3> QED
      BY <3>2, <3>3
  <2> QED
    BY <2>2, <2>3
<1>11. SlotsHold(f, ks, abandoned)
  BY <1>10 DEF SlotsHold
<1>12. shown \subseteq Entry /\ Shown(f, shown, visualTime)
  <2>1. animated \subseteq Entry /\ Shown(e, animated, visualTime)
    BY DEF Sound
  <2>2. shown \subseteq Entry /\ animated \subseteq shown /\ (e.observed => t \in shown)
    BY <2>1
  <2> HIDE DEF shown
  <2> QED
    BY <1>4, <1>5, <2>1, <2>2 DEF Shown
<1> HIDE DEF shown
<1>13. DOMAIN ks = DOMAIN links
  BY <1>9 DEF Sound
<1> QED
  BY <1>5, <1>9, <1>11, <1>12, <1>13 DEF Sound, f, ev, id, ks, shown

LEMMA PacketSent ==
  ASSUME AbandonedType, NEW e, NEW ls, Sound(e, ls, animated), NEW i \in DOMAIN ls,
         NEW n \in Nat, NEW effect \in SendEffects(e, ls, i, n)
  PROVE  Sound(effect.engine, effect.links, effect.animated)
<1> DEFINE l == ls[i]
           now == e.clock
           departure == NextAvailableTime(l, n, now)
           to == OtherNode(l, n)
           arrival == departure + TravelTime(l)
           t == [from |-> n, to |-> to, departure |-> departure, arrival |-> arrival]
           reserved == ReserveTransmission(l, n, departure)
           k == EnqueueTransmission(reserved, t)
           shown == IF e.observed THEN animated \union {t} ELSE animated
<1>1. GoodLinks(ls) /\ l \in LinkRecords(Nat) /\ now \in Nat
  <2>1. GoodLinks(ls) /\ now \in Nat
    BY DEF Sound, GoodEngine, Engine
  <2> QED
    BY <2>1, LinkTypes
<1>2. \/ effect = Effect(e, ls, animated)
      \/ effect = Effect(e, Replaced(ls, i, reserved), animated)
      \/ effect = Effect(WithEvent(e, Arrival(e.scheduled, i, t)), Replaced(ls, i, k), shown)
  BY Zenon DEF SendEffects, Replaced
<1> HIDE DEF now
<1>3. /\ departure \in Nat /\ reserved \in LinkRecords(Nat) /\ SameEnds(reserved, l)
      /\ reserved.queue = l.queue
  BY <1>1, ReservedLink
<1> HIDE DEF departure, reserved
<1>4. to \in Nat /\ arrival \in Nat
  <2>1. to \in Nat /\ TravelTime(l) \in Nat
    BY <1>1, LinkFields, TravelTimeNat
  <2> QED
    BY <1>3, <2>1
<1> HIDE DEF to, arrival
<1>5. t \in Entry /\ t.from = n
  BY <1>3, <1>4 DEF Entry
<1> HIDE DEF t
<1>6. SlotOf(reserved, t.from) = SlotOf(l, t.from)
  BY <1>3 DEF SameEnds, SlotOf
<1>7. WithQueue(k, l, SlotOf(l, t.from), Append(l.queue[SlotOf(l, t.from)], t))
  <2>1. WithQueue(k, reserved, SlotOf(l, t.from), Append(l.queue[SlotOf(l, t.from)], t))
    BY <1>3, <1>5, <1>6, EnqueuedLink
  <2> HIDE DEF k, l
  <2> QED
    BY <1>3, <2>1 DEF WithQueue, SameEnds
<1> HIDE DEF k, shown
<1>8. CASE effect = Effect(e, ls, animated)
  BY <1>8 DEF Effect
<1>9. CASE effect = Effect(e, Replaced(ls, i, reserved), animated)
  <2>1. Sound(e, Replaced(ls, i, reserved), animated)
    BY <1>3, TransmissionRefused
  <2> QED
    BY <1>9, <2>1 DEF Effect
<1>10. CASE effect = Effect(WithEvent(e, Arrival(e.scheduled, i, t)), Replaced(ls, i, k), shown)
  <2>1. Sound(WithEvent(e, Arrival(e.scheduled, i, t)), Replaced(ls, i, k), shown)
    BY <1>5, <1>7, TransmissionUnderWay DEF shown
  <2> QED
    BY <1>10, <2>1 DEF Effect
<1> QED
  BY <1>2, <1>8, <1>9, <1>10

(***************************************************************************)
(* processEvent, from the event taken to the answer sent.                  *)
(***************************************************************************)
LEMMA ProcessEventSound ==
  ASSUME AbandonedType, Sound(engine, links, animated), ProcessEvent
  PROVE  Sound(engine', links', animated')
<1>1. PICK ev \in engine.events :
        LET popped == [engine EXCEPT !.clock = ev.at, !.events = @ \ {ev}] IN
        \E e \in Timed(popped, ev) : \E effect \in Sent(e, Released(links, ev), ev) :
          engine' = effect.engine /\ links' = effect.links /\ animated' = effect.animated
  BY DEF ProcessEvent
<1> DEFINE popped == [engine EXCEPT !.clock = ev.at, !.events = @ \ {ev}]
           ls == Released(links, ev)
<1>2. Sound(popped, ls, animated)
  BY EventReleased
<1>3. ev.from \in Nat /\ ev.to \in Nat
  BY DEF Sound, GoodEngine, Engine, Event
<1>4. PICK e \in Timed(popped, ev) : \E effect \in Sent(e, ls, ev) :
          engine' = effect.engine /\ links' = effect.links /\ animated' = effect.animated
  BY <1>1
<1> HIDE DEF popped, ls
<1>5. Sound(e, ls, animated)
  <2>1. \/ e = popped
        \/ e = WithEvent(popped,
                         SessionEvent(popped.clock + 1, popped.scheduled, ev.from, ev.to))
    BY <1>4 DEF Timed
  <2>2. Len(ls) \in Nat /\ GoodEngine(popped, Len(ls)) /\ ls \in Seq(LinkRecords(Nat))
    BY <1>2, LenProperties DEF Sound, GoodLinks
  <2>3. CASE e # popped
    <3>1. GoodEngine(e, Len(ls)) /\ SameArrivals(popped, e)
      BY <1>3, <2>1, <2>2, <2>3, TimerAdded
    <3>2. SlotsHold(e, ls, abandoned) /\ Shown(e, animated, visualTime)
      BY <1>2, <2>2, <3>1, SameArrivalsKeep DEF Sound
    <3> QED
      BY <1>2, <3>1, <3>2 DEF Sound
  <2> QED
    BY <1>2, <2>3
<1>6. PICK effect \in Sent(e, ls, ev) :
          engine' = effect.engine /\ links' = effect.links /\ animated' = effect.animated
  BY <1>4
<1>7. CASE effect = Effect(e, ls, animated)
  BY <1>5, <1>6, <1>7 DEF Effect
<1>8. CASE effect # Effect(e, ls, animated)
  <2>1. PICK i \in DOMAIN ls, n \in Senders(ev) : effect \in SendEffects(e, ls, i, n)
    BY <1>6, <1>8 DEF Sent
  <2>2. n \in Nat
    BY <1>3 DEF Senders
  <2> QED
    BY <1>5, <1>6, <2>1, <2>2, PacketSent
<1> QED
  BY <1>7, <1>8

-----------------------------------------------------------------------------
(* The controls and the frames. *)

\* No packet on its way: what the slots hold is left over.
LEMMA OnlyLeftOvers ==
  ASSUME NEW e, \A ev \in e.events : ev.link = 0, NEW ls \in Seq(LinkRecords(Nat)),
         NEW others,
         \A i \in DOMAIN ls, s \in Slot : others[i][s] = Len(ls[i].queue[s])
  PROVE  SlotsHold(e, ls, others)
<1> SUFFICES ASSUME NEW i \in DOMAIN ls, NEW s \in Slot
             PROVE  Holds(ls[i].queue[s], others[i][s], OnSlot(e, i, ls[i], s))
  BY DEF SlotsHold
<1> DEFINE q == ls[i].queue[s]
<1>1. i # 0 /\ ls[i] \in LinkRecords(Nat)
  BY LenProperties, ElementOfSeq
<1>2. OnSlot(e, i, ls[i], s) = {}
  BY <1>1 DEF OnSlot
<1>3. Len(q) \in Nat /\ others[i][s] = Len(q)
  <2>1. ls[i].queue \in [Slot -> Seq(Entry)]
    BY <1>1 DEF LinkRecords, Entry
  <2>2. q \in Seq(Entry)
    BY <2>1
  <2> QED
    BY <2>2, LenProperties
<1> HIDE DEF q
<1>4. Cardinality({}) = 0
  BY FS_EmptySet
<1>5. Matched(q, {})
  <2>1. [o \in {} |-> 0] \in [{} -> DOMAIN q]
    OBVIOUS
  <2> QED
    BY <2>1 DEF Matched
<1> QED
  BY <1>2, <1>3, <1>4, <1>5 DEF Holds, q

\* setGlobalLossProb.
LEMMA LossSet ==
  ASSUME NEW e, NEW ls \in Seq(LinkRecords(Nat)), NEW loss \in BOOLEAN, NEW others,
         SlotsHold(e, ls, others)
  PROVE  SlotsHold(e, WithLoss(ls, loss), others)
<1> DEFINE ks == WithLoss(ls, loss)
<1>1. /\ DOMAIN ks = DOMAIN ls
      /\ \A i \in DOMAIN ls : /\ ks[i].queue = ls[i].queue
                              /\ \A n : SlotOf(ks[i], n) = SlotOf(ls[i], n)
  BY LossyLinks
<1> HIDE DEF ks
<1>2. \A i \in DOMAIN ls : \A s : OnSlot(e, i, ks[i], s) = OnSlot(e, i, ls[i], s)
  BY <1>1 DEF OnSlot
<1>3. SlotsHold(e, ks, others)
  BY <1>1, <1>2 DEF SlotsHold
<1> QED
  BY <1>3 DEF ks

\* The engines that Reset and Load make.
LEMMA EmptyEngines ==
  ASSUME NEW n \in Nat
  PROVE  /\ GoodEngine(NewEngine, n) /\ NewEngine.events = {} /\ ~ NewEngine.observed
         /\ GoodEngine(Configured(NewEngine), n) /\ Configured(NewEngine).events = {}
<1>1. /\ NewEngine \in Engine /\ NewEngine.events = {} /\ ~ NewEngine.observed
      /\ Configured(NewEngine) \in Engine /\ Configured(NewEngine).events = {}
  BY DEF NewEngine, Configured, Engine
<1> QED
  BY <1>1, FS_EmptySet DEF GoodEngine

\* generatePackets.
LEMMA TrafficGenerated ==
  ASSUME NEW n \in Nat, NEW e, GoodEngine(e, n), NEW ls \in Seq(LinkRecords(Nat))
  PROVE  GoodEngine(Generated(e, ls), n) /\ SameArrivals(e, Generated(e, ls))
BY PlanFinite, SessionsStarted DEF Generated

\* Topologies as they are loaded, and as setGlobalLossProb then leaves them.
LEMMA TopologyLoaded ==
  ASSUME NEW topology \in Topologies, NEW loss \in BOOLEAN
  PROVE  /\ topology \in Seq(LinkRecords(Nat))
         /\ WithLoss(topology, loss) \in Seq(LinkRecords(Nat))
         /\ DOMAIN WithLoss(topology, loss) = DOMAIN topology
         /\ Len(WithLoss(topology, loss)) \in Nat
         /\ \A i \in DOMAIN topology : WithLoss(topology, loss)[i].lossy = loss
         /\ NoneAbandoned(topology) \in [DOMAIN topology -> [Slot -> Nat]]
         /\ \A i \in DOMAIN topology, s \in Slot :
              NoneAbandoned(topology)[i][s] = Len(WithLoss(topology, loss)[i].queue[s])
<1> DEFINE ls == WithLoss(topology, loss)
<1>1. topology \in Seq(LinkRecords(Nat)) /\ \A i \in DOMAIN topology : Idle(topology[i])
  BY TopologiesAssumption
<1>2. /\ ls \in Seq(LinkRecords(Nat)) /\ DOMAIN ls = DOMAIN topology
      /\ \A i \in DOMAIN topology : ls[i].lossy = loss /\ ls[i].queue = topology[i].queue
  BY <1>1, LossyLinks
<1>3. Len(ls) \in Nat
  BY <1>2, LenProperties
<1> HIDE DEF ls
<1>4. \A i \in DOMAIN topology, s \in Slot : ls[i].queue[s] = << >>
  BY <1>1, <1>2 DEF Idle
<1>5. Len(<< >>) = 0
  OBVIOUS
<1>6. /\ NoneAbandoned(topology) \in [DOMAIN topology -> [Slot -> Nat]]
      /\ \A i \in DOMAIN topology, s \in Slot : NoneAbandoned(topology)[i][s] = 0
  BY DEF NoneAbandoned
<1> QED
  BY <1>1, <1>2, <1>3, <1>4, <1>5, <1>6 DEF ls

SlotsInv ==
  /\ state \in SimulationState
  /\ autoStart \in BOOLEAN /\ lossy \in BOOLEAN /\ inFrame \in BOOLEAN
  /\ processed \in 0 .. EventsPerFrame
  /\ visualTime \in 0 .. MaxTime
  /\ resets \in 0 .. MaxResets /\ loads \in 0 .. MaxLoads
  /\ AbandonedType
  /\ Sound(engine, links, animated)

\* A topology that was just loaded, with its traffic or without.
LEMMA FreshTopology ==
  ASSUME NEW topology \in Topologies, NEW loss \in BOOLEAN,
         links' = WithLoss(topology, loss), lossy' = loss,
         engine' \in {Generated(Configured(NewEngine), topology), Configured(NewEngine)},
         animated' = {}, abandoned' = NoneAbandoned(topology)
  PROVE  (AbandonedType /\ Sound(engine, links, animated))'
<1>1. /\ topology \in Seq(LinkRecords(Nat)) /\ links' \in Seq(LinkRecords(Nat))
      /\ DOMAIN links' = DOMAIN topology /\ Len(links') \in Nat
      /\ \A i \in DOMAIN links' : links'[i].lossy = lossy'
      /\ abandoned' \in [DOMAIN links' -> [Slot -> Nat]]
      /\ \A i \in DOMAIN links', s \in Slot : abandoned'[i][s] = Len(links'[i].queue[s])
  BY TopologyLoaded
<1> DEFINE e == Configured(NewEngine)
<1>2. GoodEngine(e, Len(links')) /\ e.events = {}
  BY <1>1, EmptyEngines
<1> HIDE DEF e
<1>3. GoodEngine(engine', Len(links')) /\ \A ev \in engine'.events : ev.link = 0
  <2>1. CASE engine' = e
    BY <1>2, <2>1
  <2>2. CASE engine' = Generated(e, topology)
    <3>1. GoodEngine(engine', Len(links')) /\ SameArrivals(e, engine')
      BY <1>1, <1>2, <2>2, TrafficGenerated
    <3> QED
      BY <1>2, <3>1 DEF SameArrivals
  <2> QED
    BY <2>1, <2>2 DEF e
<1>4. SlotsHold(engine', links', abandoned')
  BY <1>1, <1>3, OnlyLeftOvers
<1>5. Shown(engine', animated', visualTime')
  BY <1>3 DEF Shown
<1> QED
  BY <1>1, <1>3, <1>4, <1>5 DEF Sound, GoodLinks, AbandonedType

\* Sessions that are started change nothing of what is on its way.
LEMMA FreshSessions ==
  ASSUME Sound(engine, links, animated), GoodEngine(engine', Len(links)),
         SameArrivals(engine, engine'), UNCHANGED <<links, lossy, visualTime, animated, abandoned>>
  PROVE  Sound(engine, links, animated)'
<1>1. /\ SlotsHold(engine', links, abandoned)
      /\ Shown(engine', animated, visualTime)
  BY SameArrivalsKeep DEF Sound, GoodLinks
<1> QED
  BY <1>1 DEF Sound, GoodLinks

LEMMA InitSlotsInv == Init => SlotsInv
<1> SUFFICES ASSUME Init PROVE SlotsInv
  OBVIOUS
<1>1. PICK topology \in Topologies : links = WithLoss(topology, FALSE)
  BY DEF Init
<1>2. engine = Generated(Configured(NewEngine), links) /\ lossy = FALSE /\ animated = {}
      /\ abandoned = NoneAbandoned(links)
  BY DEF Init
<1>3. /\ links \in Seq(LinkRecords(Nat)) /\ Len(links) \in Nat
      /\ \A i \in DOMAIN links : links[i].lossy = lossy
      /\ \A i \in DOMAIN links, s \in Slot : Len(links[i].queue[s]) = 0
  <2>1. /\ WithLoss(topology, FALSE) \in Seq(LinkRecords(Nat))
        /\ DOMAIN WithLoss(topology, FALSE) = DOMAIN topology
        /\ Len(WithLoss(topology, FALSE)) \in Nat
        /\ \A i \in DOMAIN topology : WithLoss(topology, FALSE)[i].lossy = FALSE
        /\ \A i \in DOMAIN topology, s \in Slot :
             NoneAbandoned(topology)[i][s] = Len(WithLoss(topology, FALSE)[i].queue[s])
    BY TopologyLoaded
  <2>2. \A i \in DOMAIN topology, s \in Slot : NoneAbandoned(topology)[i][s] = 0
    BY DEF NoneAbandoned
  <2> QED
    BY <1>1, <1>2, <2>1, <2>2
<1>4. AbandonedType /\ \A i \in DOMAIN links, s \in Slot : abandoned[i][s] = 0
  BY <1>2 DEF AbandonedType, NoneAbandoned
<1>5. GoodEngine(engine, Len(links)) /\ \A ev \in engine.events : ev.link = 0
  <2> DEFINE e == Configured(NewEngine)
  <2>1. GoodEngine(e, Len(links)) /\ e.events = {}
    BY <1>3, EmptyEngines
  <2> HIDE DEF e
  <2>2. GoodEngine(engine, Len(links)) /\ SameArrivals(e, engine)
    BY <1>2, <1>3, <2>1, TrafficGenerated DEF e
  <2> QED
    BY <2>1, <2>2 DEF SameArrivals
<1>6. SlotsHold(engine, links, abandoned)
  BY <1>3, <1>4, <1>5, OnlyLeftOvers
<1>7. Sound(engine, links, animated)
  BY <1>2, <1>3, <1>5, <1>6 DEF Sound, GoodLinks, Shown
<1>8. state \in SimulationState
  BY Zenon DEF Init, StateFor, SimulationState
<1>9. /\ autoStart \in BOOLEAN /\ lossy \in BOOLEAN /\ inFrame \in BOOLEAN
      /\ processed \in 0 .. EventsPerFrame /\ visualTime \in 0 .. MaxTime
      /\ resets \in 0 .. MaxResets /\ loads \in 0 .. MaxLoads
  <2>1. EventsPerFrame \in Nat /\ MaxTime \in Nat /\ MaxResets \in Nat /\ MaxLoads \in Nat
    BY ControlAssumption
  <2>2. \A n \in Nat : 0 \in 0 .. n
    OBVIOUS
  <2>3. /\ autoStart \in BOOLEAN /\ lossy = FALSE /\ inFrame = FALSE
        /\ processed = 0 /\ visualTime = 0 /\ resets = 0 /\ loads = 0
    BY DEF Init
  <2> QED
    BY <2>1, <2>2, <2>3
<1> QED
  BY <1>4, <1>7, <1>8, <1>9 DEF SlotsInv

LEMMA EventKeeps ==
  ASSUME SlotsInv, ProcessEvent, UNCHANGED <<lossy, visualTime, history>>
  PROVE  (AbandonedType /\ Sound(engine, links, animated))'
<1>1. Sound(engine', links', animated')
  BY ProcessEventSound DEF SlotsInv
<1>2. abandoned' = abandoned /\ DOMAIN links' = DOMAIN links
  BY <1>1 DEF history, Sound
<1> QED
  BY <1>1, <1>2 DEF SlotsInv, Sound, GoodLinks, AbandonedType

\* The state of what is on its way is left alone.
LEMMA NothingMoved ==
  ASSUME SlotsInv,
         UNCHANGED <<links, engine, lossy, visualTime, animated, abandoned>>
  PROVE  (AbandonedType /\ Sound(engine, links, animated))'
BY DEF SlotsInv, Sound, GoodLinks, AbandonedType

LEMMA BeginFrameKeeps == SlotsInv /\ BeginFrame => SlotsInv'
<1> SUFFICES ASSUME SlotsInv, BeginFrame PROVE SlotsInv'
  OBVIOUS
<1>1. visualTime \in Nat /\ visualTime' \in 0 .. MaxTime /\ visualTime <= visualTime'
  BY ControlAssumption DEF SlotsInv, BeginFrame
<1>2. /\ abandoned' = abandoned /\ links' = links /\ engine' = engine /\ lossy' = lossy
      /\ animated' = animated
  BY DEF BeginFrame, history
<1>3. Shown(engine, animated, visualTime')
  <2>1. Shown(engine, animated, visualTime) /\ \A ev \in engine.events : ev.at \in Nat
    BY DEF SlotsInv, Sound, GoodEngine, Engine, Event
  <2>2. \A ev \in engine.events : visualTime' < ev.at => visualTime < ev.at
    BY <1>1, <2>1
  <2> QED
    BY <2>1, <2>2 DEF Shown
<1>4. (AbandonedType /\ Sound(engine, links, animated))'
  BY <1>2, <1>3 DEF SlotsInv, Sound, GoodLinks, AbandonedType
<1> QED
  BY <1>1, <1>4, ControlAssumption DEF SlotsInv, BeginFrame, history

LEMMA RunEventKeeps == SlotsInv /\ RunEvent => SlotsInv'
<1> SUFFICES ASSUME SlotsInv, RunEvent PROVE SlotsInv'
  OBVIOUS
<1>1. (AbandonedType /\ Sound(engine, links, animated))'
  BY EventKeeps DEF RunEvent
<1>2. processed' \in 0 .. EventsPerFrame
  BY ControlAssumption DEF SlotsInv, RunEvent, RunsOn
<1> QED
  BY <1>1, <1>2 DEF SlotsInv, RunEvent, history

\* visualManager.update.
LEMMA UpdateKeeps ==
  ASSUME SlotsInv, animated' = Updated(animated, visualTime),
         UNCHANGED <<links, engine, lossy, visualTime, abandoned>>
  PROVE  (AbandonedType /\ Sound(engine, links, animated))'
<1>1. animated \subseteq Entry /\ Shown(engine, animated, visualTime)
      /\ \A ev \in engine.events : Transmission(ev).arrival = ev.at
  BY TransmissionType DEF SlotsInv, Sound, GoodEngine, Engine
<1>2. animated' \subseteq Entry /\ Shown(engine, animated', visualTime)
  BY <1>1 DEF Updated, Shown
<1> QED
  BY <1>2 DEF SlotsInv, Sound, GoodLinks, AbandonedType

LEMMA DrawingKeeps == SlotsInv /\ (EndFrame \/ Redraw) => SlotsInv'
<1> SUFFICES ASSUME SlotsInv, EndFrame \/ Redraw PROVE SlotsInv'
  OBVIOUS
<1>1. (AbandonedType /\ Sound(engine, links, animated))'
  BY UpdateKeeps DEF EndFrame, Redraw, history
<1>2. CASE EndFrame
  <2>1. state' \in SimulationState
    BY <1>2 DEF EndFrame, StateAfterFrame, SimulationState, SlotsInv
  <2>2. processed' \in 0 .. EventsPerFrame
    BY <1>2, ControlAssumption DEF EndFrame
  <2> QED
    BY <1>1, <1>2, <2>1, <2>2 DEF SlotsInv, EndFrame, history
<1>3. CASE Redraw
  BY <1>1, <1>3 DEF SlotsInv, Redraw, history
<1> QED
  BY <1>2, <1>3

LEMMA ButtonsKeep == SlotsInv /\ (Pause \/ Resume) => SlotsInv'
<1> SUFFICES ASSUME SlotsInv, Pause \/ Resume PROVE SlotsInv'
  OBVIOUS
<1>1. (AbandonedType /\ Sound(engine, links, animated))'
  BY NothingMoved DEF Pause, Resume, history
<1> QED
  BY <1>1 DEF SlotsInv, Pause, Resume, Control, history, SimulationState

LEMMA StartKeeps == SlotsInv /\ Start => SlotsInv'
<1> SUFFICES ASSUME SlotsInv, Start PROVE SlotsInv'
  OBVIOUS
<1>1. /\ links \in Seq(LinkRecords(Nat)) /\ Len(links) \in Nat
      /\ GoodEngine(engine, Len(links))
  BY LenProperties DEF SlotsInv, Sound, GoodLinks
<1>2. GoodEngine(engine', Len(links)) /\ SameArrivals(engine, engine')
  <2>1. CASE engine' = engine
    BY <1>1, <2>1 DEF SameArrivals
  <2>2. CASE engine' = Generated(engine, links)
    BY <1>1, <2>2, TrafficGenerated
  <2> QED
    BY <2>1, <2>2 DEF Start
<1>3. (AbandonedType /\ Sound(engine, links, animated))'
  BY <1>2, FreshSessions DEF SlotsInv, Start, history, AbandonedType
<1> QED
  BY <1>3 DEF SlotsInv, Start, Control, history, StateFor, SimulationState

LEMMA StepKeeps == SlotsInv /\ Step => SlotsInv'
<1> SUFFICES ASSUME SlotsInv, Step PROVE SlotsInv'
  OBVIOUS
<1>1. (AbandonedType /\ Sound(engine, links, animated))'
  BY EventKeeps DEF Step
<1> QED
  BY <1>1 DEF SlotsInv, Step, Control, history, StateAfterStep, SimulationState

(***************************************************************************)
(* Reset: the packets on their way are forgotten by the new engine, not by *)
(* the links.                                                              *)
(***************************************************************************)
LEMMA ResetKeeps == SlotsInv /\ ResetEngine => SlotsInv'
<1> SUFFICES ASSUME SlotsInv, ResetEngine PROVE SlotsInv'
  OBVIOUS
<1>1. /\ links' = links /\ lossy' = lossy /\ animated' = animated
      /\ visualTime' = visualTime /\ engine' = NewEngine
      /\ abandoned' = [i \in DOMAIN links |-> [s \in Slot |-> Len(links[i].queue[s])]]
  BY DEF ResetEngine
<1>2. links \in Seq(LinkRecords(Nat)) /\ Len(links) \in Nat /\ GoodLinks(links)
  BY LenProperties DEF SlotsInv, Sound, GoodLinks
<1>3. \A i \in DOMAIN links, s \in Slot : Len(links[i].queue[s]) \in Nat
  <2> SUFFICES ASSUME NEW i \in DOMAIN links, NEW s \in Slot
               PROVE  Len(links[i].queue[s]) \in Nat
    OBVIOUS
  <2>1. links[i] \in LinkRecords(Nat)
    BY <1>2, LinkTypes
  <2>2. links[i].queue \in [Slot -> Seq(Entry)]
    BY <2>1 DEF LinkRecords, Entry
  <2>3. links[i].queue[s] \in Seq(Entry)
    BY <2>2
  <2> QED
    BY <2>3, LenProperties
<1>4. /\ GoodEngine(engine', Len(links)) /\ engine'.events = {} /\ ~ engine'.observed
  BY <1>1, <1>2, EmptyEngines
<1>5. SlotsHold(engine', links, abandoned')
  <2>1. \A ev \in engine'.events : ev.link = 0
    BY <1>4
  <2>2. \A i \in DOMAIN links, s \in Slot : abandoned'[i][s] = Len(links[i].queue[s])
    BY <1>1
  <2> QED
    BY <1>2, <2>1, <2>2, OnlyLeftOvers
<1>6. abandoned' \in [DOMAIN links -> [Slot -> Nat]]
  BY <1>1, <1>3
<1>7. (AbandonedType /\ Sound(engine, links, animated))'
  BY <1>1, <1>2, <1>4, <1>5, <1>6 DEF SlotsInv, Sound, GoodLinks, AbandonedType, Shown
<1> QED
  BY <1>7, ControlAssumption DEF SlotsInv, ResetEngine, Control, SimulationState

LEMMA SlideKeeps ==
  ASSUME NEW loss \in BOOLEAN
  PROVE  SlotsInv /\ SlideLoss(loss) => SlotsInv'
<1> SUFFICES ASSUME SlotsInv, SlideLoss(loss) PROVE SlotsInv'
  OBVIOUS
<1>1. /\ links' = WithLoss(links, loss) /\ lossy' = loss /\ animated' = animated
      /\ visualTime' = visualTime /\ engine' = engine /\ abandoned' = abandoned
  BY DEF SlideLoss, history
<1>2. links \in Seq(LinkRecords(Nat)) /\ SlotsHold(engine, links, abandoned)
  BY DEF SlotsInv, Sound, GoodLinks
<1>3. /\ links' \in Seq(LinkRecords(Nat)) /\ DOMAIN links' = DOMAIN links
      /\ Len(links') = Len(links) /\ \A i \in DOMAIN links' : links'[i].lossy = loss
  BY <1>1, <1>2, LossyLinks
<1>4. SlotsHold(engine, links', abandoned)
  BY <1>1, <1>2, LossSet
<1>5. (AbandonedType /\ Sound(engine, links, animated))'
  BY <1>1, <1>3, <1>4 DEF SlotsInv, Sound, GoodLinks, AbandonedType
<1> QED
  BY <1>1, <1>5 DEF SlotsInv, SlideLoss, Control, history

LEMMA DragKeeps ==
  ASSUME NEW a \in Nat, NEW b \in Nat
  PROVE  SlotsInv /\ Drag(a, b) => SlotsInv'
<1> SUFFICES ASSUME SlotsInv, Drag(a, b) PROVE SlotsInv'
  OBVIOUS
<1> DEFINE pairs == {<<a, b>>}
<1>1. /\ Len(links) \in Nat /\ GoodEngine(engine, Len(links))
  BY LenProperties DEF SlotsInv, Sound, GoodLinks
<1>2. pairs \in SUBSET (Nat \X Nat) /\ IsFiniteSet(pairs)
  <2>1. IsFiniteSet(pairs)
    BY FS_Singleton
  <2>2. <<a, b>> \in Nat \X Nat
    OBVIOUS
  <2> QED
    BY <2>1, <2>2
<1>3. engine' = Started(engine, pairs)
  BY DEF Drag
<1> HIDE DEF pairs
<1>4. GoodEngine(engine', Len(links)) /\ SameArrivals(engine, engine')
  BY <1>1, <1>2, <1>3, SessionsStarted
<1>5. (AbandonedType /\ Sound(engine, links, animated))'
  BY <1>4, FreshSessions DEF SlotsInv, Drag, history, AbandonedType
<1> QED
  BY <1>5 DEF SlotsInv, Drag, Control, history, SimulationState

LEMMA LoadKeeps ==
  ASSUME NEW topology \in Topologies
  PROVE  SlotsInv /\ Load(topology) => SlotsInv'
<1> SUFFICES ASSUME SlotsInv, Load(topology) PROVE SlotsInv'
  OBVIOUS
<1>1. (AbandonedType /\ Sound(engine, links, animated))'
  BY FreshTopology DEF SlotsInv, Load
<1> QED
  BY <1>1, ControlAssumption DEF SlotsInv, Load, Control, SimulationState, StateFor

LEMMA StepKeepsSlotsInv == SlotsInv /\ [Next]_vars => SlotsInv'
<1> SUFFICES ASSUME SlotsInv, [Next]_vars PROVE SlotsInv'
  OBVIOUS
<1>1. CASE Frame
  BY <1>1, BeginFrameKeeps, RunEventKeeps, DrawingKeeps DEF Frame
<1>2. CASE Redraw \/ Start \/ Pause \/ Resume \/ Step \/ ResetEngine
  BY <1>2, DrawingKeeps, StartKeeps, ButtonsKeep, StepKeeps, ResetKeeps
<1>3. ASSUME NEW loss \in BOOLEAN, SlideLoss(loss)
      PROVE  SlotsInv'
  BY <1>3, SlideKeeps
<1>4. ASSUME NEW i \in DOMAIN links,
             Drag(links[i].a, links[i].b) \/ Drag(links[i].b, links[i].a)
      PROVE  SlotsInv'
  <2>1. links[i] \in LinkRecords(Nat)
    BY LinkTypes DEF SlotsInv, Sound
  <2>2. links[i].a \in Nat /\ links[i].b \in Nat
    BY <2>1 DEF LinkRecords
  <2> QED
    BY <1>4, <2>2, DragKeeps
<1>5. ASSUME NEW topology \in Topologies, Load(topology)
      PROVE  SlotsInv'
  BY <1>5, LoadKeeps
<1>6. CASE UNCHANGED vars
  <2>1. (AbandonedType /\ Sound(engine, links, animated))'
    BY <1>6, NothingMoved DEF vars, history
  <2> QED
    BY <1>6, <2>1 DEF SlotsInv, vars, history
<1> QED
  BY <1>1, <1>2, <1>3, <1>4, <1>5, <1>6 DEF Next

-----------------------------------------------------------------------------

THEOREM SlotsInvariance == Spec => []SlotsInv
<1> QED
  BY InitSlotsInv, StepKeepsSlotsInv, PTL DEF Spec

(***************************************************************************)
(* Every variable keeps its type: in particular the arrivals in the queue  *)
(* are over links of the topology that is loaded, and no event's           *)
(* identifier will be given again (schedule, startTCPConnection).          *)
(***************************************************************************)
THEOREM ControlTypeCorrect == Spec => []TypeOK
<1>1. SlotsInv => TypeOK
  <2> SUFFICES ASSUME SlotsInv PROVE TypeOK
    OBVIOUS
  <2>1. DOMAIN links = 1 .. Len(links)
    BY LenProperties DEF SlotsInv, Sound, GoodLinks
  <2>2. \A ev \in engine.events : ev.id < engine.scheduled /\ ev.link \in DOMAIN links \union {0}
    <3>1. Len(links) \in Nat
      BY LenProperties DEF SlotsInv, Sound, GoodLinks
    <3>2. \A n \in 0 .. Len(links) : n \in 1 .. Len(links) \/ n = 0
      BY <3>1
    <3> QED
      BY <2>1, <3>2 DEF SlotsInv, Sound, GoodEngine
  <2> QED
    BY <2>2
    DEF TypeOK, SlotsInv, Sound, GoodLinks, GoodEngine, Engine, Entry, AbandonedType
<1> QED
  BY <1>1, SlotsInvariance, PTL

(***************************************************************************)
(* A slot of a link holds one entry for each packet of the current engine  *)
(* that is on it, and those that a Reset left there, whatever the order of *)
(* events, frames, controls and loads (sendPacket,                         *)
(* PacketReceivedEvent::execute, the Reset button).                        *)
(***************************************************************************)
THEOREM SlotsAlwaysHeld == Spec => []SlotsHeld
<1>1. SlotsInv => SlotsHeld
  BY DEF SlotsInv, Sound, SlotsHold, SlotsHeld, Holds, OnSlot
<1> QED
  BY <1>1, SlotsInvariance, PTL

(***************************************************************************)
(* While the engine has its observer a packet on its way is on the screen  *)
(* until the visual time reaches its arrival, also when Step has run ahead *)
(* of it (visualManager.update, the packet observer of configureEngine).   *)
(***************************************************************************)
THEOREM InFlightAlwaysShown == Spec => []InFlightShown
<1>1. SlotsInv => InFlightShown
  BY DEF SlotsInv, Sound, Shown, InFlightShown
<1> QED
  BY <1>1, SlotsInvariance, PTL

-----------------------------------------------------------------------------
(* The state shown. *)

\* Within a frame the queue may run empty while the state still says Running:
\* only a running simulation is within a frame.
FrameInv == EventsMatchState /\ (inFrame => state = "Running")

\* A session that is started has its handshake in the queue.
LEMMA SessionQueued ==
  ASSUME NEW e \in Engine, NEW p
  PROVE  Started(e, {p}).events # {}
<1>1. Handshakes(e, {p}) # {}
  BY Zenon DEF Handshakes
<1>2. Started(e, {p}).events = e.events \union Handshakes(e, {p})
  BY DEF Started, Engine
<1> QED
  BY <1>1, <1>2

LEMMA StepKeepsFrameInv == SlotsInv /\ FrameInv /\ [Next]_vars => FrameInv'
<1> SUFFICES ASSUME SlotsInv, FrameInv, [Next]_vars PROVE FrameInv'
  OBVIOUS
<1> USE DEF FrameInv, EventsMatchState
<1>1. CASE BeginFrame
  BY <1>1 DEF BeginFrame
<1>2. CASE RunEvent
  BY <1>2 DEF RunEvent
<1>3. CASE EndFrame
  BY <1>3 DEF EndFrame, StateAfterFrame
<1>4. CASE Redraw
  BY <1>4 DEF Redraw
<1>5. CASE Start
  BY <1>5 DEF Start, Control, StateFor
<1>6. CASE Pause
  BY <1>6 DEF Pause, Control
<1>7. CASE Resume
  BY <1>7 DEF Resume, Control
<1>8. CASE Step
  BY <1>8 DEF Step, Control, StateAfterStep
<1>9. CASE ResetEngine
  BY <1>9 DEF ResetEngine, Control, NewEngine
<1>10. CASE \E loss \in BOOLEAN : SlideLoss(loss)
  BY <1>10 DEF SlideLoss, Control
<1>11. ASSUME NEW a, NEW b, Drag(a, b)
       PROVE  FrameInv'
  <2>1. engine \in Engine
    BY DEF SlotsInv, Sound, GoodEngine
  <2>2. engine'.events # {}
    BY <1>11, <2>1, SessionQueued DEF Drag
  <2> QED
    BY <1>11, <2>2 DEF Drag, Control
<1>12. ASSUME NEW topology, Load(topology)
       PROVE  FrameInv'
  BY <1>12 DEF Load, Control, StateFor
<1>13. CASE UNCHANGED vars
  BY <1>13 DEF vars
<1> QED
  BY <1>1, <1>2, <1>3, <1>4, <1>5, <1>6, <1>7, <1>8, <1>9, <1>10, <1>11, <1>12, <1>13
  DEF Next, Frame

(***************************************************************************)
(* Between frames a simulation runs or is paused exactly when it has       *)
(* events, for every topology and bound (the state machine of              *)
(* renderStatsWindow and visualizeWindow).                                 *)
(***************************************************************************)
THEOREM StateMatchesQueue == Spec => []EventsMatchState
<1>1. Init => FrameInv
  BY DEF Init, FrameInv, EventsMatchState, StateFor
<1>2. FrameInv => EventsMatchState
  BY DEF FrameInv
<1> QED
  BY <1>1, <1>2, SlotsInvariance, StepKeepsFrameInv, PTL DEF Spec

=============================================================================
