--------------------------- MODULE NetworkProofs ---------------------------
(***************************************************************************)
(* What the network does with its packets, for every topology, every flow  *)
(* and every bound: packets_in_transit is exact (TransitExact), packets do *)
(* not overtake each other on a link (OneAtATime), and none is lost sight  *)
(* of (PacketsAccounted).                                                  *)
(*                                                                         *)
(* For these the routing tables may be anything: no step depends on them   *)
(* for more than the link it chooses.  The rest is about the tables: the   *)
(* search never leaves the topology and finds best ways (RoutesBest), and  *)
(* its order of equal distances makes the tables of different nodes agree, *)
(* so that no packet goes round in a circle (NoRoutingLoops, HopsBounded). *)
(***************************************************************************)
EXTENDS Network, FiniteSetTheorems, SequenceTheorems, WellFoundedInduction, TLAPS

-----------------------------------------------------------------------------
(* Sequences: what arrives is taken out, what is sent is put at the end. *)

LEMMA Removed ==
  ASSUME NEW S, NEW q \in Seq(S), NEW i \in 1 .. Len(q)
  PROVE  /\ RemoveAt(q, i) \in Seq(S)
         /\ Len(q) \in Nat /\ DOMAIN q = 1 .. Len(q)
         /\ Len(RemoveAt(q, i)) = Len(q) - 1
         /\ DOMAIN RemoveAt(q, i) = 1 .. Len(q) - 1
         /\ \A k \in 1 .. Len(q) - 1 :
              RemoveAt(q, i)[k] = q[IF k < i THEN k ELSE k + 1]
<1> DEFINE front == SubSeq(q, 1, i - 1)
           back == SubSeq(q, i + 1, Len(q))
<1>1. Len(q) \in Nat /\ DOMAIN q = 1 .. Len(q) /\ \A k \in 1 .. Len(q) : q[k] \in S
  BY LenProperties, ElementOfSeq
<1>2. /\ front \in Seq(S) /\ Len(front) = i - 1
      /\ \A k \in 1 .. i - 1 : front[k] = q[k]
  <2>1. \A k \in 1 .. i - 1 : q[k] \in S
    BY <1>1
  <2>2. /\ front \in Seq(S)
        /\ Len(front) = IF 1 <= i - 1 THEN i - 1 - 1 + 1 ELSE 0
        /\ \A k \in 1 .. i - 1 - 1 + 1 : front[k] = q[1 + k - 1]
    BY <1>1, <2>1, SubSeqProperties
  <2> HIDE DEF front
  <2> QED
    BY <1>1, <2>2
<1>3. /\ back \in Seq(S) /\ Len(back) = Len(q) - i
      /\ \A k \in 1 .. Len(q) - i : back[k] = q[i + k]
  <2>1. \A k \in i + 1 .. Len(q) : q[k] \in S
    BY <1>1
  <2>2. /\ back \in Seq(S)
        /\ Len(back) = IF i + 1 <= Len(q) THEN Len(q) - (i + 1) + 1 ELSE 0
        /\ \A k \in 1 .. Len(q) - (i + 1) + 1 : back[k] = q[i + 1 + k - 1]
    BY <1>1, <2>1, SubSeqProperties
  <2> HIDE DEF back
  <2>3. Len(back) = Len(q) - i
    <3>1. i \in Nat /\ i <= Len(q) /\ Len(q) \in Nat
      BY <1>1
    <3>2. CASE i + 1 <= Len(q)
      BY <1>1, <2>2, <3>1, <3>2
    <3>3. CASE ~ (i + 1 <= Len(q))
      <4>1. Len(q) = i
        BY <3>1, <3>3
      <4>2. Len(back) = 0
        BY <2>2, <3>3
      <4> QED
        BY <3>1, <4>1, <4>2
    <3> QED
      BY <3>2, <3>3
  <2>4. ASSUME NEW k \in 1 .. Len(q) - i
        PROVE  back[k] = q[i + k]
    <3>1. k \in 1 .. Len(q) - (i + 1) + 1 /\ i + 1 + k - 1 = i + k
      BY <1>1
    <3> QED
      BY <2>2, <3>1
  <2> QED
    BY <2>2, <2>3, <2>4
<1> HIDE DEF front, back
<1>4. /\ front \o back \in Seq(S)
      /\ Len(front \o back) = Len(q) - 1
      /\ \A k \in 1 .. Len(q) - 1 :
           (front \o back)[k] = IF k <= i - 1 THEN front[k] ELSE back[k - (i - 1)]
  <2>1. /\ front \o back \in Seq(S)
        /\ Len(front \o back) = Len(front) + Len(back)
        /\ \A k \in 1 .. Len(front) + Len(back) :
             (front \o back)[k] = IF k <= Len(front) THEN front[k]
                                                    ELSE back[k - Len(front)]
    BY <1>2, <1>3, ConcatProperties
  <2>2. Len(front) + Len(back) = Len(q) - 1
    BY <1>1, <1>2, <1>3
  <2> QED
    BY <1>2, <2>1, <2>2
<1>5. ASSUME NEW k \in 1 .. Len(q) - 1
      PROVE  (front \o back)[k] = q[IF k < i THEN k ELSE k + 1]
  <2>1. CASE k < i
    BY <1>1, <1>2, <1>4, <2>1
  <2>2. CASE ~ (k < i)
    <3>1. ~ (k <= i - 1) /\ k - (i - 1) \in 1 .. Len(q) - i /\ i + (k - (i - 1)) = k + 1
      BY <1>1, <2>2
    <3> QED
      BY <1>3, <1>4, <2>2, <3>1
  <2> QED
    BY <2>1, <2>2
<1>6. RemoveAt(q, i) = front \o back
  BY DEF RemoveAt, front, back
<1>7. DOMAIN RemoveAt(q, i) = 1 .. Len(q) - 1
  BY <1>4, <1>6, LenProperties
<1> QED
  BY <1>1, <1>4, <1>5, <1>6, <1>7

LEMMA LeastNatural ==
  ASSUME NEW I \in SUBSET Nat, I # {}
  PROVE  \E k \in I : \A l \in I : k <= l
<1>1. PICK k \in I : \A l \in I : ~ (<<l, k>> \in OpToRel(<, Nat))
  BY NatLessThanWellFounded, WFMin
<1>2. \A l \in I : ~ (l < k)
  BY <1>1 DEF OpToRel
<1> QED
  BY <1>2

\* RemoveFirst looks for the first entry that is equal.
LEMMA FirstFound ==
  ASSUME NEW S, NEW q \in Seq(S), NEW e, \E k \in 1 .. Len(q) : q[k] = e
  PROVE  \E i \in 1 .. Len(q) :
           /\ q[i] = e /\ \A k \in 1 .. Len(q) : q[k] = e => i <= k
           /\ RemoveFirst(q, e) = RemoveAt(q, i)
<1> DEFINE I == {k \in 1 .. Len(q) : q[k] = e}
           i == Min(I)
<1>1. I \in SUBSET Nat /\ I # {}
  BY LenProperties
<1>2. \E k \in I : \A l \in I : k <= l
  <2> HIDE DEF I
  <2> QED
    BY <1>1, LeastNatural
<1>3. i \in I /\ \A l \in I : i <= l
  <2> HIDE DEF I
  <2> QED
    BY <1>2 DEF Min
<1>4. SelectInSeq(q, LAMBDA v : v = e) = i
  BY <1>1 DEF SelectInSeq
<1> HIDE DEF i
<1>5. RemoveFirst(q, e) = RemoveAt(q, i)
  BY <1>4 DEF RemoveFirst
<1> QED
  BY <1>3, <1>5

-----------------------------------------------------------------------------
(* Indices of a sequence from which the entry at i was taken out: where an *)
(* entry stood before, and where it stands now.                            *)

Before(i, k) == IF k < i THEN k ELSE k + 1
After(i, k) == IF k < i THEN k ELSE k - 1

LEMMA Renumbered ==
  ASSUME NEW n \in Nat, NEW i \in 1 .. n
  PROVE  /\ \A k \in 1 .. n - 1 :
              Before(i, k) \in (1 .. n) \ {i} /\ After(i, Before(i, k)) = k
         /\ \A k \in (1 .. n) \ {i} :
              After(i, k) \in 1 .. n - 1 /\ Before(i, After(i, k)) = k
         /\ \A k, m \in 1 .. n - 1 : k < m => Before(i, k) < Before(i, m)
         /\ \A k, m \in (1 .. n) \ {i} : k < m => After(i, k) < After(i, m)
  BY DEF Before, After

\* The entries of q are the transmissions of the packets of ps that stand at
\* the indices in I, in their order.
Lists(q, ps, I, f) ==
  /\ f \in [DOMAIN q -> I]
  /\ \A k, m \in DOMAIN q : k < m => f[k] < f[m]
  /\ \A i \in I : \E k \in DOMAIN q : f[k] = i
  /\ \A k \in DOMAIN q : q[k] = Transmission(ps[f[k]])

Listed(q, ps, I) == \E f \in [DOMAIN q -> I] : Lists(q, ps, I, f)

\* The indices in I once the entry at i is gone.
Left(I, ps, i) == {k \in 1 .. Len(ps) - 1 : Before(i, k) \in I}

\* A packet of another queue is taken out.
LEMMA OtherTaken ==
  ASSUME NEW S, NEW ps \in Seq(S), NEW T, NEW q \in Seq(T), NEW I \in SUBSET (1 .. Len(ps)),
         NEW i \in (1 .. Len(ps)) \ I, Listed(q, ps, I)
  PROVE  Listed(q, RemoveAt(ps, i), Left(I, ps, i))
<1> DEFINE n == Len(ps)
           J == Left(I, ps, i)
           rest == RemoveAt(ps, i)
<1>1. n \in Nat /\ i \in 1 .. n /\ DOMAIN q = 1 .. Len(q) /\ Len(q) \in Nat
  BY LenProperties
<1>2. PICK f \in [DOMAIN q -> I] : Lists(q, ps, I, f)
  BY DEF Listed
<1>3. \A k \in 1 .. n - 1 : rest[k] = ps[Before(i, k)]
  BY <1>1, Removed DEF Before
<1> DEFINE g == [k \in DOMAIN q |-> After(i, f[k])]
<1> HIDE DEF n, rest
<1>4. \A k \in DOMAIN q : f[k] \in (1 .. n) \ {i} /\ f[k] \in I
  BY <1>2 DEF n
<1>a. /\ \A k \in (1 .. n) \ {i} :
             After(i, k) \in 1 .. n - 1 /\ Before(i, After(i, k)) = k
      /\ \A k, m \in (1 .. n) \ {i} : k < m => After(i, k) < After(i, m)
      /\ \A k \in 1 .. n - 1 : After(i, Before(i, k)) = k
  BY <1>1, Renumbered
<1>b. \A k \in DOMAIN q : Before(i, g[k]) = f[k] /\ g[k] \in 1 .. n - 1
  BY <1>4, <1>a
<1>c. J = {k \in 1 .. n - 1 : Before(i, k) \in I}
  BY DEF Left, n
<1> HIDE DEF J
<1>5. \A k \in DOMAIN q : g[k] \in J /\ Before(i, g[k]) = f[k] /\ g[k] \in 1 .. n - 1
  <2> HIDE DEF g
  <2> QED
    BY <1>4, <1>b, <1>c
<1>6. g \in [DOMAIN q -> J]
  BY <1>5
<1>7. \A k, m \in DOMAIN q : k < m => g[k] < g[m]
  BY <1>2, <1>4, <1>a DEF Lists
<1>8. ASSUME NEW j \in J
      PROVE  \E k \in DOMAIN q : g[k] = j
  <2>1. j \in 1 .. n - 1 /\ Before(i, j) \in I
    BY <1>c
  <2>2. PICK k \in DOMAIN q : f[k] = Before(i, j)
    BY <1>2, <2>1 DEF Lists
  <2>3. g[k] = j
    BY <1>a, <2>1, <2>2
  <2> QED
    BY <2>3
<1>9. \A k \in DOMAIN q : q[k] = Transmission(rest[g[k]])
  BY <1>2, <1>3, <1>5 DEF Lists
<1> HIDE DEF g, J
<1>10. Lists(q, rest, J, g)
  BY <1>6, <1>7, <1>8, <1>9 DEF Lists
<1> QED
  BY <1>6, <1>10 DEF Listed, J, rest

\* A packet of this queue is taken out, and no earlier entry equals its own.
LEMMA EntryTaken ==
  ASSUME NEW S, NEW ps \in Seq(S), NEW T, NEW q \in Seq(T), NEW I \in SUBSET (1 .. Len(ps)),
         NEW i \in I, Listed(q, ps, I),
         \A k \in I : k < i => Transmission(ps[k]) # Transmission(ps[i])
  PROVE  Listed(RemoveFirst(q, Transmission(ps[i])), RemoveAt(ps, i), Left(I, ps, i))
<1> DEFINE n == Len(ps)
           J == Left(I, ps, i)
           rest == RemoveAt(ps, i)
           e == Transmission(ps[i])
<1>1. n \in Nat /\ i \in 1 .. n /\ DOMAIN q = 1 .. Len(q) /\ Len(q) \in Nat
  BY LenProperties
<1>2. PICK f \in [DOMAIN q -> I] : Lists(q, ps, I, f)
  BY DEF Listed
<1>3. \A k \in 1 .. n - 1 : rest[k] = ps[Before(i, k)]
  BY <1>1, Removed DEF Before
<1>4. PICK m \in 1 .. Len(q) : f[m] = i
  BY <1>1, <1>2 DEF Lists
<1>5. q[m] = e
  BY <1>1, <1>2, <1>4 DEF Lists
<1> HIDE DEF e
<1>6. RemoveFirst(q, e) = RemoveAt(q, m)
  <2>1. PICK first \in 1 .. Len(q) :
               /\ q[first] = e /\ \A k \in 1 .. Len(q) : q[k] = e => first <= k
               /\ RemoveFirst(q, e) = RemoveAt(q, first)
    <3>1. \E k \in 1 .. Len(q) : q[k] = e
      BY <1>5
    <3> QED
      BY <3>1, FirstFound
  <2>2. CASE first < m
    <3>1. f[first] \in I /\ f[first] < i
      BY <1>1, <1>2, <1>4, <2>1, <2>2 DEF Lists
    <3>2. Transmission(ps[f[first]]) = e
      BY <1>1, <1>2, <2>1 DEF Lists
    <3> QED
      BY <3>1, <3>2 DEF e
  <2>3. CASE ~ (first < m)
    <3>1. first <= m
      BY <1>5, <2>1
    <3>2. first = m
      BY <1>1, <2>3, <3>1
    <3> QED
      BY <2>1, <3>2
  <2> QED
    BY <2>2, <2>3
<1> DEFINE less == RemoveAt(q, m)
<1>7. DOMAIN less = 1 .. Len(q) - 1 /\ \A k \in 1 .. Len(q) - 1 : less[k] = q[Before(m, k)]
  BY <1>1, Removed DEF Before
<1> HIDE DEF n, rest, less
<1>8. /\ \A k \in (1 .. n) \ {i} :
           After(i, k) \in 1 .. n - 1 /\ Before(i, After(i, k)) = k
      /\ \A k, l \in (1 .. n) \ {i} : k < l => After(i, k) < After(i, l)
      /\ \A k \in 1 .. n - 1 : Before(i, k) # i /\ After(i, Before(i, k)) = k
  BY <1>1, Renumbered
<1>9. /\ \A k \in 1 .. Len(q) - 1 : Before(m, k) \in (1 .. Len(q)) \ {m}
      /\ \A k, l \in 1 .. Len(q) - 1 : k < l => Before(m, k) < Before(m, l)
      /\ \A k \in (1 .. Len(q)) \ {m} :
           After(m, k) \in 1 .. Len(q) - 1 /\ Before(m, After(m, k)) = k
  BY <1>1, Renumbered
<1>10. \A k \in (1 .. Len(q)) \ {m} : f[k] \in I /\ f[k] \in (1 .. n) \ {i}
  <2> SUFFICES ASSUME NEW k \in (1 .. Len(q)) \ {m}
               PROVE  f[k] \in I /\ f[k] \in 1 .. n /\ f[k] # i
    OBVIOUS
  <2>1. f[k] \in I /\ f[k] \in 1 .. n
    BY <1>1, <1>2 DEF n
  <2>2. k < m \/ m < k
    BY <1>1
  <2>3. f[k] < f[m] \/ f[m] < f[k]
    BY <1>1, <1>2, <2>2 DEF Lists
  <2> QED
    BY <1>1, <1>4, <2>1, <2>3
<1> DEFINE g == [k \in DOMAIN less |-> After(i, f[Before(m, k)])]
<1>11. \A k \in DOMAIN less :
         g[k] \in 1 .. n - 1 /\ Before(i, g[k]) = f[Before(m, k)] /\ Before(i, g[k]) \in I
  <2> SUFFICES ASSUME NEW k \in DOMAIN less
               PROVE  /\ g[k] \in 1 .. n - 1
                      /\ Before(i, g[k]) = f[Before(m, k)] /\ Before(i, g[k]) \in I
    OBVIOUS
  <2>1. Before(m, k) \in (1 .. Len(q)) \ {m}
    BY <1>7, <1>9
  <2>2. f[Before(m, k)] \in I /\ f[Before(m, k)] \in (1 .. n) \ {i}
    BY <1>10, <2>1
  <2>3. g[k] = After(i, f[Before(m, k)])
    OBVIOUS
  <2> HIDE DEF g
  <2> QED
    BY <1>8, <2>2, <2>3
<1>12. J = {k \in 1 .. n - 1 : Before(i, k) \in I}
  BY DEF Left, n
<1> HIDE DEF J
<1>13. g \in [DOMAIN less -> J]
  <2>1. \A k \in DOMAIN less : g[k] \in J
    <3> HIDE DEF g
    <3> QED
      BY <1>11, <1>12
  <2> QED
    BY <2>1
<1>14. ASSUME NEW k \in DOMAIN less, NEW l \in DOMAIN less, k < l
       PROVE  g[k] < g[l]
  <2>1. Before(m, k) < Before(m, l)
    BY <1>7, <1>9, <1>14
  <2>2. Before(m, k) \in (1 .. Len(q)) \ {m} /\ Before(m, l) \in (1 .. Len(q)) \ {m}
    BY <1>7, <1>9
  <2>3. f[Before(m, k)] < f[Before(m, l)]
    BY <1>1, <1>2, <2>1, <2>2 DEF Lists
  <2>4. f[Before(m, k)] \in (1 .. n) \ {i} /\ f[Before(m, l)] \in (1 .. n) \ {i}
    BY <1>10, <2>2
  <2> QED
    BY <1>8, <2>3, <2>4
<1>15. ASSUME NEW j \in J
       PROVE  \E k \in DOMAIN less : g[k] = j
  <2>1. j \in 1 .. n - 1 /\ Before(i, j) \in I /\ Before(i, j) # i
    BY <1>8, <1>12
  <2>2. PICK k \in DOMAIN q : f[k] = Before(i, j)
    BY <1>2, <2>1 DEF Lists
  <2>3. k \in (1 .. Len(q)) \ {m}
    BY <1>1, <1>4, <2>1, <2>2
  <2>4. After(m, k) \in DOMAIN less /\ Before(m, After(m, k)) = k
    BY <1>7, <1>9, <2>3
  <2>5. g[After(m, k)] = After(i, Before(i, j))
    BY <2>2, <2>4
  <2> QED
    BY <1>8, <2>1, <2>4, <2>5
<1>16. ASSUME NEW k \in DOMAIN less
       PROVE  less[k] = Transmission(rest[g[k]])
  <2>1. less[k] = q[Before(m, k)] /\ Before(m, k) \in DOMAIN q
    BY <1>1, <1>7, <1>9
  <2>2. q[Before(m, k)] = Transmission(ps[f[Before(m, k)]])
    BY <1>2, <2>1 DEF Lists
  <2>3. rest[g[k]] = ps[f[Before(m, k)]]
    <3> HIDE DEF g
    <3> QED
      BY <1>3, <1>11
  <2> QED
    BY <2>1, <2>2, <2>3
<1> HIDE DEF g
<1>17. Lists(less, rest, J, g)
  BY <1>13, <1>14, <1>15, <1>16 DEF Lists
<1>18. Listed(less, rest, J)
  BY <1>13, <1>17 DEF Listed
<1> QED
  BY <1>6, <1>18 DEF J, rest, less, e

\* A packet is sent that does not go into this queue, or none is.
LEMMA OtherSent ==
  ASSUME NEW S, NEW ps \in Seq(S), NEW more \in Seq(S), NEW q, NEW I \in SUBSET (1 .. Len(ps)),
         Listed(q, ps, I)
  PROVE  Listed(q, ps \o more, I)
<1>1. Len(ps) \in Nat /\ Len(more) \in Nat
  BY LenProperties
<1>2. \A k \in 1 .. Len(ps) : (ps \o more)[k] = ps[k]
  BY <1>1, ConcatProperties
<1>3. PICK f \in [DOMAIN q -> I] : Lists(q, ps, I, f)
  BY DEF Listed
<1>4. \A k \in DOMAIN q : (ps \o more)[f[k]] = ps[f[k]]
  BY <1>2
<1>5. Lists(q, ps \o more, I, f)
  BY <1>3, <1>4 DEF Lists
<1> QED
  BY <1>5 DEF Listed

\* A packet is sent and queued here.
LEMMA EntrySent ==
  ASSUME NEW S, NEW ps \in Seq(S), NEW p \in S, NEW T, NEW q \in Seq(T), Transmission(p) \in T,
         NEW I \in SUBSET (1 .. Len(ps)), Listed(q, ps, I)
  PROVE  Listed(Append(q, Transmission(p)), ps \o <<p>>, I \union {Len(ps) + 1})
<1> DEFINE n == Len(ps) + 1
           len == Len(q) + 1
           more == Append(q, Transmission(p))
           all == ps \o <<p>>
           K == I \union {n}
<1>0. \A l \in Nat : /\ l + 1 \in 1 .. l + 1 /\ ~ (l + 1 <= l) /\ (l + 1) - l = 1
                      /\ \A k \in 1 .. l : k \in 1 .. l + 1 /\ k <= l /\ k < l + 1
  OBVIOUS
<1>1. Len(ps) \in Nat /\ Len(q) \in Nat /\ DOMAIN q = 1 .. Len(q)
  BY LenProperties
<1>2. DOMAIN more = 1 .. len /\ more[len] = Transmission(p)
      /\ \A k \in 1 .. Len(q) : more[k] = q[k]
  BY <1>1
<1>3. all[n] = p /\ \A k \in 1 .. Len(ps) : all[k] = ps[k]
  <2>1. <<p>> \in Seq(S) /\ Len(<<p>>) = 1 /\ <<p>>[1] = p
    OBVIOUS
  <2> HIDE DEF all
  <2>2. \A k \in 1 .. Len(ps) + 1 : all[k] = IF k <= Len(ps) THEN ps[k] ELSE <<p>>[k - Len(ps)]
    BY <2>1, ConcatProperties DEF all
  <2>3. all[n] = p
    <3>1. n \in 1 .. Len(ps) + 1 /\ ~ (n <= Len(ps)) /\ n - Len(ps) = 1
      BY <1>0, <1>1
    <3> QED
      BY <2>1, <2>2, <3>1
  <2>4. \A k \in 1 .. Len(ps) : k \in 1 .. Len(ps) + 1 /\ k <= Len(ps)
    BY <1>0, <1>1
  <2> QED
    BY <2>2, <2>3, <2>4
<1>4. PICK f \in [DOMAIN q -> I] : Lists(q, ps, I, f)
  BY DEF Listed
<1> DEFINE g == [k \in 1 .. len |-> IF k = len THEN n ELSE f[k]]
<1> HIDE DEF more, all
<1>5. g \in [DOMAIN more -> K] /\ g[len] = n
      /\ \A k \in 1 .. Len(q) : k \in 1 .. len /\ k # len /\ g[k] = f[k] /\ f[k] \in 1 .. Len(ps)
  <2>1. len \in 1 .. len /\ \A k \in 1 .. Len(q) : k \in 1 .. len /\ k # len
    BY <1>1
  <2>2. \A k \in 1 .. len : k = len \/ k \in 1 .. Len(q)
    BY <1>1
  <2>3. \A k \in 1 .. Len(q) : f[k] \in I /\ f[k] \in 1 .. Len(ps)
    BY <1>1
  <2> HIDE DEF len, n
  <2>4. g[len] = n /\ \A k \in 1 .. Len(q) : g[k] = f[k]
    BY <2>1
  <2>5. g \in [1 .. len -> K]
    BY <2>2, <2>3
  <2> HIDE DEF g
  <2> QED
    BY <1>2, <2>1, <2>3, <2>4, <2>5
<1> HIDE DEF g
<1>6. \A k \in 1 .. len : k = len \/ k \in 1 .. Len(q)
  BY <1>1
<1>7. ASSUME NEW k \in DOMAIN more, NEW m \in DOMAIN more, k < m
      PROVE  g[k] < g[m]
  <2>1. k \in 1 .. Len(q)
    BY <1>1, <1>2, <1>7
  <2>2. CASE m = len
    <3>1. g[k] \in 1 .. Len(ps) /\ g[m] = n
      BY <1>5, <2>1, <2>2
    <3>2. \A k1 \in 1 .. Len(ps) : k1 < Len(ps) + 1
      BY <1>0, <1>1
    <3>3. g[k] < n
      BY <3>1, <3>2
    <3> HIDE DEF n, g
    <3> QED
      BY <3>1, <3>3
  <2>3. CASE m \in 1 .. Len(q)
    BY <1>1, <1>4, <1>5, <1>7, <2>1, <2>3 DEF Lists
  <2> QED
    BY <1>2, <1>6, <2>2, <2>3
<1>8. ASSUME NEW i \in K
      PROVE  \E k \in DOMAIN more : g[k] = i
  <2>1. CASE i = n
    <3>1. len \in DOMAIN more
      BY <1>1, <1>2
    <3> QED
      BY <1>5, <2>1, <3>1
  <2>2. CASE i \in I
    <3>1. PICK k \in DOMAIN q : f[k] = i
      BY <1>4, <2>2 DEF Lists
    <3> QED
      BY <1>1, <1>2, <1>5, <3>1
  <2> QED
    BY <2>1, <2>2
<1>9. ASSUME NEW k \in DOMAIN more
      PROVE  more[k] = Transmission(all[g[k]])
  <2>1. CASE k = len
    BY <1>2, <1>3, <1>5, <2>1
  <2>2. CASE k \in 1 .. Len(q)
    <3>1. more[k] = q[k] /\ q[k] = Transmission(ps[f[k]])
      BY <1>1, <1>2, <1>4, <2>2 DEF Lists
    <3>2. all[g[k]] = ps[f[k]]
      BY <1>3, <1>5, <2>2
    <3> QED
      BY <3>1, <3>2
  <2> QED
    BY <1>2, <1>6, <2>1, <2>2
<1>10. Lists(more, all, K, g)
  BY <1>5, <1>7, <1>8, <1>9 DEF Lists
<1>11. Listed(more, all, K)
  BY <1>5, <1>10 DEF Listed
<1> QED
  BY <1>11 DEF more, all

-----------------------------------------------------------------------------
(* A link: its record, and the order of the transmissions on it. *)

Entry == [from : Node, to : Node, departure : Nat, arrival : Nat]

\* The transmissions of a queue follow each other, and the slot is reserved to
\* the end of the last.
InTurn(q, busy) ==
  /\ \A i \in DOMAIN q : q[i].arrival <= busy
  /\ \A i, j \in DOMAIN q : i < j => q[i].arrival <= q[j].departure

GoodLink(l) ==
  /\ l \in LinkRecord
  /\ \A s \in Slot : InTurn(l.queue[s], l.busyUntil[s]) /\ Len(l.queue[s]) <= QueueCapacity

\* What never changes of a link that stays.
SameEnds(k, l) == k.a = l.a /\ k.b = l.b /\ k.mode = l.mode /\ k.lossy = l.lossy

LEMMA LinkFields ==
  ASSUME NEW l \in LinkRecord, NEW n
  PROVE  /\ SlotOf(l, n) \in Slot /\ l.a \in Node /\ l.b \in Node
         /\ l.delay \in Nat /\ l.bandwidth \in Nat \ {0}
         /\ l.busyUntil \in [Slot -> Nat] /\ l.queue \in [Slot -> Seq(Entry)]
  BY DEF LinkRecord, LinkRecords, SlotOf, Slot, Entry

LEMMA TravelTimeNat ==
  ASSUME NEW l \in LinkRecord
  PROVE  TravelTime(l) \in Nat
<1>1. l.delay \in Nat /\ l.bandwidth \in Nat \ {0} /\ PacketSize \in Nat
  BY LinkFields, LinkAssumption
<1>2. \A x, y \in Nat : y # 0 => x \div y \in Nat
  OBVIOUS
<1>3. PacketSize \div l.bandwidth \in Nat
  BY <1>1, <1>2
<1> QED
  BY <1>1, <1>3 DEF TravelTime

LEMMA InTurnAfterRemoveFirst ==
  ASSUME NEW q \in Seq(Entry), NEW e, NEW busy, InTurn(q, busy)
  PROVE  RemoveFirst(q, e) \in Seq(Entry) /\ InTurn(RemoveFirst(q, e), busy)
         /\ Len(RemoveFirst(q, e)) <= Len(q)
<1>1. Len(q) \in Nat /\ DOMAIN q = 1 .. Len(q)
  BY LenProperties
<1>2. CASE \E k \in 1 .. Len(q) : q[k] = e
  <2>1. PICK i \in 1 .. Len(q) : RemoveFirst(q, e) = RemoveAt(q, i)
    BY <1>2, FirstFound
  <2> DEFINE r == RemoveAt(q, i)
  <2>2. /\ r \in Seq(Entry) /\ DOMAIN r = 1 .. Len(q) - 1 /\ Len(r) = Len(q) - 1
        /\ \A k \in 1 .. Len(q) - 1 : r[k] = q[Before(i, k)]
    BY Removed DEF Before
  <2> HIDE DEF r
  <2>3. /\ \A k \in 1 .. Len(q) - 1 : Before(i, k) \in 1 .. Len(q)
        /\ \A k, m \in 1 .. Len(q) - 1 : k < m => Before(i, k) < Before(i, m)
    BY <1>1, Renumbered
  <2>4. InTurn(r, busy)
    BY <1>1, <2>2, <2>3 DEF InTurn
  <2>5. Len(r) <= Len(q)
    BY <1>1, <2>2
  <2> QED
    BY <2>1, <2>2, <2>4, <2>5 DEF r
<1>3. CASE ~ \E k \in 1 .. Len(q) : q[k] = e
  BY <1>1, <1>3 DEF RemoveFirst
<1> QED
  BY <1>2, <1>3

LEMMA InTurnAfterAppend ==
  ASSUME NEW q \in Seq(Entry), NEW e \in Entry, NEW busy \in Nat, InTurn(q, busy),
         busy <= e.departure, e.departure <= e.arrival
  PROVE  Append(q, e) \in Seq(Entry) /\ InTurn(Append(q, e), e.arrival)
<1> DEFINE r == Append(q, e)
           len == Len(q) + 1
<1>1. Len(q) \in Nat /\ DOMAIN q = 1 .. Len(q) /\ \A k \in 1 .. Len(q) : q[k] \in Entry
  BY LenProperties, ElementOfSeq
<1>2. /\ r \in Seq(Entry) /\ DOMAIN r = 1 .. len /\ r[len] = e
      /\ \A k \in 1 .. Len(q) : r[k] = q[k]
  BY <1>1
<1> HIDE DEF r
<1>3. \A k \in 1 .. len : k = len \/ k \in 1 .. Len(q)
  BY <1>1
<1>4. e.departure \in Nat /\ e.arrival \in Nat
  BY DEF Entry
<1>5. \A k \in 1 .. Len(q) : q[k].arrival \in Nat /\ q[k].departure \in Nat
  BY <1>1 DEF Entry
<1>6. \A k \in 1 .. Len(q) : r[k].arrival <= e.departure /\ r[k].arrival <= e.arrival
  <2>1. \A k \in 1 .. Len(q) : q[k].arrival <= busy
    BY <1>1 DEF InTurn
  <2>2. \A x, b, d, a \in Nat : x <= b /\ b <= d /\ d <= a => x <= d /\ x <= a
    OBVIOUS
  <2> QED
    BY <1>2, <1>4, <1>5, <2>1, <2>2
<1>7. \A k \in DOMAIN r : r[k].arrival <= e.arrival
  <2>1. e.arrival <= e.arrival
    BY <1>4
  <2> QED
    BY <1>2, <1>3, <1>6, <2>1
<1>8. ASSUME NEW i \in DOMAIN r, NEW j \in DOMAIN r, i < j
      PROVE  r[i].arrival <= r[j].departure
  <2>1. i \in 1 .. Len(q)
    BY <1>1, <1>2, <1>8
  <2>2. CASE j = len
    BY <1>2, <1>6, <2>1, <2>2
  <2>3. CASE j \in 1 .. Len(q)
    BY <1>1, <1>2, <1>8, <2>1, <2>3 DEF InTurn
  <2> QED
    BY <1>2, <1>3, <2>2, <2>3
<1> QED
  BY <1>2, <1>7, <1>8 DEF InTurn, r

\* dequeueTransmission.
LEMMA DequeuedLink ==
  ASSUME NEW l, GoodLink(l), NEW e
  PROVE  LET d == DequeueTransmission(l, e) IN
         /\ GoodLink(d) /\ SameEnds(d, l)
         /\ d.queue = [l.queue EXCEPT ![SlotOf(l, e.from)] = RemoveFirst(@, e)]
<1> DEFINE x == SlotOf(l, e.from)
           d == DequeueTransmission(l, e)
           queue == [l.queue EXCEPT ![x] = RemoveFirst(@, e)]
<1>1. l \in LinkRecord /\ x \in Slot /\ l.queue \in [Slot -> Seq(Entry)]
  BY LinkFields DEF GoodLink
<1>2. d = [l EXCEPT !.queue = queue]
  BY <1>1 DEF DequeueTransmission, LinkRecord, LinkRecords
<1>3. RemoveFirst(l.queue[x], e) \in Seq(Entry)
      /\ InTurn(RemoveFirst(l.queue[x], e), l.busyUntil[x])
      /\ Len(RemoveFirst(l.queue[x], e)) <= QueueCapacity
  <2>1. /\ l.queue[x] \in Seq(Entry) /\ InTurn(l.queue[x], l.busyUntil[x])
        /\ Len(l.queue[x]) <= QueueCapacity
    BY <1>1 DEF GoodLink
  <2>2. /\ RemoveFirst(l.queue[x], e) \in Seq(Entry)
        /\ InTurn(RemoveFirst(l.queue[x], e), l.busyUntil[x])
        /\ Len(RemoveFirst(l.queue[x], e)) <= Len(l.queue[x])
    BY <2>1, InTurnAfterRemoveFirst
  <2>3. /\ Len(l.queue[x]) \in Nat /\ Len(RemoveFirst(l.queue[x], e)) \in Nat
        /\ QueueCapacity \in Nat
    BY <2>1, <2>2, LenProperties, LinkAssumption
  <2> QED
    BY <2>1, <2>2, <2>3
<1> HIDE DEF x
<1>4. /\ queue \in [Slot -> Seq(Entry)]
      /\ \A s \in Slot : InTurn(queue[s], l.busyUntil[s]) /\ Len(queue[s]) <= QueueCapacity
  BY <1>1, <1>3 DEF GoodLink
<1> HIDE DEF queue
<1>5. /\ d \in LinkRecord /\ d.queue = queue /\ d.busyUntil = l.busyUntil
      /\ SameEnds(d, l)
  BY <1>1, <1>2, <1>4 DEF LinkRecord, LinkRecords, SameEnds, Entry
<1> HIDE DEF d
<1>6. GoodLink(d)
  BY <1>4, <1>5 DEF GoodLink
<1> QED
  BY <1>5, <1>6 DEF d, queue, x

\* r is link l reserved for a transmission from n at time d, when the link is free.
ReservedAt(r, l, n, d, t) ==
  /\ d \in Nat /\ t <= d /\ l.busyUntil[SlotOf(l, n)] <= d
  /\ GoodLink(r) /\ SameEnds(r, l) /\ r.queue = l.queue
  /\ r.busyUntil = [l.busyUntil EXCEPT ![SlotOf(l, n)] = d + TravelTime(l)]

\* reserveTransmission, no earlier than getNextAvailableTime says.
LEMMA ReservedLink ==
  ASSUME NEW l, GoodLink(l), NEW n, NEW t \in Nat,
         NEW d, d = NextAvailableTime(l, n, t)
  PROVE  ReservedAt(ReserveTransmission(l, n, d), l, n, d, t)
<1> DEFINE x == SlotOf(l, n)
           r == ReserveTransmission(l, n, d)
           busy == [l.busyUntil EXCEPT ![x] = d + TravelTime(l)]
<1>1. /\ l \in LinkRecord /\ x \in Slot /\ l.queue \in [Slot -> Seq(Entry)]
      /\ l.busyUntil \in [Slot -> Nat] /\ TravelTime(l) \in Nat
  BY LinkFields, TravelTimeNat DEF GoodLink
<1>2. r = [l EXCEPT !.busyUntil = busy]
  BY <1>1 DEF ReserveTransmission, LinkRecord, LinkRecords
<1>3. d \in Nat /\ t <= d /\ l.busyUntil[x] <= d
  <2>1. l.busyUntil[x] \in Nat
    BY <1>1
  <2> QED
    BY <2>1 DEF NextAvailableTime
<1> HIDE DEF x
<1>4. busy \in [Slot -> Nat] /\ \A s \in Slot : l.busyUntil[s] <= busy[s]
  <2>1. d + TravelTime(l) \in Nat /\ l.busyUntil[x] <= d + TravelTime(l)
    <3>1. \A a, b, c \in Nat : a <= b => b + c \in Nat /\ a <= b + c
      OBVIOUS
    <3>2. l.busyUntil[x] \in Nat
      BY <1>1
    <3> QED
      BY <1>1, <1>3, <3>1, <3>2
  <2>2. \A a \in Nat : a <= a
    OBVIOUS
  <2> QED
    BY <1>1, <2>1, <2>2
<1>5. ASSUME NEW s \in Slot
      PROVE  InTurn(l.queue[s], busy[s])
  <2> DEFINE q == l.queue[s]
  <2>1. q \in Seq(Entry) /\ InTurn(q, l.busyUntil[s])
        /\ l.busyUntil[s] \in Nat /\ busy[s] \in Nat /\ l.busyUntil[s] <= busy[s]
    BY <1>1, <1>4 DEF GoodLink
  <2> HIDE DEF q, busy
  <2>2. \A i \in DOMAIN q : q[i].arrival \in Nat
    <3>1. \A i \in DOMAIN q : q[i] \in Entry
      BY <2>1, LenProperties, ElementOfSeq
    <3> QED
      BY <3>1 DEF Entry
  <2>3. \A a, b, c \in Nat : a <= b /\ b <= c => a <= c
    OBVIOUS
  <2>4. \A i \in DOMAIN q : q[i].arrival <= busy[s]
    BY <2>1, <2>2, <2>3 DEF InTurn
  <2>5. InTurn(q, busy[s])
    BY <2>1, <2>4 DEF InTurn
  <2> QED
    BY <2>5 DEF q
<1> HIDE DEF busy
<1>6. r \in LinkRecord /\ r.queue = l.queue /\ r.busyUntil = busy /\ SameEnds(r, l)
  BY <1>1, <1>2, <1>4 DEF LinkRecord, LinkRecords, SameEnds
<1> HIDE DEF r
<1>7. GoodLink(r)
  <2>1. \A s \in Slot : Len(l.queue[s]) <= QueueCapacity
    BY DEF GoodLink
  <2> QED
    BY <1>5, <1>6, <2>1 DEF GoodLink
<1>8. r.busyUntil = [l.busyUntil EXCEPT ![SlotOf(l, n)] = d + TravelTime(l)]
  BY <1>6 DEF busy, x
<1>9. ReservedAt(r, l, n, d, t)
  BY <1>3, <1>6, <1>7, <1>8 DEF ReservedAt, x
<1> QED
  BY <1>9 DEF r

\* A transmission from n at time t, as soon as link l is free.
ReservedFor(e, l, n, t) ==
  /\ e.from = n /\ e.departure = NextAvailableTime(l, n, t)
  /\ e.arrival = e.departure + TravelTime(l)

\* k is link l with e added to the queue that starts at n.
Enqueued(k, l, n, e) ==
  /\ GoodLink(k) /\ SameEnds(k, l)
  /\ k.queue = [l.queue EXCEPT ![SlotOf(l, n)] = Append(@, e)]

\* enqueueTransmission, of the transmission for which the link was reserved.
LEMMA EnqueuedLink ==
  ASSUME NEW l, GoodLink(l), NEW n, NEW t \in Nat, NEW e \in Entry,
         ReservedFor(e, l, n, t), Len(l.queue[SlotOf(l, n)]) < QueueCapacity
  PROVE  Enqueued(EnqueueTransmission(ReserveTransmission(l, n, e.departure), e), l, n, e)
<1> DEFINE x == SlotOf(l, n)
           r == ReserveTransmission(l, n, e.departure)
           k == EnqueueTransmission(r, e)
           queue == [l.queue EXCEPT ![x] = Append(@, e)]
<1>1. /\ l \in LinkRecord /\ x \in Slot /\ l.queue \in [Slot -> Seq(Entry)]
      /\ l.busyUntil \in [Slot -> Nat] /\ TravelTime(l) \in Nat
  BY LinkFields, TravelTimeNat DEF GoodLink
<1>2. /\ l.busyUntil[x] <= e.departure /\ GoodLink(r) /\ SameEnds(r, l) /\ r.queue = l.queue
      /\ r.busyUntil = [l.busyUntil EXCEPT ![x] = e.arrival]
  <2>1. /\ e.departure = NextAvailableTime(l, n, t)
        /\ e.arrival = e.departure + TravelTime(l)
    BY DEF ReservedFor
  <2>2. ReservedAt(r, l, n, e.departure, t)
    BY <2>1, ReservedLink
  <2> QED
    BY <2>1, <2>2 DEF ReservedAt
<1>3. SlotOf(r, e.from) = x
  BY <1>2 DEF SameEnds, SlotOf, ReservedFor
<1> HIDE DEF r, x
<1>4. k = [r EXCEPT !.queue = queue]
  <2>1. r \in LinkRecord
    BY <1>2 DEF GoodLink
  <2> QED
    BY <1>2, <1>3, <2>1 DEF EnqueueTransmission, LinkRecord, LinkRecords
<1>5. /\ Append(l.queue[x], e) \in Seq(Entry) /\ InTurn(Append(l.queue[x], e), e.arrival)
      /\ Len(Append(l.queue[x], e)) <= QueueCapacity
  <2>1. /\ l.queue[x] \in Seq(Entry) /\ l.busyUntil[x] \in Nat
        /\ InTurn(l.queue[x], l.busyUntil[x])
    BY <1>1 DEF GoodLink
  <2>2. e.departure <= e.arrival
    <3>1. e.departure \in Nat
      BY DEF Entry
    <3> QED
      BY <1>1, <3>1 DEF ReservedFor
  <2>3. Len(Append(l.queue[x], e)) <= QueueCapacity
    <3> DEFINE q == l.queue[x]
    <3>1. q \in Seq(Entry) /\ Len(q) \in Nat /\ Len(q) < QueueCapacity /\ QueueCapacity \in Nat
      BY <2>1, LenProperties, LinkAssumption DEF x
    <3> HIDE DEF q
    <3>2. Len(Append(q, e)) = Len(q) + 1
      BY <3>1
    <3>3. Len(Append(q, e)) <= QueueCapacity
      BY <3>1, <3>2
    <3> QED
      BY <3>3 DEF q
  <2> QED
    BY <1>2, <2>1, <2>2, <2>3, InTurnAfterAppend
<1>6. /\ queue \in [Slot -> Seq(Entry)]
      /\ \A s \in Slot : InTurn(queue[s], r.busyUntil[s]) /\ Len(queue[s]) <= QueueCapacity
  BY <1>1, <1>2, <1>5 DEF GoodLink
<1> HIDE DEF queue
<1>7. r \in LinkRecord
  BY <1>2 DEF GoodLink
<1>8. k \in LinkRecord /\ k.queue = queue /\ k.busyUntil = r.busyUntil /\ SameEnds(k, r)
  BY <1>4, <1>6, <1>7 DEF LinkRecord, LinkRecords, SameEnds, Entry
<1> HIDE DEF k
<1>9. GoodLink(k) /\ SameEnds(k, l)
  BY <1>2, <1>6, <1>8 DEF GoodLink, SameEnds
<1> QED
  BY <1>8, <1>9 DEF k, r, queue, x, Enqueued

-----------------------------------------------------------------------------
(* All links, and the packets on them. *)

GoodLinks(ls) == \A id \in DOMAIN ls : GoodLink(ls[id])

\* The packets of ps that are on slot s of link l, whose identifier is id.
On(l, id, ps, s) ==
  {i \in DOMAIN ps : ps[i].link = id /\ SlotOf(l, ps[i].previous) = s}

SlotsHold(ls, ps) ==
  \A id \in DOMAIN ls, s \in Slot : Listed(ls[id].queue[s], ps, On(ls[id], id, ps, s))

LEMMA OnSame ==
  ASSUME NEW k, NEW l, SameEnds(k, l), NEW id, NEW ps, NEW s
  PROVE  On(k, id, ps, s) = On(l, id, ps, s)
BY DEF SameEnds, On, SlotOf

LEMMA OnAfterTaking ==
  ASSUME NEW l, NEW id, NEW s, NEW ps \in Seq(Packet), NEW i \in DOMAIN ps
  PROVE  /\ On(l, id, ps, s) \in SUBSET (1 .. Len(ps))
         /\ On(l, id, RemoveAt(ps, i), s) = Left(On(l, id, ps, s), ps, i)
<1> DEFINE rest == RemoveAt(ps, i)
           n == Len(ps)
<1>1. n \in Nat /\ DOMAIN ps = 1 .. n /\ i \in 1 .. n
  BY LenProperties
<1>2. DOMAIN rest = 1 .. n - 1 /\ \A k \in 1 .. n - 1 : rest[k] = ps[Before(i, k)]
  BY <1>1, Removed DEF Before
<1>3. \A k \in 1 .. n - 1 : Before(i, k) \in 1 .. n
  BY <1>1, Renumbered
<1> HIDE DEF rest
<1>4. On(l, id, rest, s) = {k \in 1 .. n - 1 : Before(i, k) \in On(l, id, ps, s)}
  BY <1>1, <1>2, <1>3 DEF On
<1> QED
  BY <1>1, <1>4 DEF Left, rest, On

LEMMA OnAfterSending ==
  ASSUME NEW l, NEW id, NEW s, NEW ps \in Seq(Packet), NEW p \in Packet
  PROVE  On(l, id, ps \o <<p>>, s) =
           On(l, id, ps, s) \union
             (IF p.link = id /\ SlotOf(l, p.previous) = s THEN {Len(ps) + 1} ELSE {})
<1> DEFINE all == ps \o <<p>>
           n == Len(ps) + 1
<1>1. Len(ps) \in Nat /\ DOMAIN ps = 1 .. Len(ps)
  BY LenProperties
<1>2. <<p>> \in Seq(Packet) /\ Len(<<p>>) = 1 /\ <<p>>[1] = p
  OBVIOUS
<1>3. /\ all \in Seq(Packet) /\ Len(all) = n
      /\ \A k \in 1 .. n : all[k] = IF k <= Len(ps) THEN ps[k] ELSE <<p>>[k - Len(ps)]
  BY <1>2, ConcatProperties
<1> HIDE DEF all
<1>4. DOMAIN all = 1 .. n
  BY <1>3, LenProperties
<1>5. \A m \in Nat : /\ m + 1 \in 1 .. m + 1 /\ ~ (m + 1 <= m) /\ (m + 1) - m = 1
                     /\ \A k \in 1 .. m : k \in 1 .. m + 1 /\ k <= m
                     /\ \A k \in 1 .. m + 1 : k = m + 1 \/ k \in 1 .. m
  OBVIOUS
<1>6. all[n] = p /\ n \in 1 .. n
  BY <1>1, <1>2, <1>3, <1>5
<1>7. \A k \in 1 .. Len(ps) : k \in 1 .. n /\ all[k] = ps[k]
  BY <1>1, <1>3, <1>5
<1>8. \A k \in 1 .. n : k = n \/ k \in 1 .. Len(ps)
  BY <1>1, <1>5
<1> HIDE DEF n
<1>9. On(l, id, all, s) =
        On(l, id, ps, s) \union (IF p.link = id /\ SlotOf(l, p.previous) = s THEN {n} ELSE {})
  BY <1>1, <1>4, <1>6, <1>7, <1>8 DEF On
<1> QED
  BY <1>9 DEF all, n

\* releasePacketThroughTopology, of the packet that arrives next.
LEMMA ReleasedSound ==
  ASSUME GoodLinks(links), arrivals \in Seq(Packet), SlotsHold(links, arrivals),
         NEW i \in DOMAIN arrivals, IsNext(i)
  PROVE  LET ls == Released(arrivals[i]) IN
         /\ DOMAIN ls = DOMAIN links /\ GoodLinks(ls)
         /\ SlotsHold(ls, RemoveAt(arrivals, i))
<1> DEFINE p == arrivals[i]
           e == Transmission(p)
           ls == Released(p)
           rest == RemoveAt(arrivals, i)
<1>1. /\ DOMAIN ls = DOMAIN links
      /\ \A id \in DOMAIN links :
           ls[id] = IF id = p.link THEN DequeueTransmission(links[id], e) ELSE links[id]
  BY DEF Released
<1>2. p \in Packet /\ DOMAIN arrivals = 1 .. Len(arrivals) /\ Len(arrivals) \in Nat
  BY LenProperties, ElementOfSeq
<1>3. e.from = p.previous
  BY DEF Transmission
<1> HIDE DEF ls, e
<1>d. ASSUME NEW id \in DOMAIN links
      PROVE  /\ GoodLink(links[id]) /\ links[id].queue \in [Slot -> Seq(Entry)]
             /\ GoodLink(ls[id]) /\ SameEnds(ls[id], links[id])
             /\ \A s \in Slot :
                  ls[id].queue[s] =
                    IF id = p.link /\ SlotOf(links[id], p.previous) = s
                      THEN RemoveFirst(links[id].queue[s], e) ELSE links[id].queue[s]
  <2> DEFINE l == links[id]
             d == DequeueTransmission(l, e)
  <2>1. GoodLink(l) /\ l.queue \in [Slot -> Seq(Entry)]
    BY LinkFields DEF GoodLinks, GoodLink
  <2>2. /\ GoodLink(d) /\ SameEnds(d, l)
        /\ d.queue = [l.queue EXCEPT ![SlotOf(l, e.from)] = RemoveFirst(@, e)]
    BY <2>1, DequeuedLink
  <2> HIDE DEF l, d
  <2>3. SameEnds(l, l)
    BY DEF SameEnds
  <2>4. /\ GoodLink(d) /\ SameEnds(d, l)
        /\ \A s \in Slot : d.queue[s] =
             IF SlotOf(l, p.previous) = s THEN RemoveFirst(l.queue[s], e) ELSE l.queue[s]
    BY <1>3, <2>1, <2>2
  <2>5. ls[id] = IF id = p.link THEN d ELSE l
    BY <1>1 DEF d, l
  <2>6. /\ GoodLink(ls[id]) /\ SameEnds(ls[id], l)
        /\ \A s \in Slot :
             ls[id].queue[s] =
               IF id = p.link /\ SlotOf(l, p.previous) = s
                 THEN RemoveFirst(l.queue[s], e) ELSE l.queue[s]
    <3>1. CASE id = p.link
      BY <2>4, <2>5, <3>1
    <3>2. CASE id # p.link
      BY <2>1, <2>3, <2>5, <3>2
    <3> QED
      BY <3>1, <3>2
  <2> QED
    BY <2>1, <2>6 DEF l
<1>4. GoodLinks(ls)
  BY <1>1, <1>d DEF GoodLinks
<1>5. ASSUME NEW id \in DOMAIN links, NEW s \in Slot
      PROVE  Listed(ls[id].queue[s], rest, On(ls[id], id, rest, s))
  <2> DEFINE l == links[id]
             q == l.queue[s]
             I == On(l, id, arrivals, s)
  <2>1. /\ GoodLink(l) /\ l.queue \in [Slot -> Seq(Entry)] /\ q \in Seq(Entry)
        /\ Listed(q, arrivals, I)
    BY <1>d DEF SlotsHold
  <2>2. I \in SUBSET (1 .. Len(arrivals)) /\ On(l, id, rest, s) = Left(I, arrivals, i)
    BY OnAfterTaking
  <2>3. On(ls[id], id, rest, s) = On(l, id, rest, s)
    BY <1>d, OnSame
  <2>4. CASE id = p.link /\ SlotOf(l, p.previous) = s
    <3>1. ls[id].queue[s] = RemoveFirst(q, e)
      BY <1>d, <2>4
    <3>2. i \in I
      BY <2>4 DEF On
    <3>3. ASSUME NEW k \in I, k < i
          PROVE  Transmission(arrivals[k]) # Transmission(arrivals[i])
      <4>1. /\ k \in DOMAIN arrivals /\ k \in Nat /\ i \in Nat
            /\ arrivals[k].arrival \in Nat /\ p.arrival \in Nat
        <5>1. k \in 1 .. Len(arrivals) /\ i \in 1 .. Len(arrivals)
          BY <1>2, <2>2
        <5>2. arrivals[k] \in Packet
          BY <5>1, ElementOfSeq
        <5> QED
          BY <1>2, <5>1, <5>2 DEF Packet
      <4>2. arrivals[k].arrival # p.arrival
        BY <3>3, <4>1 DEF IsNext
      <4> QED
        BY <4>2 DEF Transmission
    <3> HIDE DEF I, q
    <3> QED
      BY <2>1, <2>2, <2>3, <3>1, <3>2, <3>3, EntryTaken DEF e
  <2>5. CASE ~ (id = p.link /\ SlotOf(l, p.previous) = s)
    <3>1. ls[id].queue[s] = q
      BY <1>d, <2>5
    <3>2. i \notin I
      BY <2>5 DEF On
    <3>3. i \in (1 .. Len(arrivals)) \ I
      BY <1>2, <3>2
    <3> HIDE DEF I, q
    <3> QED
      BY <2>1, <2>2, <2>3, <3>1, <3>3, OtherTaken
  <2> QED
    BY <2>4, <2>5
<1>6. SlotsHold(ls, rest)
  BY <1>1, <1>5 DEF SlotsHold
<1> QED
  BY <1>1, <1>4, <1>6 DEF ls

\* A packet that may be sent over a link: new, or on its way.
Sendable ==
  [source : Node, destination : Node, current : Node, previous : Node \union {NoHop},
   link : Nat, hops : Nat, departure : Nat, arrival : Nat]

LEMMA MovedPacket ==
  ASSUME NEW l, GoodLink(l), NEW id \in Nat, NEW p \in Sendable, NEW t \in Nat
  PROVE  LET m == Moved(l, id, p, t) IN
         /\ m \in Packet /\ m.link = id /\ m.previous = p.current
         /\ m.departure = NextAvailableTime(l, p.current, t)
         /\ Transmission(m) \in Entry /\ Transmission(m).from = p.current
         /\ Transmission(m).departure = m.departure
         /\ Transmission(m).arrival = m.departure + TravelTime(l)
<1> DEFINE m == Moved(l, id, p, t)
           d == NextAvailableTime(l, p.current, t)
<1>1. l \in LinkRecord /\ TravelTime(l) \in Nat /\ d \in Nat
  <2>1. ReservedAt(ReserveTransmission(l, p.current, d), l, p.current, d, t)
    BY ReservedLink
  <2> HIDE DEF d
  <2> QED
    BY <2>1, TravelTimeNat DEF GoodLink, ReservedAt
<1>2. OtherNode(l, p.current) \in Node
  BY <1>1, LinkFields DEF OtherNode
<1> HIDE DEF d
<1>3. m = [p EXCEPT !.current = OtherNode(l, p.current), !.previous = p.current,
                    !.link = id, !.hops = @ + 1, !.departure = d,
                    !.arrival = d + TravelTime(l)]
  BY DEF Moved, d
<1>4. d + TravelTime(l) \in Nat
  BY <1>1
<1>5. p.hops + 1 \in Nat \ {0}
  BY DEF Sendable
<1>6. /\ m \in Packet /\ m.link = id /\ m.previous = p.current /\ m.departure = d
      /\ m.arrival = d + TravelTime(l)
  BY <1>1, <1>2, <1>3, <1>4, <1>5 DEF Sendable, Packet
<1> HIDE DEF m
<1>7. /\ Transmission(m) \in Entry /\ Transmission(m).from = p.current
      /\ Transmission(m).departure = d /\ Transmission(m).arrival = d + TravelTime(l)
  BY <1>6 DEF Transmission, Entry, Packet, Sendable
<1> QED
  BY <1>6, <1>7 DEF m, d

\* The ways a send ends.
SentOver(ls, id, p, t, o) ==
  LET m == Moved(ls[id], id, p, t)
      r == ReserveTransmission(ls[id], p.current, m.departure)
      k == EnqueueTransmission(r, Transmission(m))
  IN  \/ o = Sending([ls EXCEPT ![id] = k], <<m>>, FirstHopCount(p), 0)
      \/ o = Sending([ls EXCEPT ![id] = r], <<>>, FirstHopCount(p), 1)

LEMMA OutcomeCases ==
  ASSUME NEW ls, NEW p, NEW t, NEW o \in SendOutcomes(ls, p, t)
  PROVE  \/ o = Sending(ls, <<>>, 0, 0) \/ o = Sending(ls, <<>>, 0, 1)
         \/ \E id \in DOMAIN ls : CanQueue(ls[id], p.current) /\ SentOver(ls, id, p, t, o)
<1>1. CASE UsableLinks(ls, p) = {}
  BY <1>1 DEF SendOutcomes
<1>2. CASE UsableLinks(ls, p) # {}
  <2>1. PICK id \in SelectedLink(ls, p) : o \in OutcomesOn(ls, id, p, t)
    BY <1>2 DEF SendOutcomes
  <2>2. id \in DOMAIN ls
    BY DEF SelectedLink, UsableLinks
  <2>3. CASE CanQueue(ls[id], p.current)
    BY <2>1, <2>2, <2>3 DEF OutcomesOn, SentOver
  <2>4. CASE ~ CanQueue(ls[id], p.current)
    BY <2>1, <2>4 DEF OutcomesOn
  <2> QED
    BY <2>3, <2>4
<1> QED
  BY <1>1, <1>2

\* What every end of a send has in common.
Sent(ls, p, o) ==
  /\ DOMAIN o.links = DOMAIN ls /\ GoodLinks(o.links)
  /\ \A ps \in Seq(Packet) : SlotsHold(ls, ps) => SlotsHold(o.links, ps \o o.moved)
  /\ \/ /\ o.moved = <<>>
        /\ \/ o.sent = 0 /\ o.lost \in {0, 1}
           \/ o.sent = FirstHopCount(p) /\ o.lost = 1
     \/ /\ \E m \in Packet : m.link \in DOMAIN ls /\ o.moved = <<m>>
        /\ o.sent = FirstHopCount(p) /\ o.lost = 0

LEMMA SendSound ==
  ASSUME NEW ls, GoodLinks(ls), DOMAIN ls \subseteq Nat, NEW p \in Sendable, NEW t \in Nat,
         NEW o \in SendOutcomes(ls, p, t)
  PROVE  Sent(ls, p, o)
<1>1. \A ps \in Seq(Packet) : ps \o <<>> = ps
  BY ConcatEmptySeq
<1>2. ASSUME NEW lost \in {0, 1}, o = Sending(ls, <<>>, 0, lost)
      PROVE  Sent(ls, p, o)
  <2>1. o.links = ls /\ o.moved = <<>> /\ o.sent = 0 /\ o.lost = lost
    BY <1>2 DEF Sending
  <2> QED
    BY <1>1, <2>1 DEF Sent
<1>3. ASSUME NEW id \in DOMAIN ls
      PROVE  CanQueue(ls[id], p.current) /\ SentOver(ls, id, p, t, o) => Sent(ls, p, o)
  <2> DEFINE l == ls[id]
             m == Moved(l, id, p, t)
             e == Transmission(m)
             r == ReserveTransmission(l, p.current, m.departure)
             k == EnqueueTransmission(r, e)
             x == SlotOf(l, p.current)
  <2> SUFFICES ASSUME CanQueue(l, p.current), SentOver(ls, id, p, t, o)
               PROVE  Sent(ls, p, o)
    OBVIOUS
  <2>0. CanQueue(l, p.current)
    OBVIOUS
  <2>1. GoodLink(l) /\ id \in Nat /\ l.queue \in [Slot -> Seq(Entry)]
    BY LinkFields DEF GoodLinks, GoodLink
  <2>2. /\ m \in Packet /\ m.link = id /\ m.previous = p.current
        /\ e \in Entry /\ e.from = p.current
        /\ e.departure = m.departure /\ e.departure = NextAvailableTime(l, p.current, t)
        /\ e.arrival = e.departure + TravelTime(l)
    BY <2>1, MovedPacket
  <2> HIDE DEF l, m, e
  <2>3. GoodLink(r) /\ SameEnds(r, l) /\ r.queue = l.queue
    <3>1. m.departure = NextAvailableTime(l, p.current, t)
      BY <2>2
    <3>2. ReservedAt(r, l, p.current, m.departure, t)
      BY <2>1, <3>1, ReservedLink
    <3> QED
      BY <3>2 DEF ReservedAt
  <2>a. Len(l.queue[x]) < QueueCapacity
    BY <2>0 DEF CanQueue
  <2>4. GoodLink(k) /\ SameEnds(k, l) /\ k.queue = [l.queue EXCEPT ![x] = Append(@, e)]
    <3>1. k = EnqueueTransmission(ReserveTransmission(l, p.current, e.departure), e)
      BY <2>2
    <3>2. ReservedFor(e, l, p.current, t)
      BY <2>2 DEF ReservedFor
    <3> DEFINE w == EnqueueTransmission(ReserveTransmission(l, p.current, e.departure), e)
    <3> HIDE DEF k
    <3>3. e \in Entry
      BY <2>2
    <3>4. Enqueued(w, l, p.current, e)
      BY <2>1, <2>a, <3>2, <3>3, EnqueuedLink
    <3> HIDE DEF w
    <3>5. k = w
      BY <3>1 DEF w
    <3> QED
      BY <3>4, <3>5 DEF Enqueued
  <2> HIDE DEF r, k
  <2>5. ASSUME o = Sending([ls EXCEPT ![id] = k], <<m>>, FirstHopCount(p), 0)
        PROVE  Sent(ls, p, o)
    <3>1. /\ o.links = [ls EXCEPT ![id] = k] /\ o.moved = <<m>>
          /\ o.sent = FirstHopCount(p) /\ o.lost = 0
      BY <2>5 DEF Sending
    <3>2. /\ DOMAIN o.links = DOMAIN ls /\ o.links[id] = k
          /\ \A other \in DOMAIN ls : other # id => o.links[other] = ls[other]
      BY <3>1
    <3>3. GoodLinks(o.links)
      BY <2>4, <3>2 DEF GoodLinks
    <3>4. ASSUME NEW ps \in Seq(Packet), SlotsHold(ls, ps),
                 NEW j \in DOMAIN ls, NEW s \in Slot
          PROVE  Listed(o.links[j].queue[s], ps \o <<m>>, On(o.links[j], j, ps \o <<m>>, s))
      <4> DEFINE q == ls[j].queue[s]
                 I == On(ls[j], j, ps, s)
      <4>1. /\ q \in Seq(Entry) /\ Listed(q, ps, I) /\ I \in SUBSET (1 .. Len(ps))
        <5>1. ls[j].queue \in [Slot -> Seq(Entry)]
          BY LinkFields DEF GoodLinks, GoodLink
        <5>2. DOMAIN ps = 1 .. Len(ps)
          BY LenProperties
        <5> QED
          BY <3>4, <5>1, <5>2 DEF SlotsHold, On
      <4>2. On(o.links[j], j, ps \o <<m>>, s) =
              I \union (IF id = j /\ SlotOf(ls[j], p.current) = s THEN {Len(ps) + 1} ELSE {})
        <5>1. On(o.links[j], j, ps \o <<m>>, s) = On(ls[j], j, ps \o <<m>>, s)
          <6>1. CASE j = id
            <7>1. o.links[j] = k /\ ls[j] = l
              BY <3>2, <6>1 DEF l
            <7>2. On(k, j, ps \o <<m>>, s) = On(l, j, ps \o <<m>>, s)
              BY <2>4, OnSame
            <7> QED
              BY <7>1, <7>2
          <6>2. CASE j # id
            BY <3>2, <6>2
          <6> QED
            BY <6>1, <6>2
        <5>2. On(ls[j], j, ps \o <<m>>, s) =
                I \union (IF m.link = j /\ SlotOf(ls[j], m.previous) = s
                            THEN {Len(ps) + 1} ELSE {})
          <6>1. m \in Packet
            BY <2>2
          <6> QED
            BY <6>1, OnAfterSending
        <5> HIDE DEF I
        <5> QED
          BY <2>2, <5>1, <5>2
      <4>3. CASE id = j /\ SlotOf(ls[j], p.current) = s
        <5>1. o.links[j].queue[s] = Append(q, e)
          BY <2>1, <2>4, <3>2, <4>3 DEF l
        <5>2. Listed(Append(q, Transmission(m)), ps \o <<m>>, I \union {Len(ps) + 1})
          <6> HIDE DEF q, I
          <6>1. Transmission(m) \in Entry
            BY <2>2 DEF e
          <6> QED
            BY <2>2, <4>1, <6>1, EntrySent
        <5> QED
          BY <4>2, <4>3, <5>1, <5>2 DEF e
      <4>4. CASE ~ (id = j /\ SlotOf(ls[j], p.current) = s)
        <5>1. o.links[j].queue[s] = q
          BY <2>1, <2>4, <3>2, <4>4 DEF l
        <5>2. <<m>> \in Seq(Packet)
          BY <2>2
        <5>3. Listed(q, ps \o <<m>>, I)
          <6> HIDE DEF q, I
          <6> QED
            BY <4>1, <5>2, OtherSent
        <5> QED
          BY <4>2, <4>4, <5>1, <5>3
      <4> QED
        BY <4>3, <4>4
    <3>5. \A ps \in Seq(Packet) : SlotsHold(ls, ps) => SlotsHold(o.links, ps \o o.moved)
      BY <3>1, <3>2, <3>4 DEF SlotsHold
    <3> QED
      BY <2>2, <3>1, <3>2, <3>3, <3>5 DEF Sent
  <2>6. ASSUME o = Sending([ls EXCEPT ![id] = r], <<>>, FirstHopCount(p), 1)
        PROVE  Sent(ls, p, o)
    <3>1. /\ o.links = [ls EXCEPT ![id] = r] /\ o.moved = <<>>
          /\ o.sent = FirstHopCount(p) /\ o.lost = 1
      BY <2>6 DEF Sending
    <3>2. /\ DOMAIN o.links = DOMAIN ls /\ o.links[id] = r
          /\ \A other \in DOMAIN ls : other # id => o.links[other] = ls[other]
      BY <3>1
    <3>3. GoodLinks(o.links)
      BY <2>3, <3>2 DEF GoodLinks
    <3>4. ASSUME NEW ps \in Seq(Packet), SlotsHold(ls, ps),
                 NEW j \in DOMAIN ls, NEW s \in Slot
          PROVE  Listed(o.links[j].queue[s], ps, On(o.links[j], j, ps, s))
      <4>1. Listed(ls[j].queue[s], ps, On(ls[j], j, ps, s))
        BY <3>4 DEF SlotsHold
      <4>2. CASE j = id
        <5>1. o.links[j].queue = ls[j].queue
          BY <2>3, <3>2, <4>2 DEF l
        <5>2. On(o.links[j], j, ps, s) = On(ls[j], j, ps, s)
          <6>1. o.links[j] = r /\ ls[j] = l
            BY <3>2, <4>2 DEF l
          <6>2. On(r, j, ps, s) = On(l, j, ps, s)
            BY <2>3, OnSame
          <6> QED
            BY <6>1, <6>2
        <5> QED
          BY <4>1, <5>1, <5>2
      <4>3. CASE j # id
        BY <3>2, <4>1, <4>3
      <4> QED
        BY <4>2, <4>3
    <3>5. \A ps \in Seq(Packet) : SlotsHold(ls, ps) => SlotsHold(o.links, ps \o o.moved)
      <4> SUFFICES ASSUME NEW ps \in Seq(Packet), SlotsHold(ls, ps)
                   PROVE  SlotsHold(o.links, ps \o o.moved)
        OBVIOUS
      <4>1. SlotsHold(o.links, ps)
        BY <3>2, <3>4 DEF SlotsHold
      <4>2. ps \o o.moved = ps
        BY <1>1, <3>1
      <4> QED
        BY <4>1, <4>2
    <3> QED
      BY <3>1, <3>2, <3>3, <3>5 DEF Sent
  <2> QED
    BY <2>5, <2>6 DEF SentOver, l, m, e, r, k
<1> QED
  BY <1>2, <1>3, OutcomeCases

-----------------------------------------------------------------------------
(* packets_in_transit. *)

TravelInfos(ps) == [k \in DOMAIN ps |-> TravelInfo(ps[k])]

LEMMA TravelInfosTaken ==
  ASSUME NEW ps \in Seq(Packet), NEW i \in DOMAIN ps,
         \A k \in DOMAIN ps : k < i => ps[k].arrival # ps[i].arrival
  PROVE  RemoveFirst(TravelInfos(ps), TravelInfo(ps[i])) = TravelInfos(RemoveAt(ps, i))
<1> DEFINE q == TravelInfos(ps)
           e == TravelInfo(ps[i])
           T == {TravelInfo(x) : x \in Packet}
           n == Len(ps)
           rest == RemoveAt(ps, i)
<1>1. n \in Nat /\ DOMAIN ps = 1 .. n /\ i \in 1 .. n /\ \A k \in 1 .. n : ps[k] \in Packet
  BY LenProperties, ElementOfSeq
<1>2. /\ DOMAIN q = 1 .. n /\ q \in Seq(T) /\ Len(q) = n
      /\ \A k \in 1 .. n : q[k] = TravelInfo(ps[k])
  BY <1>1 DEF TravelInfos
<1>3. /\ rest \in Seq(Packet) /\ DOMAIN rest = 1 .. n - 1
      /\ \A k \in 1 .. n - 1 : rest[k] = ps[Before(i, k)]
  BY <1>1, Removed DEF Before
<1>4. \A k \in 1 .. n : k < i => q[k] # e
  <2>1. \A x : TravelInfo(x).transmission.arrival = x.arrival
    BY DEF TravelInfo, Transmission
  <2>2. \A k \in 1 .. n : k < i => ps[k].arrival # ps[i].arrival
    BY <1>1
  <2> HIDE DEF n, q
  <2> QED
    BY <1>2, <2>1, <2>2 DEF e
<1>5. q[i] = e
  BY <1>1, <1>2
<1> HIDE DEF q, e, T, n, rest
<1>6. PICK first \in 1 .. n :
             /\ q[first] = e /\ \A k \in 1 .. n : q[k] = e => first <= k
             /\ RemoveFirst(q, e) = RemoveAt(q, first)
  <2>1. \E k \in 1 .. Len(q) : q[k] = e
    BY <1>1, <1>2, <1>5
  <2> QED
    BY <1>2, <2>1, FirstFound
<1>7. first = i
  BY <1>1, <1>4, <1>5, <1>6
<1> DEFINE less == RemoveAt(q, i)
<1>8. /\ less \in Seq(T) /\ Len(less) = n - 1 /\ DOMAIN less = 1 .. n - 1
      /\ \A k \in 1 .. n - 1 : less[k] = q[Before(i, k)]
  <2>1. i \in 1 .. Len(q)
    BY <1>1, <1>2
  <2> QED
    BY <1>2, <2>1, Removed DEF Before
<1>9. \A k \in 1 .. n - 1 : Before(i, k) \in 1 .. n
  BY <1>1, Renumbered
<1> HIDE DEF less
<1>10. \A k \in 1 .. n - 1 : less[k] = TravelInfo(rest[k])
  BY <1>2, <1>3, <1>8, <1>9
<1>11. less = [k \in 1 .. n - 1 |-> less[k]]
  <2>1. less \in [1 .. Len(less) -> T]
    BY <1>8, LenProperties
  <2> QED
    BY <1>8, <2>1
<1>12. less = TravelInfos(rest)
  BY <1>3, <1>10, <1>11 DEF TravelInfos
<1> QED
  BY <1>6, <1>7, <1>12 DEF q, e, rest, less

LEMMA TravelInfosSent ==
  ASSUME NEW ps \in Seq(Packet), NEW more \in Seq(Packet)
  PROVE  TravelInfos(ps) \o TravelInfos(more) = TravelInfos(ps \o more)
<1> DEFINE T == {TravelInfo(x) : x \in Packet}
           n == Len(ps)
           m == Len(more)
           all == ps \o more
           q == TravelInfos(ps)
           r == TravelInfos(more)
<1>1. /\ n \in Nat /\ DOMAIN ps = 1 .. n /\ \A k \in 1 .. n : ps[k] \in Packet
      /\ m \in Nat /\ DOMAIN more = 1 .. m /\ \A k \in 1 .. m : more[k] \in Packet
  BY LenProperties, ElementOfSeq
<1>2. q \in Seq(T) /\ Len(q) = n /\ \A k \in 1 .. n : q[k] = TravelInfo(ps[k])
  BY <1>1 DEF TravelInfos
<1>3. r \in Seq(T) /\ Len(r) = m /\ \A k \in 1 .. m : r[k] = TravelInfo(more[k])
  BY <1>1 DEF TravelInfos
<1>4. /\ all \in Seq(Packet) /\ Len(all) = n + m
      /\ \A k \in 1 .. n + m : all[k] = IF k <= n THEN ps[k] ELSE more[k - n]
  BY ConcatProperties
<1> HIDE DEF T, n, m, all, q, r
<1>5. /\ q \o r \in Seq(T) /\ Len(q \o r) = n + m
      /\ \A k \in 1 .. n + m : (q \o r)[k] = IF k <= n THEN q[k] ELSE r[k - n]
  BY <1>2, <1>3, ConcatProperties
<1>6. \A k \in 1 .. n + m : IF k <= n THEN k \in 1 .. n ELSE k - n \in 1 .. m
  BY <1>1
<1>7. \A k \in 1 .. n + m : (q \o r)[k] = TravelInfo(all[k])
  <2> TAKE k \in 1 .. n + m
  <2>1. CASE k <= n
    <3>1. /\ k \in 1 .. n /\ (q \o r)[k] = q[k] /\ all[k] = ps[k]
      BY <1>4, <1>5, <1>6, <2>1
    <3> QED
      BY <1>2, <3>1
  <2>2. CASE ~ (k <= n)
    <3>1. /\ k - n \in 1 .. m /\ (q \o r)[k] = r[k - n] /\ all[k] = more[k - n]
      BY <1>4, <1>5, <1>6, <2>2
    <3> QED
      BY <1>3, <3>1
  <2> QED
    BY <2>1, <2>2
<1>8. DOMAIN all = 1 .. n + m
  BY <1>4, LenProperties
<1>9. q \o r \in [1 .. n + m -> T]
  BY <1>5, LenProperties
<1>10. q \o r = TravelInfos(all)
  BY <1>7, <1>8, <1>9 DEF TravelInfos
<1> QED
  BY <1>10 DEF q, r, all

-----------------------------------------------------------------------------
(* The invariant. *)

NetInv ==
  /\ now \in Nat
  /\ nextId \in Nat \ {0} /\ DOMAIN links \subseteq 1 .. nextId - 1
  /\ GoodLinks(links)
  /\ arrivals \in Seq(Packet)
  /\ \A i \in DOMAIN arrivals : arrivals[i].link \in 1 .. nextId - 1
  /\ SlotsHold(links, arrivals)
  /\ transit = TravelInfos(arrivals)
  /\ stats \in [sent : Nat, delivered : Nat, lost : Nat]
  /\ PacketsAccounted

LEMMA NothingListed ==
  ASSUME NEW ps
  PROVE  Listed(<<>>, ps, {})
<1> DEFINE f == [k \in DOMAIN <<>> |-> k]
<1>1. DOMAIN <<>> = {}
  OBVIOUS
<1>2. f \in [DOMAIN <<>> -> {}]
  BY <1>1
<1> HIDE DEF f
<1>3. Lists(<<>>, ps, {}, f)
  BY <1>1, <1>2 DEF Lists
<1> QED
  BY <1>2, <1>3 DEF Listed

LEMMA IdleLink ==
  ASSUME NEW l \in LinkRecord, Idle(l)
  PROVE  GoodLink(l)
<1>1. \A s \in Slot : l.queue[s] = <<>> /\ l.busyUntil[s] = 0
  BY DEF Idle
<1>2. InTurn(<<>>, 0)
  <2>1. DOMAIN <<>> = {}
    OBVIOUS
  <2> QED
    BY <2>1 DEF InTurn
<1>3. Len(<<>>) <= QueueCapacity
  BY LinkAssumption
<1> QED
  BY <1>1, <1>2, <1>3 DEF GoodLink

\* A new link has no packet on it.
LEMMA IdleHolds ==
  ASSUME NEW l, Idle(l), NEW id, NEW ps, \A i \in DOMAIN ps : ps[i].link # id, NEW s \in Slot
  PROVE  Listed(l.queue[s], ps, On(l, id, ps, s))
<1>1. l.queue[s] = <<>> /\ On(l, id, ps, s) = {}
  BY DEF Idle, On
<1> QED
  BY <1>1, NothingListed

LEMMA InitNetInv == Init => NetInv
<1> SUFFICES ASSUME Init PROVE NetInv
  OBVIOUS
<1>1. PICK t \in Topologies : links = [id \in DOMAIN t |-> t[id]]
  BY DEF Init
<1>2. /\ t \in Seq(LinkRecord) /\ Len(t) \in Nat /\ DOMAIN t = 1 .. Len(t)
      /\ \A id \in DOMAIN t : t[id] \in LinkRecord /\ Idle(t[id])
  BY LinksAssumption, LenProperties, ElementOfSeq
<1>3. links \in [1 .. Len(t) -> LinkRecord] /\ Len(links) = Len(t)
  BY <1>1, <1>2
<1>4. nextId \in Nat \ {0} /\ DOMAIN links = 1 .. nextId - 1
  BY <1>2, <1>3 DEF Init
<1>5. \A id \in DOMAIN links : links[id] \in LinkRecord /\ Idle(links[id])
  BY <1>1, <1>2
<1>6. GoodLinks(links)
  BY <1>5, IdleLink DEF GoodLinks
<1>7. arrivals = <<>> /\ transit = <<>> /\ DOMAIN <<>> = {} /\ Len(<<>>) = 0
      /\ stats = Stats(0, 0, 0) /\ now = 0
  BY DEF Init
<1>8. SlotsHold(links, arrivals)
  BY <1>5, <1>7, IdleHolds DEF SlotsHold
<1>9. transit = TravelInfos(arrivals)
  BY <1>7 DEF TravelInfos
<1>10. stats \in [sent : Nat, delivered : Nat, lost : Nat] /\ PacketsAccounted
  BY <1>7 DEF Stats, PacketsAccounted
<1> QED
  BY <1>4, <1>6, <1>7, <1>8, <1>9, <1>10 DEF NetInv

\* The packets known are on links that exist or existed.
LinksKnown(ps) == \A i \in DOMAIN ps : ps[i].link \in 1 .. nextId - 1

\* What holds after a send, whatever its end.
AfterSend(ps, o) ==
  /\ GoodLinks(o.links) /\ SlotsHold(o.links, ps \o o.moved)
  /\ ps \o o.moved \in Seq(Packet) /\ LinksKnown(ps \o o.moved)
  /\ TravelInfos(ps) \o [k \in DOMAIN o.moved |-> TravelInfo(o.moved[k])]
       = TravelInfos(ps \o o.moved)

LEMMA SendKeepsPackets ==
  ASSUME nextId \in Nat, NEW ls, GoodLinks(ls), DOMAIN ls \subseteq 1 .. nextId - 1,
         NEW ps \in Seq(Packet), LinksKnown(ps), SlotsHold(ls, ps),
         NEW p \in Sendable, NEW t \in Nat, NEW o \in SendOutcomes(ls, p, t)
  PROVE  /\ DOMAIN o.links = DOMAIN ls /\ AfterSend(ps, o)
         /\ \/ /\ o.moved = <<>> /\ Len(ps \o o.moved) = Len(ps)
               /\ \/ o.sent = 0 /\ o.lost \in {0, 1}
                  \/ o.sent = FirstHopCount(p) /\ o.lost = 1
            \/ /\ o.moved # <<>> /\ Len(ps \o o.moved) = Len(ps) + 1
               /\ o.sent = FirstHopCount(p) /\ o.lost = 0
<1>1. Sent(ls, p, o)
  <2>1. DOMAIN ls \subseteq Nat
    OBVIOUS
  <2> QED
    BY <2>1, SendSound
<1>2. GoodLinks(o.links) /\ SlotsHold(o.links, ps \o o.moved) /\ DOMAIN o.links = DOMAIN ls
  BY <1>1 DEF Sent
<1>3. CASE o.moved = <<>>
  <2>1. ps \o o.moved = ps
    BY <1>3, ConcatEmptySeq
  <2>2. o.moved \in Seq(Packet)
    BY <1>3
  <2>3. TravelInfos(ps) \o TravelInfos(o.moved) = TravelInfos(ps \o o.moved)
    BY <2>2, TravelInfosSent
  <2>4. AfterSend(ps, o)
    BY <1>2, <2>1, <2>3 DEF AfterSend, TravelInfos
  <2>5. \/ o.sent = 0 /\ o.lost \in {0, 1}
        \/ o.sent = FirstHopCount(p) /\ o.lost = 1
    <3>1. \A m : <<m>> # <<>>
      OBVIOUS
    <3> QED
      BY <1>1, <1>3, <3>1 DEF Sent
  <2> QED
    BY <1>2, <1>3, <2>1, <2>4, <2>5
<1>4. CASE o.moved # <<>>
  <2>1. PICK m \in Packet : m.link \in DOMAIN ls /\ o.moved = <<m>>
    BY <1>1, <1>4 DEF Sent
  <2>2. o.sent = FirstHopCount(p) /\ o.lost = 0
    BY <1>1, <1>4 DEF Sent
  <2>3. o.moved \in Seq(Packet) /\ Len(o.moved) = 1 /\ o.moved[1] = m
    BY <2>1
  <2> DEFINE all == ps \o o.moved
             n == Len(ps)
  <2>4. n \in Nat /\ DOMAIN ps = 1 .. n
    BY LenProperties
  <2>5. /\ all \in Seq(Packet) /\ Len(all) = n + 1
        /\ \A k \in 1 .. n + 1 : all[k] = IF k <= n THEN ps[k] ELSE o.moved[k - n]
    <3> DEFINE moved == o.moved
    <3>1. moved \in Seq(Packet) /\ Len(moved) = 1
      BY <2>3
    <3> HIDE DEF moved
    <3>2. /\ ps \o moved \in Seq(Packet) /\ Len(ps \o moved) = Len(ps) + Len(moved)
          /\ \A k \in 1 .. Len(ps) + Len(moved) :
               (ps \o moved)[k] = IF k <= Len(ps) THEN ps[k] ELSE moved[k - Len(ps)]
      BY <3>1, ConcatProperties
    <3>3. /\ ps \o moved \in Seq(Packet) /\ Len(ps \o moved) = n + 1
          /\ \A k \in 1 .. n + 1 : (ps \o moved)[k] = IF k <= n THEN ps[k] ELSE moved[k - n]
      BY <3>1, <3>2
    <3> QED
      BY <3>3 DEF moved
  <2> HIDE DEF n, all
  <2>6. DOMAIN all = 1 .. n + 1
    BY <2>5, LenProperties
  <2>7. \A k \in 1 .. n + 1 : IF k <= n THEN k \in 1 .. n ELSE k - n = 1
    BY <2>4
  <2>8. LinksKnown(all)
    BY <2>1, <2>3, <2>4, <2>5, <2>6, <2>7 DEF LinksKnown
  <2>9. TravelInfos(ps) \o TravelInfos(o.moved) = TravelInfos(all)
    BY <2>3, TravelInfosSent DEF all
  <2>10. AfterSend(ps, o)
    BY <1>2, <2>5, <2>8, <2>9 DEF AfterSend, TravelInfos, all
  <2> QED
    BY <1>2, <1>4, <2>2, <2>5, <2>10 DEF n, all
<1> QED
  BY <1>3, <1>4

\* What holds when the packet that arrives next is taken out.
LEMMA ArrivalKeepsPackets ==
  ASSUME NetInv, NEW i \in DOMAIN arrivals, IsNext(i)
  PROVE  LET p == arrivals[i]
             ls == Released(p)
             rest == RemoveAt(arrivals, i)
         IN  /\ p \in Packet /\ p \in Sendable /\ p.hops # 0 /\ p.arrival \in Nat
             /\ DOMAIN ls = DOMAIN links /\ GoodLinks(ls) /\ SlotsHold(ls, rest)
             /\ rest \in Seq(Packet) /\ LinksKnown(rest) /\ Len(rest) = Len(arrivals) - 1
             /\ Len(arrivals) \in Nat \ {0}
             /\ TransitWithout(p) = TravelInfos(rest)
<1> DEFINE p == arrivals[i]
           ls == Released(p)
           rest == RemoveAt(arrivals, i)
           n == Len(arrivals)
<1>1. /\ arrivals \in Seq(Packet) /\ n \in Nat /\ DOMAIN arrivals = 1 .. n /\ i \in 1 .. n
      /\ \A k \in 1 .. n : arrivals[k] \in Packet /\ arrivals[k].arrival \in Nat
  <2>1. arrivals \in Seq(Packet)
    BY DEF NetInv
  <2>2. \A k \in 1 .. n : arrivals[k] \in Packet
    BY <2>1, ElementOfSeq
  <2> QED
    BY <2>1, <2>2, LenProperties DEF Packet
<1>2. p \in Packet /\ p \in Sendable /\ p.hops # 0 /\ p.arrival \in Nat
  <2>1. p \in Packet
    BY <1>1
  <2> HIDE DEF p
  <2> QED
    BY <2>1 DEF Packet, Sendable
<1>3. DOMAIN ls = DOMAIN links /\ GoodLinks(ls) /\ SlotsHold(ls, rest)
  <2>1. GoodLinks(links) /\ arrivals \in Seq(Packet) /\ SlotsHold(links, arrivals)
    BY Zenon DEF NetInv
  <2> QED
    BY Zenon, <2>1, ReleasedSound
<1>4. /\ rest \in Seq(Packet) /\ Len(rest) = n - 1 /\ DOMAIN rest = 1 .. n - 1
      /\ \A k \in 1 .. n - 1 : rest[k] = arrivals[Before(i, k)]
  BY <1>1, Removed DEF Before
<1>5. \A k \in 1 .. n - 1 : Before(i, k) \in 1 .. n
  BY <1>1, Renumbered
<1>6. n \in Nat \ {0}
  BY <1>1
<1> HIDE DEF rest, n
<1>7. LinksKnown(rest)
  <2>1. \A j \in 1 .. n : arrivals[j].link \in 1 .. nextId - 1
    BY <1>1 DEF LinksKnown, NetInv
  <2>2. \A k \in DOMAIN rest : rest[k].link \in 1 .. nextId - 1
    BY <1>4, <1>5, <2>1
  <2> QED
    BY <2>2 DEF LinksKnown
<1>8. TransitWithout(p) = TravelInfos(rest)
  <2>1. \A k \in DOMAIN arrivals : k < i => arrivals[k].arrival # arrivals[i].arrival
    BY <1>1 DEF IsNext
  <2>2. RemoveFirst(TravelInfos(arrivals), TravelInfo(arrivals[i])) = TravelInfos(rest)
    BY <1>1, <2>1, TravelInfosTaken DEF rest
  <2> QED
    BY <2>2 DEF TransitWithout, NetInv
<1> HIDE DEF p, ls
<1> QED
  BY <1>2, <1>3, <1>4, <1>6, <1>7, <1>8 DEF p, ls, rest, n

-----------------------------------------------------------------------------
(* The invariant is kept: by a send, by an arrival, and by a change. *)

LEMMA SendKeeps ==
  ASSUME NetInv, NEW f \in Flows, NEW t \in Instants, Send(f[1], f[2], t)
  PROVE  NetInv'
<1> DEFINE p == NewPacket(f[1], f[2])
<1>1. p \in Sendable /\ FirstHopCount(p) = 1
  <2>1. f[1] \in Node /\ f[2] \in Node
    BY NetworkAssumption
  <2> QED
    BY <2>1 DEF NewPacket, Sendable, FirstHopCount
<1>2. t \in Nat /\ now' = t
  <2>1. t \in now .. MaxTime /\ now \in Nat
    BY DEF Instants, NetInv
  <2>2. t \in Nat
    BY <2>1, NetworkAssumption
  <2> QED
    BY <2>2 DEF Send
<1>3. PICK o \in SendOutcomes(links, p, t) :
        /\ links' = o.links
        /\ arrivals' = arrivals \o o.moved
        /\ transit' = transit \o [k \in DOMAIN o.moved |-> TravelInfo(o.moved[k])]
        /\ stats' = Stats(stats.sent + o.sent, stats.delivered, stats.lost + o.lost)
  BY DEF Send
<1> HIDE DEF p
<1>4. nextId' = nextId
  BY DEF Send
<1>5. /\ nextId \in Nat /\ GoodLinks(links) /\ DOMAIN links \subseteq 1 .. nextId - 1
      /\ arrivals \in Seq(Packet) /\ LinksKnown(arrivals) /\ SlotsHold(links, arrivals)
  BY DEF NetInv, LinksKnown
<1>6. /\ DOMAIN o.links = DOMAIN links /\ AfterSend(arrivals, o)
      /\ \/ /\ o.moved = <<>> /\ Len(arrivals \o o.moved) = Len(arrivals)
            /\ \/ o.sent = 0 /\ o.lost \in {0, 1}
               \/ o.sent = 1 /\ o.lost = 1
         \/ /\ o.moved # <<>> /\ Len(arrivals \o o.moved) = Len(arrivals) + 1
            /\ o.sent = 1 /\ o.lost = 0
  BY <1>1, <1>2, <1>5, SendKeepsPackets
<1>7. /\ DOMAIN links' = DOMAIN links /\ GoodLinks(links') /\ arrivals' \in Seq(Packet)
      /\ \A i \in DOMAIN arrivals' : arrivals'[i].link \in 1 .. nextId - 1
      /\ SlotsHold(links', arrivals') /\ transit' = TravelInfos(arrivals')
  BY <1>3, <1>6 DEF AfterSend, LinksKnown, NetInv
<1>8. stats' \in [sent : Nat, delivered : Nat, lost : Nat] /\ PacketsAccounted'
  <2>1. Len(arrivals) \in Nat
    BY <1>5, LenProperties
  <2>2. \/ Len(arrivals') = Len(arrivals) /\ \/ o.sent = 0 /\ o.lost \in {0, 1}
                                             \/ o.sent = 1 /\ o.lost = 1
        \/ Len(arrivals') = Len(arrivals) + 1 /\ o.sent = 1 /\ o.lost = 0
    BY <1>3, <1>6
  <2>3. /\ stats.sent \in Nat /\ stats.delivered \in Nat /\ stats.lost \in Nat
        /\ stats.sent <= stats.delivered + stats.lost + Len(arrivals)
        /\ stats.delivered + Len(arrivals) <= stats.sent
    BY DEF NetInv, PacketsAccounted
  <2>4. /\ stats'.sent = stats.sent + o.sent /\ stats'.delivered = stats.delivered
        /\ stats'.lost = stats.lost + o.lost
        /\ stats' = [sent |-> stats'.sent, delivered |-> stats'.delivered, lost |-> stats'.lost]
    BY <1>3 DEF Stats
  <2>5. stats'.sent \in Nat /\ stats'.lost \in Nat /\ stats'.delivered \in Nat
    BY SMTT(40), <2>2, <2>3, <2>4
  <2>6. PacketsAccounted'
    <3>1. \A sent, delivered, lost, n, m \in Nat, ds, dl \in {0, 1} :
            /\ sent <= delivered + lost + n /\ delivered + n <= sent
            /\ (m = n /\ ds <= dl) \/ (m = n + 1 /\ ds = 1 /\ dl = 0)
            => /\ sent + ds <= delivered + (lost + dl) + m
               /\ delivered + m <= sent + ds
      OBVIOUS
    <3>2. Len(arrivals') \in Nat /\ o.sent \in {0, 1} /\ o.lost \in {0, 1}
      BY <2>1, <2>2
    <3>3. \/ Len(arrivals') = Len(arrivals) /\ o.sent <= o.lost
          \/ Len(arrivals') = Len(arrivals) + 1 /\ o.sent = 1 /\ o.lost = 0
      BY <2>2
    <3>4. /\ stats.sent + o.sent
               <= stats.delivered + (stats.lost + o.lost) + Len(arrivals')
          /\ stats.delivered + Len(arrivals') <= stats.sent + o.sent
      <4> DEFINE sent == stats.sent
                 delivered == stats.delivered
                 lost == stats.lost
                 n == Len(arrivals)
                 m == Len(arrivals')
                 ds == o.sent
                 dl == o.lost
      <4>1. /\ sent \in Nat /\ delivered \in Nat /\ lost \in Nat /\ n \in Nat /\ m \in Nat
            /\ ds \in {0, 1} /\ dl \in {0, 1}
            /\ sent <= delivered + lost + n /\ delivered + n <= sent
            /\ (m = n /\ ds <= dl) \/ (m = n + 1 /\ ds = 1 /\ dl = 0)
        BY <2>1, <2>3, <3>2, <3>3
      <4> HIDE DEF sent, delivered, lost, n, m, ds, dl
      <4>2. sent + ds <= delivered + (lost + dl) + m /\ delivered + m <= sent + ds
        BY <3>1, <4>1
      <4> QED
        BY <4>2 DEF sent, delivered, lost, n, m, ds, dl
    <3> QED
      BY <2>4, <3>4 DEF PacketsAccounted
  <2> QED
    BY <2>4, <2>5, <2>6
<1> QED
  BY <1>2, <1>4, <1>7, <1>8 DEF NetInv

LEMMA DeliverKeeps ==
  ASSUME NetInv, NEW i \in DOMAIN arrivals, Deliver(i)
  PROVE  NetInv'
<1> DEFINE p == arrivals[i]
           rest == RemoveAt(arrivals, i)
<1>1. /\ p.arrival \in Nat
      /\ DOMAIN Released(p) = DOMAIN links /\ GoodLinks(Released(p))
      /\ SlotsHold(Released(p), rest)
      /\ rest \in Seq(Packet) /\ LinksKnown(rest) /\ Len(rest) = Len(arrivals) - 1
      /\ Len(arrivals) \in Nat \ {0} /\ TransitWithout(p) = TravelInfos(rest)
  BY ArrivalKeepsPackets DEF Deliver
<1>2. /\ now' = p.arrival /\ links' = Released(p) /\ arrivals' = rest
      /\ transit' = TransitWithout(p) /\ nextId' = nextId
      /\ stats' = Stats(stats.sent, stats.delivered + 1, stats.lost)
  BY DEF Deliver
<1> HIDE DEF p, rest
<1>3. /\ DOMAIN links' = DOMAIN links /\ GoodLinks(links') /\ arrivals' \in Seq(Packet)
      /\ \A k \in DOMAIN arrivals' : arrivals'[k].link \in 1 .. nextId - 1
      /\ SlotsHold(links', arrivals') /\ transit' = TravelInfos(arrivals')
  BY <1>1, <1>2 DEF LinksKnown
<1>4. stats' \in [sent : Nat, delivered : Nat, lost : Nat] /\ PacketsAccounted'
  <2>1. Len(arrivals) \in Nat /\ Len(arrivals') = Len(arrivals) - 1
    BY <1>1, <1>2
  <2>2. /\ stats.sent \in Nat /\ stats.delivered \in Nat /\ stats.lost \in Nat
        /\ stats.sent <= stats.delivered + stats.lost + Len(arrivals)
        /\ stats.delivered + Len(arrivals) <= stats.sent
    BY DEF NetInv, PacketsAccounted
  <2>3. /\ stats'.sent = stats.sent /\ stats'.delivered = stats.delivered + 1
        /\ stats'.lost = stats.lost
        /\ stats' = [sent |-> stats'.sent, delivered |-> stats'.delivered, lost |-> stats'.lost]
    BY <1>2 DEF Stats
  <2>4. stats'.sent \in Nat /\ stats'.lost \in Nat /\ stats'.delivered \in Nat
    BY <2>2, <2>3
  <2>5. PacketsAccounted'
    BY SMTT(40), <2>1, <2>2, <2>3 DEF PacketsAccounted
  <2> QED
    BY <2>3, <2>4, <2>5
<1> QED
  BY <1>1, <1>2, <1>3, <1>4 DEF NetInv

LEMMA ForwardKeeps ==
  ASSUME NetInv, NEW i \in DOMAIN arrivals, Forward(i)
  PROVE  NetInv'
<1> DEFINE p == arrivals[i]
           ls == Released(p)
           rest == RemoveAt(arrivals, i)
<1>1. /\ p \in Sendable /\ p.hops # 0 /\ p.arrival \in Nat
      /\ DOMAIN ls = DOMAIN links /\ GoodLinks(ls) /\ SlotsHold(ls, rest)
      /\ rest \in Seq(Packet) /\ LinksKnown(rest) /\ Len(rest) = Len(arrivals) - 1
      /\ Len(arrivals) \in Nat \ {0} /\ TransitWithout(p) = TravelInfos(rest)
  BY ArrivalKeepsPackets DEF Forward
<1>2. PICK o \in SendOutcomes(ls, p, p.arrival) :
        /\ links' = o.links
        /\ arrivals' = rest \o o.moved
        /\ transit' = TransitWithout(p) \o [k \in DOMAIN o.moved |-> TravelInfo(o.moved[k])]
        /\ stats' = Stats(stats.sent + o.sent, stats.delivered,
                          stats.lost + o.lost + ForwardingLoss(o))
  BY DEF Forward
<1>3. now' = p.arrival /\ nextId' = nextId
  BY DEF Forward
<1>4. FirstHopCount(p) = 0
  BY <1>1 DEF FirstHopCount
<1> HIDE DEF p, ls, rest
<1>5. nextId \in Nat /\ DOMAIN ls \subseteq 1 .. nextId - 1
  BY <1>1 DEF NetInv
<1>6. /\ DOMAIN o.links = DOMAIN ls /\ AfterSend(rest, o)
      /\ \/ /\ o.moved = <<>> /\ Len(rest \o o.moved) = Len(rest)
            /\ o.sent = 0 /\ o.lost \in {0, 1}
         \/ /\ o.moved # <<>> /\ Len(rest \o o.moved) = Len(rest) + 1
            /\ o.sent = 0 /\ o.lost = 0
  BY <1>1, <1>4, <1>5, SendKeepsPackets
<1>7. /\ DOMAIN links' = DOMAIN links /\ GoodLinks(links') /\ arrivals' \in Seq(Packet)
      /\ \A k \in DOMAIN arrivals' : arrivals'[k].link \in 1 .. nextId - 1
      /\ SlotsHold(links', arrivals') /\ transit' = TravelInfos(arrivals')
  BY <1>1, <1>2, <1>6 DEF AfterSend, LinksKnown
<1>8. stats' \in [sent : Nat, delivered : Nat, lost : Nat] /\ PacketsAccounted'
  <2>1. Len(arrivals) \in Nat /\ Len(rest) = Len(arrivals) - 1
    BY <1>1
  <2>2. \/ /\ Len(arrivals') = Len(rest) /\ o.sent = 0
           /\ o.lost \in {0, 1} /\ ForwardingLoss(o) = 1
        \/ /\ Len(arrivals') = Len(rest) + 1 /\ o.sent = 0
           /\ o.lost = 0 /\ ForwardingLoss(o) = 0
    BY <1>2, <1>6 DEF ForwardingLoss
  <2>3. /\ stats.sent \in Nat /\ stats.delivered \in Nat /\ stats.lost \in Nat
        /\ stats.sent <= stats.delivered + stats.lost + Len(arrivals)
        /\ stats.delivered + Len(arrivals) <= stats.sent
    BY DEF NetInv, PacketsAccounted
  <2>4. /\ stats'.sent = stats.sent + o.sent /\ stats'.delivered = stats.delivered
        /\ stats'.lost = stats.lost + o.lost + ForwardingLoss(o)
        /\ stats' = [sent |-> stats'.sent, delivered |-> stats'.delivered, lost |-> stats'.lost]
    BY <1>2 DEF Stats
  <2>5. stats'.sent \in Nat /\ stats'.lost \in Nat /\ stats'.delivered \in Nat
    BY <2>2, <2>3, <2>4
  <2>6. PacketsAccounted'
    <3>1. \A sent, delivered, lost, n, m \in Nat, dl, df \in {0, 1} :
            /\ sent <= delivered + lost + n /\ delivered + n <= sent /\ n # 0
            /\ (m = n - 1 /\ df = 1) \/ (m = n /\ dl = 0 /\ df = 0)
            => /\ sent <= delivered + (lost + dl + df) + m /\ delivered + m <= sent
      OBVIOUS
    <3>2. /\ Len(arrivals) \in Nat \ {0} /\ Len(arrivals') \in Nat
          /\ o.lost \in {0, 1} /\ ForwardingLoss(o) \in {0, 1}
      BY <1>1, <2>1, <2>2
    <3>3. \/ Len(arrivals') = Len(arrivals) - 1 /\ ForwardingLoss(o) = 1
          \/ Len(arrivals') = Len(arrivals) /\ o.lost = 0 /\ ForwardingLoss(o) = 0
      BY <2>1, <2>2
    <3>4. /\ stats.sent <= stats.delivered + (stats.lost + o.lost + ForwardingLoss(o))
                             + Len(arrivals')
          /\ stats.delivered + Len(arrivals') <= stats.sent
      BY <2>3, <3>1, <3>2, <3>3
    <3>5. stats'.sent = stats.sent
      BY <2>2, <2>3, <2>4
    <3> QED
      BY <2>4, <3>4, <3>5 DEF PacketsAccounted
  <2> QED
    BY <2>4, <2>5, <2>6
<1> QED
  BY <1>1, <1>3, <1>7, <1>8 DEF NetInv

\* What a change must show of the links it leaves.
LEMMA ChangeKeepsPackets ==
  ASSUME NetInv, NEW t \in Instants, Change(t), nextId' \in Nat \ {0}, nextId <= nextId',
         DOMAIN links' \subseteq 1 .. nextId' - 1, GoodLinks(links'),
         SlotsHold(links', arrivals)
  PROVE  NetInv'
<1>1. now' = t /\ t \in Nat
  <2>1. t \in now .. MaxTime /\ now \in Nat
    BY DEF Instants, NetInv
  <2>2. t \in Nat
    BY <2>1, NetworkAssumption
  <2> QED
    BY <2>2 DEF Change
<1>2. arrivals' = arrivals /\ transit' = transit /\ stats' = stats
  BY DEF Change, packetVars
<1>3. \A i \in DOMAIN arrivals : arrivals[i].link \in 1 .. nextId' - 1
  <2>1. \A x \in 1 .. nextId - 1 : x \in 1 .. nextId' - 1
    <3>1. nextId \in Nat
      BY DEF NetInv
    <3>2. \A m, n \in Nat : m <= n => \A x \in 1 .. m - 1 : x \in 1 .. n - 1
      OBVIOUS
    <3> QED
      BY <3>1, <3>2
  <2> QED
    BY <2>1 DEF NetInv
<1>4. PacketsAccounted' /\ transit' = TravelInfos(arrivals')
  BY <1>2 DEF NetInv, PacketsAccounted
<1> QED
  BY <1>1, <1>2, <1>3, <1>4 DEF NetInv

\* Links that stay as they are, or go down or up.
LEMMA LinksLeft ==
  ASSUME NetInv, NEW ls, DOMAIN ls \subseteq DOMAIN links,
         \A id \in DOMAIN ls : \E up \in BOOLEAN : ls[id] = [links[id] EXCEPT !.up = up]
  PROVE  GoodLinks(ls) /\ SlotsHold(ls, arrivals)
<1>1. ASSUME NEW id \in DOMAIN ls
      PROVE  /\ GoodLink(ls[id]) /\ SameEnds(ls[id], links[id])
             /\ ls[id].queue = links[id].queue
  <2>1. PICK up \in BOOLEAN : ls[id] = [links[id] EXCEPT !.up = up]
    OBVIOUS
  <2> DEFINE l == links[id]
             k == [l EXCEPT !.up = up]
  <2>2. GoodLink(l) /\ l \in LinkRecord
    BY DEF NetInv, GoodLinks, GoodLink
  <2> HIDE DEF l
  <2>3. /\ k \in LinkRecord /\ SameEnds(k, l)
        /\ k.queue = l.queue /\ k.busyUntil = l.busyUntil
    BY <2>2 DEF LinkRecord, LinkRecords, SameEnds
  <2> HIDE DEF k
  <2>4. GoodLink(k)
    BY <2>2, <2>3 DEF GoodLink
  <2> QED
    BY <2>1, <2>3, <2>4 DEF k, l
<1>2. ASSUME NEW id \in DOMAIN ls, NEW s \in Slot
      PROVE  Listed(ls[id].queue[s], arrivals, On(ls[id], id, arrivals, s))
  <2>1. Listed(links[id].queue[s], arrivals, On(links[id], id, arrivals, s))
    BY DEF NetInv, SlotsHold
  <2>2. On(ls[id], id, arrivals, s) = On(links[id], id, arrivals, s)
    BY <1>1, OnSame
  <2> QED
    BY <1>1, <2>1, <2>2
<1> QED
  BY <1>1, <1>2 DEF GoodLinks, SlotsHold

\* A link that stays is one that keeps its state.
LEMMA Unchanged ==
  ASSUME NetInv, NEW id \in DOMAIN links
  PROVE  \E up \in BOOLEAN : links[id] = [links[id] EXCEPT !.up = up]
<1> DEFINE l == links[id]
<1>1. l \in LinkRecord
  BY DEF NetInv, GoodLinks, GoodLink
<1> HIDE DEF l
<1>2. l.up \in BOOLEAN /\ l = [l EXCEPT !.up = l.up]
  BY <1>1 DEF LinkRecord, LinkRecords
<1> QED
  BY <1>2 DEF l

LEMMA ToggleKeeps ==
  ASSUME NetInv, NEW t \in Instants, NEW a \in Node, NEW b \in Node, NEW up \in BOOLEAN,
         ToggleLinkUp(a, b, up, t)
  PROVE  NetInv'
<1>1. Change(t) /\ nextId' = nextId /\ nextId \in Nat \ {0} /\ nextId <= nextId
  <2>1. nextId \in Nat \ {0}
    BY DEF NetInv
  <2> QED
    BY <2>1 DEF ToggleLinkUp
<1>2. links' = [links EXCEPT ![FirstLink(a, b)].up = up]
  BY DEF ToggleLinkUp
<1>3. DOMAIN links' = DOMAIN links
  BY <1>2
<1>4. ASSUME NEW id \in DOMAIN links'
      PROVE  \E u \in BOOLEAN : links'[id] = [links[id] EXCEPT !.up = u]
  <2>1. CASE id = FirstLink(a, b)
    BY <1>2, <1>3, <2>1
  <2>2. CASE id # FirstLink(a, b)
    <3>1. links'[id] = links[id]
      BY <1>2, <1>3, <2>2
    <3> QED
      BY <1>3, <3>1, Unchanged
  <2> QED
    BY <2>1, <2>2
<1>5. GoodLinks(links') /\ SlotsHold(links', arrivals)
  BY <1>3, <1>4, LinksLeft
<1>6. DOMAIN links' \subseteq 1 .. nextId - 1
  BY <1>3 DEF NetInv
<1> QED
  BY <1>1, <1>5, <1>6, ChangeKeepsPackets

LEMMA KeepKeeps ==
  ASSUME NetInv, NEW t \in Instants, Change(t), nextId' = nextId,
         NEW ids \in SUBSET DOMAIN links, links' = Keep(ids)
  PROVE  NetInv'
<1>1. nextId \in Nat \ {0} /\ nextId <= nextId
  <2>1. nextId \in Nat \ {0}
    BY DEF NetInv
  <2> QED
    BY <2>1
<1>2. DOMAIN links' = ids /\ \A id \in ids : links'[id] = links[id]
  BY DEF Keep
<1>3. \A id \in DOMAIN links' : \E u \in BOOLEAN : links'[id] = [links[id] EXCEPT !.up = u]
  BY <1>2, Unchanged
<1>4. GoodLinks(links') /\ SlotsHold(links', arrivals)
  BY <1>2, <1>3, LinksLeft
<1>5. DOMAIN links' \subseteq 1 .. nextId - 1
  BY <1>2 DEF NetInv
<1> QED
  BY <1>1, <1>4, <1>5, ChangeKeepsPackets

LEMMA CreateKeeps ==
  ASSUME NetInv, NEW t \in Instants, NEW l \in NewLinks, CreateLink(l, t)
  PROVE  NetInv'
<1>1. /\ Change(t) /\ nextId' = nextId + 1 /\ nextId \in Nat \ {0}
      /\ links' = [id \in DOMAIN links \union {nextId} |->
                     IF id = nextId THEN l ELSE links[id]]
  BY DEF CreateLink, NetInv
<1>2. l \in LinkRecord /\ Idle(l) /\ GoodLink(l)
  BY LinksAssumption, IdleLink
<1>3. /\ nextId' \in Nat \ {0} /\ nextId <= nextId'
      /\ \A id \in 1 .. nextId - 1 : id \in 1 .. nextId' - 1 /\ id # nextId
      /\ nextId \in 1 .. nextId' - 1
  BY <1>1
<1>4. DOMAIN links' = DOMAIN links \union {nextId} /\ DOMAIN links \subseteq 1 .. nextId - 1
  BY <1>1 DEF NetInv
<1>5. links'[nextId] = l /\ \A id \in DOMAIN links : links'[id] = links[id]
  BY <1>1, <1>3, <1>4
<1>6. DOMAIN links' \subseteq 1 .. nextId' - 1
  BY <1>3, <1>4
<1>7. GoodLinks(links')
  BY <1>2, <1>4, <1>5 DEF GoodLinks, NetInv
<1>8. \A i \in DOMAIN arrivals : arrivals[i].link # nextId
  BY <1>3 DEF NetInv
<1>9. SlotsHold(links', arrivals)
  <2>1. \A s \in Slot : Listed(l.queue[s], arrivals, On(l, nextId, arrivals, s))
    BY <1>2, <1>8, IdleHolds
  <2>2. \A id \in DOMAIN links, s \in Slot :
          Listed(links[id].queue[s], arrivals, On(links[id], id, arrivals, s))
    BY DEF NetInv, SlotsHold
  <2> QED
    BY <1>4, <1>5, <2>1, <2>2 DEF SlotsHold
<1> QED
  BY <1>1, <1>3, <1>6, <1>7, <1>9, ChangeKeepsPackets

LEMMA StepKeepsNetInv == NetInv /\ [Next]_vars => NetInv'
<1> SUFFICES ASSUME NetInv, [Next]_vars
             PROVE  NetInv'
  OBVIOUS
<1>1. ASSUME NEW f \in Flows, NEW t \in Instants, Send(f[1], f[2], t)
      PROVE  NetInv'
  BY <1>1, SendKeeps
<1>2. ASSUME NEW i \in DOMAIN arrivals, Deliver(i) \/ Forward(i)
      PROVE  NetInv'
  BY <1>2, DeliverKeeps, ForwardKeeps
<1>3. ASSUME NEW t \in Instants, ChangeTopology(t)
      PROVE  NetInv'
  <2>1. ASSUME NEW a \in Node, NEW b \in Node, NEW up \in BOOLEAN, ToggleLinkUp(a, b, up, t)
        PROVE  NetInv'
    BY <2>1, ToggleKeeps
  <2>2. ASSUME NEW a \in Node, NEW b \in Node, DeleteLink(a, b, t)
        PROVE  NetInv'
    BY <2>2, KeepKeeps DEF DeleteLink
  <2>3. ASSUME NEW n \in Node, DeleteNode(n, t)
        PROVE  NetInv'
    BY <2>3, KeepKeeps DEF DeleteNode
  <2>4. ASSUME NEW l \in NewLinks, CreateLink(l, t)
        PROVE  NetInv'
    BY <2>4, CreateKeeps
  <2>5. ASSUME NEW m \in Metrics, SetRoutingMetric(m, t)
        PROVE  NetInv'
    <3>1. links' = links /\ nextId' = nextId /\ Change(t)
      BY <2>5 DEF SetRoutingMetric
    <3>2. /\ nextId \in Nat \ {0} /\ GoodLinks(links) /\ SlotsHold(links, arrivals)
          /\ DOMAIN links \subseteq 1 .. nextId - 1
      BY DEF NetInv
    <3>3. nextId <= nextId'
      BY <3>1, <3>2
    <3> QED
      BY <3>1, <3>2, <3>3, ChangeKeepsPackets
  <2> QED
    BY <1>3, <2>1, <2>2, <2>3, <2>4, <2>5 DEF ChangeTopology
<1>4. CASE UNCHANGED vars
  BY <1>4 DEF vars, topologyVars, packetVars, NetInv, PacketsAccounted
<1> QED
  BY <1>1, <1>2, <1>3, <1>4 DEF Next, RunArrival

THEOREM NetInvariance == Spec => []NetInv
<1> QED
  BY InitNetInv, StepKeepsNetInv, PTL DEF Spec

-----------------------------------------------------------------------------
(* What follows from it. *)

(***************************************************************************)
(* packets_in_transit is the packets whose arrival is scheduled, in the    *)
(* order they were sent: the entry releasePacketThroughTopology looks up   *)
(* by its times, nodes and link is the one of the packet that arrives, for *)
(* an equal entry before it would have been due first.                     *)
(***************************************************************************)
THEOREM TransitIsExact == Spec => []TransitExact
<1>1. NetInv => TransitExact
  BY DEF NetInv, TransitExact, TravelInfos
<1> QED
  BY <1>1, NetInvariance, PTL

(***************************************************************************)
(* The queues of the links hold exactly the packets on them, whatever      *)
(* links and nodes are removed, fail or are added meanwhile: no slot of    *)
(* enqueueTransmission leaks and dequeueTransmission frees no other one.   *)
(* An identifier is never used again (next_id_), so that a packet whose    *)
(* link is gone frees nothing.  No queue exceeds its capacity: the check   *)
(* of canQueue and the enqueue are one step.                               *)
(***************************************************************************)
THEOREM SlotsAreExact == Spec => []SlotsExact
<1>1. ASSUME NetInv
      PROVE  SlotsExact
  <2> SUFFICES ASSUME NEW id \in DOMAIN links, NEW s \in Slot
               PROVE  /\ Len(links[id].queue[s]) <= QueueCapacity
                      /\ \E sent \in [DOMAIN links[id].queue[s] -> OnSlot(id, s)] :
                           Lists(links[id].queue[s], arrivals, OnSlot(id, s), sent)
    BY DEF SlotsExact, Lists
  <2>2. Len(links[id].queue[s]) <= QueueCapacity
    BY <1>1 DEF NetInv, GoodLinks, GoodLink
  <2>1. OnSlot(id, s) = On(links[id], id, arrivals, s)
    BY DEF OnSlot, On
  <2> QED
    BY <1>1, <2>1, <2>2 DEF NetInv, SlotsHold, Listed
<1> QED
  BY <1>1, NetInvariance, PTL

(***************************************************************************)
(* A link carries one packet at a time in each direction, or one in all if *)
(* it is half duplex, whatever the delays and bandwidths: a slot stays     *)
(* reserved to the end of the last transmission that was granted, and      *)
(* getNextAvailableTime grants none before that.                           *)
(***************************************************************************)
THEOREM TransmissionsInTurn == Spec => []OneAtATime
<1>1. NetInv => OneAtATime
  BY DEF NetInv, GoodLinks, GoodLink, InTurn, OneAtATime
<1> QED
  BY <1>1, NetInvariance, PTL

(***************************************************************************)
(* No packet is lost sight of: each that was counted as sent is delivered, *)
(* counted as lost or on its way, and none is delivered or under way that  *)
(* was not counted, on every path through sendPacket and                   *)
(* PacketReceivedEvent::execute and whatever becomes of the links.         *)
(***************************************************************************)
THEOREM EveryPacketAccounted == Spec => []PacketsAccounted
<1>1. NetInv => PacketsAccounted
  BY DEF NetInv
<1> QED
  BY <1>1, NetInvariance, PTL

-----------------------------------------------------------------------------
(* The routing tables: whatever the links are, buildDijkstra stays within  *)
(* the nodes of the topology.  Its loops are recursive functions: that     *)
(* there is one, and what holds along it, is shown of the least number of  *)
(* turns that would be a counterexample.                                   *)

LEMMA GreatestOf ==
  ASSUME NEW n \in Nat, NEW s \in SUBSET (1 .. n), s # {}
  PROVE  /\ Max(s) \in s /\ Max(s) \in Nat /\ 1 <= Max(s) /\ Max(s) <= n
         /\ s \ {Max(s)} \in SUBSET (1 .. Max(s) - 1)
<1> DEFINE Gaps == {n - x : x \in s}
<1>0. \A x \in s : x \in Nat /\ 1 <= x /\ x <= n
  OBVIOUS
<1>1. Gaps \in SUBSET Nat /\ Gaps # {}
  <2>1. \A x \in s : n - x \in Nat
    BY <1>0
  <2> QED
    BY <2>1
<1>2. PICK g \in Gaps : \A h \in Gaps : g <= h
  <2> HIDE DEF Gaps
  <2> QED
    BY <1>1, LeastNatural
<1>3. PICK x \in s : g = n - x
  BY <1>2
<1>4. \A y \in s : x >= y
  <2> SUFFICES ASSUME NEW y \in s PROVE x >= y
    OBVIOUS
  <2>1. n - x <= n - y
    BY <1>2, <1>3
  <2>2. x \in Nat /\ y \in Nat
    BY <1>0
  <2> QED
    BY <2>1, <2>2
<1>5. Max(s) \in s /\ \A y \in s : Max(s) >= y
  BY <1>3, <1>4 DEF Max
<1>6. \A y \in s \ {Max(s)} : y \in Nat /\ 1 <= y /\ y <= Max(s) - 1
  <2> SUFFICES ASSUME NEW y \in s, y # Max(s) PROVE y \in Nat /\ 1 <= y /\ y <= Max(s) - 1
    OBVIOUS
  <2> HIDE DEF Max
  <2>1. Max(s) \in Nat /\ y \in Nat /\ 1 <= y /\ Max(s) >= y
    BY <1>0, <1>5
  <2> QED
    BY <2>1
<1>7. Max(s) \in Nat /\ 1 <= Max(s) /\ Max(s) <= n
  BY <1>0, <1>5
<1>8. \A y \in s \ {Max(s)} : y \in 1 .. Max(s) - 1
  BY <1>6, <1>7
<1> QED
  BY <1>5, <1>7, <1>8

\* One entry of the fold over the links of a node.
Folded(m, ls, u, base, f, s) ==
  IF s = {} THEN base ELSE Relax(m, ls, f[s \ {Max(s)}], u, Max(s))

IsFold(m, ls, u, base, ids, f) == f = [s \in SUBSET ids |-> Folded(m, ls, u, base, f, s)]

LEMMA FoldExists ==
  ASSUME NEW m, NEW ls, NEW u, NEW base, NEW n \in Nat
  PROVE  \E f : IsFold(m, ls, u, base, 1 .. n, f)
<1> DEFINE Good(k) == \E f : f = [s \in SUBSET (1 .. k) |-> Folded(m, ls, u, base, f, s)]
           Bad == {k \in Nat : ~ Good(k)}
<1>1. Good(0)
  <2> DEFINE f == [s \in SUBSET (1 .. 0) |-> base]
  <2>1. \A s \in SUBSET (1 .. 0) : s = {}
    OBVIOUS
  <2>2. f = [s \in SUBSET (1 .. 0) |-> Folded(m, ls, u, base, f, s)]
    BY <2>1 DEF Folded
  <2> HIDE DEF f
  <2> QED
    BY <2>2
<1>2. ASSUME NEW k \in Nat \ {0}, Good(k - 1)
      PROVE  Good(k)
  <2>1. PICK f : f = [s \in SUBSET (1 .. k - 1) |-> Folded(m, ls, u, base, f, s)]
    BY <1>2
  <2> DEFINE g == [s \in SUBSET (1 .. k) |-> Folded(m, ls, u, base, f, s)]
  <2>2. ASSUME NEW s \in SUBSET (1 .. k)
        PROVE  Folded(m, ls, u, base, f, s) = Folded(m, ls, u, base, g, s)
    <3>1. CASE s = {}
      BY <3>1 DEF Folded
    <3>2. CASE s # {}
      <4> DEFINE r == s \ {Max(s)}
      <4>1. /\ Max(s) \in s /\ r \in SUBSET (1 .. Max(s) - 1)
            /\ Max(s) \in Nat /\ 1 <= Max(s) /\ Max(s) <= k
        BY <3>2, GreatestOf
      <4>2. r \in SUBSET (1 .. k - 1) /\ r \in SUBSET (1 .. k)
        <5>1. \A y \in r : y \in 1 .. k - 1
          BY <4>1
        <5> QED
          BY <5>1
      <4> HIDE DEF r
      <4>3. f[r] = Folded(m, ls, u, base, f, r)
        BY <2>1, <4>2
      <4>4. g[r] = Folded(m, ls, u, base, f, r)
        BY <4>2
      <4> HIDE DEF g
      <4>5. f[r] = g[r]
        BY <4>3, <4>4
      <4> QED
        BY <4>5 DEF Folded, r
    <3> QED
      BY <3>1, <3>2
  <2>3. g = [s \in SUBSET (1 .. k) |-> Folded(m, ls, u, base, g, s)]
    BY <2>2
  <2> HIDE DEF g
  <2> QED
    BY <2>3
<1> HIDE DEF Good
<1>3. Bad = {}
  <2> SUFFICES ASSUME Bad # {} PROVE FALSE
    OBVIOUS
  <2>1. PICK k \in Bad : \A l \in Bad : k <= l
    BY LeastNatural
  <2>2. k \in Nat \ {0} /\ ~ Good(k)
    BY <1>1
  <2>3. k - 1 \in Nat /\ ~ (k <= k - 1)
    BY <2>2
  <2>4. Good(k - 1)
    BY <2>1, <2>3
  <2> QED
    BY <1>2, <2>2, <2>4
<1>4. Good(n)
  BY <1>3
<1> QED
  BY <1>4 DEF Good, IsFold

\* The fold of Turn, and what it is of the ends of one link more.
Relaxed(m, ls, u, base, ids) ==
  MapThenFoldSet(LAMBDA id, r : Relax(m, ls, r, u, id), base, LAMBDA id : id, Max, ids)

\* G holds of the links relaxed so far and of what the search is then.
LEMMA FoldReaches ==
  ASSUME NEW m, NEW ls, NEW u, NEW base, NEW n \in Nat, NEW ids \in SUBSET (1 .. n),
         NEW G, <<{}, base>> \in G,
         \A s \in SUBSET ids, id \in ids : \A r :
           id \in s /\ <<s \ {id}, r>> \in G => <<s, Relax(m, ls, r, u, id)>> \in G
  PROVE  <<ids, Relaxed(m, ls, u, base, ids)>> \in G
<1> DEFINE Rec(f) == f = [s \in SUBSET ids |-> Folded(m, ls, u, base, f, s)]
<1>1. \E f : Rec(f)
  <2>1. PICK f : IsFold(m, ls, u, base, 1 .. n, f)
    BY FoldExists
  <2> DEFINE g == [s \in SUBSET ids |-> f[s]]
  <2>2. ASSUME NEW s \in SUBSET ids
        PROVE  g[s] = Folded(m, ls, u, base, g, s)
    <3>1. s \in SUBSET (1 .. n) /\ s \ {Max(s)} \in SUBSET ids
      OBVIOUS
    <3>2. g[s \ {Max(s)}] = f[s \ {Max(s)}]
      BY <3>1
    <3>3. g[s] = f[s] /\ f[s] = Folded(m, ls, u, base, f, s)
      BY <2>1, <3>1 DEF IsFold
    <3> HIDE DEF g
    <3> QED
      BY <3>2, <3>3 DEF Folded
  <2>3. Rec(g)
    BY <2>2
  <2> HIDE DEF g, Rec
  <2> QED
    BY <2>3
<1> DEFINE f == CHOOSE f : Rec(f)
<1>2. Rec(f)
  <2> HIDE DEF Rec
  <2> QED
    BY <1>1
<1>3. Relaxed(m, ls, u, base, ids) = f[ids]
  BY DEF Relaxed, MapThenFoldSet, Folded
<1> HIDE DEF f
<1>4. \A s \in SUBSET ids : f[s] = Folded(m, ls, u, base, f, s)
  BY <1>2
<1> DEFINE Bad == {k \in Nat : \E s \in SUBSET ids : s \in SUBSET (1 .. k) /\ <<s, f[s]>> \notin G}
<1>5. Bad = {}
  <2> SUFFICES ASSUME Bad # {} PROVE FALSE
    OBVIOUS
  <2>1. PICK k \in Bad : \A l \in Bad : k <= l
    BY LeastNatural
  <2>2. PICK s \in SUBSET ids : s \in SUBSET (1 .. k) /\ <<s, f[s]>> \notin G
    BY <2>1
  <2>3. s # {}
    <3>1. f[s] = Folded(m, ls, u, base, f, s)
      BY <1>4
    <3> QED
      BY <2>2, <3>1 DEF Folded
  <2> DEFINE x == Max(s)
             r == f[s \ {x}]
  <2>4. /\ x \in s /\ x \in ids /\ s \ {x} \in SUBSET (1 .. x - 1)
        /\ x \in Nat /\ 1 <= x /\ x <= k
    BY <2>2, <2>3, GreatestOf
  <2>5. f[s] = Relax(m, ls, r, u, x)
    BY <1>4, <2>2, <2>3 DEF Folded
  <2> HIDE DEF x, r
  <2>6. <<s \ {x}, r>> \notin G
    BY <2>2, <2>4, <2>5
  <2>7. x - 1 \in Bad
    <3>1. x - 1 \in Nat /\ s \ {x} \in SUBSET ids
      BY <2>4
    <3>2. <<s \ {x}, f[s \ {x}]>> \notin G
      BY <2>6 DEF r
    <3> QED
      BY <2>4, <3>1, <3>2
  <2>8. k <= x - 1
    BY <2>1, <2>7
  <2> QED
    BY <2>4, <2>8
<1>6. <<ids, f[ids]>> \in G
  BY <1>5
<1> QED
  BY <1>3, <1>6

LEMMA FoldSound ==
  ASSUME NEW m, NEW ls, NEW u, NEW S, NEW base \in S, NEW n \in Nat, NEW ids \in SUBSET (1 .. n),
         \A r \in S, id \in ids : Relax(m, ls, r, u, id) \in S
  PROVE  Relaxed(m, ls, u, base, ids) \in S
<1> DEFINE G == (SUBSET ids) \X S
<1>1. <<{}, base>> \in G
  OBVIOUS
<1>2. ASSUME NEW t \in SUBSET ids, NEW id \in ids, NEW r, id \in t, <<t \ {id}, r>> \in G
      PROVE  <<t, Relax(m, ls, r, u, id)>> \in G
  BY <1>2
<1> HIDE DEF G
<1>3. <<ids, Relaxed(m, ls, u, base, ids)>> \in G
  BY <1>1, <1>2, FoldReaches
<1> QED
  BY <1>3 DEF G

SearchState ==
  [dist : [Node -> Nat], parent : [Node -> Node \union {NoHop}], heap : Seq(Nat \X Node)]

LEMMA LinkCostNat ==
  ASSUME NEW m \in RoutingMetric, NEW l \in LinkRecord
  PROVE  LinkCost(m, l) \in Nat
<1>1. l.delay \in Nat /\ l.bandwidth \in Nat \ {0} /\ PacketSize \in Nat
  BY LinkAssumption DEF LinkRecord, LinkRecords
<1>2. \A x, y \in Nat : y # 0 => x \div y \in Nat
  OBVIOUS
<1>3. \A x, y \in Nat : x * y \in Nat
  OBVIOUS
<1>4. l.delay * (PacketSize \div l.bandwidth) \in Nat
  <2>1. PacketSize \div l.bandwidth \in Nat
    BY <1>1, <1>2
  <2> QED
    BY <1>1, <1>3, <2>1
<1> HIDE DEF LinkCost
<1>5. CASE m = "Delay"
  BY <1>1, <1>5 DEF LinkCost
<1>6. CASE m = "Bandwidth"
  BY <1>1, <1>6 DEF LinkCost
<1>7. CASE m = "HopCount"
  BY <1>7 DEF LinkCost
<1>8. CASE m = "DelayBandwidth"
  BY <1>4, <1>8 DEF LinkCost
<1> QED
  BY <1>5, <1>6, <1>7, <1>8 DEF RoutingMetric

LEMMA CombineNat ==
  ASSUME NEW m, NEW d \in Nat, NEW c \in Nat
  PROVE  Combine(m, d, c) \in Nat
BY RoutingAssumption DEF Combine

LEMMA RelaxTyped ==
  ASSUME NEW m \in RoutingMetric, NEW ls, NEW id \in DOMAIN ls, ls[id] \in LinkRecord,
         NEW u \in Node, NEW r \in SearchState
  PROVE  Relax(m, ls, r, u, id) \in SearchState
<1> DEFINE v == OtherNode(ls[id], u)
           d == Combine(m, r.dist[u], LinkCost(m, ls[id]))
           improved == [dist   |-> [r.dist EXCEPT ![v] = d],
                        parent |-> [r.parent EXCEPT ![v] = u],
                        heap   |-> Append(r.heap, <<d, v>>)]
<1>1. v \in Node
  BY DEF OtherNode, LinkRecord, LinkRecords
<1>2. r.dist \in [Node -> Nat] /\ r.parent \in [Node -> Node \union {NoHop}]
      /\ r.heap \in Seq(Nat \X Node)
  BY DEF SearchState
<1>3. d \in Nat
  BY <1>2, LinkCostNat, CombineNat
<1>4. Relax(m, ls, r, u, id) \in {improved, r}
  BY DEF Relax
<1> HIDE DEF v, d
<1>5. Append(r.heap, <<d, v>>) \in Seq(Nat \X Node)
  BY <1>1, <1>2, <1>3, AppendProperties
<1>6. improved \in SearchState
  BY <1>1, <1>2, <1>3, <1>5 DEF SearchState
<1> QED
  BY <1>4, <1>6

\* The order of the heap is total, so one of its entries comes first.
Precedes(m, p, q) ==
  \/ Better(m, p[1], q[1])
  \/ p[1] = q[1] /\ p[2] <= q[2]

LEMMA TopInHeap ==
  ASSUME NEW m, NEW heap \in Seq(Nat \X Node), heap # <<>>
  PROVE  /\ Top(m, heap) \in DOMAIN heap
         /\ \A j \in DOMAIN heap : Precedes(m, heap[Top(m, heap)], heap[j])
<1>1. Len(heap) \in Nat \ {0} /\ DOMAIN heap = 1 .. Len(heap)
      /\ \A i \in DOMAIN heap : heap[i] \in Nat \X Node
  BY EmptySeq, LenProperties, ElementOfSeq
<1>2. \A i \in DOMAIN heap : heap[i][1] \in Nat /\ heap[i][2] \in Nat
  BY <1>1, RoutingAssumption DEF Node
<1> DEFINE First(k) == \E i \in 1 .. k : \A j \in 1 .. k : Precedes(m, heap[i], heap[j])
           Bad == {k \in 1 .. Len(heap) : ~ First(k)}
<1>3. \A i, j, k \in DOMAIN heap :
        /\ Precedes(m, heap[i], heap[i])
        /\ Precedes(m, heap[i], heap[j]) \/ Precedes(m, heap[j], heap[i])
        /\ Precedes(m, heap[i], heap[j]) /\ Precedes(m, heap[j], heap[k])
             => Precedes(m, heap[i], heap[k])
  BY <1>2 DEF Precedes, Better
<1>4. Bad = {}
  <2> SUFFICES ASSUME Bad # {} PROVE FALSE
    OBVIOUS
  <2>0. Bad \in SUBSET Nat
    <3>1. \A k \in Bad : k \in 1 .. Len(heap)
      OBVIOUS
    <3> QED
      BY <1>1, <3>1
  <2>1. PICK k \in Bad : \A l \in Bad : k <= l
    <3> HIDE DEF Bad
    <3> QED
      BY <2>0, LeastNatural
  <2>2. k \in 1 .. Len(heap) /\ ~ First(k)
    OBVIOUS
  <2>3. k # 1
    <3>1. 1 .. 1 = {1} /\ 1 \in DOMAIN heap
      BY <1>1
    <3>2. First(1)
      BY <1>3, <3>1
    <3> QED
      BY <2>2, <3>2
  <2>4. k - 1 \in 1 .. Len(heap) /\ ~ (k <= k - 1)
    BY <1>1, <2>2, <2>3
  <2>5. First(k - 1)
    BY <2>1, <2>4
  <2>6. PICK i \in 1 .. k - 1 : \A j \in 1 .. k - 1 : Precedes(m, heap[i], heap[j])
    BY <2>5
  <2>7. /\ k \in Nat /\ i \in 1 .. k /\ i \in DOMAIN heap /\ k \in DOMAIN heap
        /\ \A j \in 1 .. k : j \in DOMAIN heap
        /\ \A j \in 1 .. k : j \in 1 .. k - 1 \/ j = k
    <3> HIDE DEF First
    <3>1. k \in Nat /\ k <= Len(heap) /\ 1 <= k /\ Len(heap) \in Nat
      BY <1>1, <2>2
    <3> QED
      BY <1>1, <3>1
  <2>8. CASE Precedes(m, heap[i], heap[k])
    <3>1. \A j \in 1 .. k : Precedes(m, heap[i], heap[j])
      BY <2>6, <2>7, <2>8
    <3> QED
      BY <2>2, <2>7, <3>1
  <2>9. CASE ~ Precedes(m, heap[i], heap[k])
    <3>1. \A j \in 1 .. k : Precedes(m, heap[k], heap[j])
      BY <1>3, <2>6, <2>7, <2>9
    <3>2. k \in 1 .. k
      BY <2>2
    <3> QED
      BY <2>2, <3>1, <3>2
  <2> QED
    BY <2>8, <2>9
<1>5. First(Len(heap))
  <2>1. Len(heap) \in 1 .. Len(heap)
    BY <1>1
  <2> HIDE DEF First
  <2> QED
    BY <1>4, <2>1
<1>6. \E i \in DOMAIN heap : \A j \in DOMAIN heap : Precedes(m, heap[i], heap[j])
  BY <1>1, <1>5
<1> QED
  BY <1>6 DEF Top, Precedes

\* The links of a topology, as far as routing goes.
Topology(ls) ==
  \E n \in Nat : DOMAIN ls \subseteq 1 .. n
                   /\ \A id \in DOMAIN ls : ls[id] \in LinkRecord

LEMMA TurnTyped ==
  ASSUME NEW m \in RoutingMetric, NEW ls, Topology(ls), NEW s \in SearchState
  PROVE  Turn(m, ls, s) \in SearchState
<1>1. CASE s.heap = <<>>
  BY <1>1 DEF Turn
<1>2. CASE s.heap # <<>>
  <2> DEFINE top == Top(m, s.heap)
             u == s.heap[top][2]
             popped == [s EXCEPT !.heap = RemoveAt(@, top)]
  <2>1. s.heap \in Seq(Nat \X Node) /\ DOMAIN s.heap = 1 .. Len(s.heap)
    BY LenProperties DEF SearchState
  <2>2. top \in DOMAIN s.heap
    BY <1>2, <2>1, TopInHeap
  <2> HIDE DEF top
  <2>3. u \in Node
    <3>1. s.heap[top] \in Nat \X Node
      BY <2>1, <2>2, ElementOfSeq
    <3> QED
      BY <3>1
  <2>4. popped \in SearchState
    <3>1. RemoveAt(s.heap, top) \in Seq(Nat \X Node)
      BY <2>1, <2>2, Removed
    <3> QED
      BY <3>1 DEF SearchState
  <2>5. Relaxed(m, ls, u, popped, UpLinks(ls, u)) \in SearchState
    <3>1. PICK n \in Nat : DOMAIN ls \subseteq 1 .. n
                             /\ \A id \in DOMAIN ls : ls[id] \in LinkRecord
      BY DEF Topology
    <3>2. UpLinks(ls, u) \in SUBSET (1 .. n) /\ UpLinks(ls, u) \subseteq DOMAIN ls
      BY <3>1 DEF UpLinks
    <3> HIDE DEF u, popped
    <3>3. \A r \in SearchState, id \in UpLinks(ls, u) : Relax(m, ls, r, u, id) \in SearchState
      BY <2>3, <3>1, <3>2, RelaxTyped
    <3> QED
      BY <2>4, <3>2, <3>3, FoldSound
  <2>6. Turn(m, ls, s) \in {popped, Relaxed(m, ls, u, popped, UpLinks(ls, u))}
    BY <1>2 DEF Turn, Relaxed, top
  <2> HIDE DEF u, popped
  <2> QED
    BY <2>4, <2>5, <2>6
<1> QED
  BY <1>1, <1>2

\* The states of the search after each turn.
Searched(m, ls, start, n, f) ==
  f = [k \in 0 .. n |-> IF k = 0 THEN start ELSE Turn(m, ls, f[k - 1])]

LEMMA SearchExists ==
  ASSUME NEW m, NEW ls, NEW start, NEW n \in Nat
  PROVE  \E f : Searched(m, ls, start, n, f)
<1> DEFINE Good(k) == \E f : Searched(m, ls, start, k, f)
           Bad == {k \in Nat : ~ Good(k)}
<1>1. Good(0)
  <2> DEFINE f == [k \in 0 .. 0 |-> start]
  <2>1. Searched(m, ls, start, 0, f)
    BY DEF Searched
  <2> HIDE DEF f
  <2> QED
    BY <2>1
<1>2. ASSUME NEW k \in Nat \ {0}, Good(k - 1)
      PROVE  Good(k)
  <2>1. PICK f : Searched(m, ls, start, k - 1, f)
    BY <1>2
  <2> DEFINE g == [j \in 0 .. k |-> IF j = 0 THEN start ELSE Turn(m, ls, f[j - 1])]
  <2>2. ASSUME NEW j \in 0 .. k, j # 0
        PROVE  g[j - 1] = f[j - 1]
    <3>1. j - 1 \in 0 .. k - 1 /\ j - 1 \in 0 .. k
      BY <2>2
    <3> QED
      BY <2>1, <3>1 DEF Searched
  <2>3. Searched(m, ls, start, k, g)
    BY <2>2 DEF Searched
  <2> HIDE DEF g
  <2> QED
    BY <2>3
<1> HIDE DEF Good
<1>3. Bad = {}
  <2> SUFFICES ASSUME Bad # {} PROVE FALSE
    OBVIOUS
  <2>1. PICK k \in Bad : \A l \in Bad : k <= l
    BY LeastNatural
  <2>2. k \in Nat \ {0} /\ ~ Good(k)
    BY <1>1
  <2>3. k - 1 \in Nat /\ ~ (k <= k - 1)
    BY <2>2
  <2>4. Good(k - 1)
    BY <2>1, <2>3
  <2> QED
    BY <1>2, <2>2, <2>4
<1>4. Good(n)
  BY <1>3
<1> QED
  BY <1>4 DEF Good

LEMMA SearchTyped ==
  ASSUME NEW m \in RoutingMetric, NEW ls, Topology(ls), NEW start \in SearchState,
         NEW n \in Nat, NEW f, Searched(m, ls, start, n, f)
  PROVE  f[n] \in SearchState
<1> DEFINE Bad == {k \in 0 .. n : f[k] \notin SearchState}
<1>1. Bad = {}
  <2> SUFFICES ASSUME Bad # {} PROVE FALSE
    OBVIOUS
  <2>0. Bad \in SUBSET Nat
    OBVIOUS
  <2>1. PICK k \in Bad : \A l \in Bad : k <= l
    <3> HIDE DEF Bad
    <3> QED
      BY <2>0, LeastNatural
  <2>2. CASE k = 0
    BY <2>2 DEF Searched
  <2>3. CASE k # 0
    <3>1. k \in 0 .. n /\ k - 1 \in 0 .. n /\ ~ (k <= k - 1) /\ f[k] \notin SearchState
      BY <2>3
    <3>2. f[k - 1] \in SearchState
      BY <2>1, <3>1
    <3>3. f[k] = Turn(m, ls, f[k - 1])
      BY <2>3, <3>1 DEF Searched
    <3> QED
      BY <3>1, <3>2, <3>3, TurnTyped
  <2> QED
    BY <2>2, <2>3
<1> QED
  BY <1>1

LEMMA DijkstraTyped ==
  ASSUME NEW m \in RoutingMetric, NEW ls, Topology(ls), NEW src \in Node
  PROVE  BuildDijkstra(m, ls, src) \in SearchState
<1> DEFINE start == [dist   |-> [n \in Node |-> IF n = src THEN Zero(m) ELSE Worst(m)],
                     parent |-> [n \in Node |-> NoHop],
                     heap   |-> << <<Zero(m), src>> >>]
           turns == MaxTurns(ls)
           f == CHOOSE f : Searched(m, ls, start, turns, f)
<1>1. start \in SearchState
  <2>1. Zero(m) \in Nat /\ Worst(m) \in Nat
    BY RoutingAssumption DEF Zero, Worst
  <2>2. << <<Zero(m), src>> >> \in Seq(Nat \X Node)
    BY <2>1
  <2> QED
    BY <2>1, <2>2 DEF SearchState
<1>2. turns \in Nat
  <2>1. IsFiniteSet(DOMAIN ls)
    <3>1. PICK n \in Nat : DOMAIN ls \in SUBSET (1 .. n)
      BY DEF Topology
    <3>2. IsFiniteSet(1 .. n)
      BY FS_Interval
    <3> QED
      BY <3>1, <3>2, FS_Subset
  <2>2. Cardinality(DOMAIN ls) \in Nat
    BY <2>1, FS_CardinalityType
  <2> QED
    BY <2>2 DEF MaxTurns
<1>3. BuildDijkstra(m, ls, src) = f[turns]
  BY DEF BuildDijkstra, Searched
<1> HIDE DEF start, turns
<1>4. Searched(m, ls, start, turns, f)
  BY <1>2, SearchExists
<1> HIDE DEF f
<1> QED
  BY <1>1, <1>2, <1>3, <1>4, SearchTyped

\* The nodes passed on the way from d to the child of src.
Climbed(parent, src, d, f, n) ==
  f = [k \in 0 .. n |-> IF k = 0 THEN d
                        ELSE LET a == f[k - 1]
                             IN  IF a = NoHop \/ parent[a] = src THEN a ELSE parent[a]]

LEMMA ClimbExists ==
  ASSUME NEW parent, NEW src, NEW d
  PROVE  \E h : Climbed(parent, src, d, h, NumNodes) /\ FirstHop(parent, src, d) = h[NumNodes]
<1> DEFINE Up(a) == IF a = NoHop \/ parent[a] = src THEN a ELSE parent[a]
           Good(k) == \E f : Climbed(parent, src, d, f, k)
           Bad == {k \in Nat : ~ Good(k)}
<1>1. Good(0)
  <2> DEFINE f == [k \in 0 .. 0 |-> d]
  <2>1. Climbed(parent, src, d, f, 0)
    BY DEF Climbed
  <2> HIDE DEF f
  <2> QED
    BY <2>1
<1>2. ASSUME NEW k \in Nat \ {0}, Good(k - 1)
      PROVE  Good(k)
  <2>1. PICK f : Climbed(parent, src, d, f, k - 1)
    BY <1>2
  <2> DEFINE g == [j \in 0 .. k |-> IF j = 0 THEN d ELSE Up(f[j - 1])]
  <2>2. ASSUME NEW j \in 0 .. k, j # 0
        PROVE  g[j - 1] = f[j - 1]
    <3>1. j - 1 \in 0 .. k - 1 /\ j - 1 \in 0 .. k
      BY <2>2
    <3> QED
      BY <2>1, <3>1 DEF Climbed
  <2>3. Climbed(parent, src, d, g, k)
    BY <2>2 DEF Climbed
  <2> HIDE DEF g
  <2> QED
    BY <2>3
<1> HIDE DEF Good
<1>3. Bad = {}
  <2> SUFFICES ASSUME Bad # {} PROVE FALSE
    OBVIOUS
  <2>1. PICK k \in Bad : \A l \in Bad : k <= l
    BY LeastNatural
  <2>2. k \in Nat \ {0} /\ ~ Good(k)
    BY <1>1
  <2>3. k - 1 \in Nat /\ ~ (k <= k - 1)
    BY <2>2
  <2>4. Good(k - 1)
    BY <2>1, <2>3
  <2> QED
    BY <1>2, <2>2, <2>4
<1>4. PICK f : Climbed(parent, src, d, f, NumNodes)
  BY <1>3, RoutingAssumption DEF Good
<1> DEFINE h == CHOOSE h : Climbed(parent, src, d, h, NumNodes)
<1>5. Climbed(parent, src, d, h, NumNodes)
  BY <1>4
<1>6. FirstHop(parent, src, d) = h[NumNodes]
  BY DEF FirstHop, Climbed
<1> HIDE DEF h
<1> QED
  BY <1>5, <1>6

LEMMA FirstHopTyped ==
  ASSUME NEW parent \in [Node -> Node \union {NoHop}], NEW src \in Node, NEW d \in Node
  PROVE  FirstHop(parent, src, d) \in Node \union {NoHop}
<1> DEFINE Hop == Node \union {NoHop}
           Up(a) == IF a = NoHop \/ parent[a] = src THEN a ELSE parent[a]
<1>1. \A a \in Hop : Up(a) \in Hop
  OBVIOUS
<1>2. PICK h : Climbed(parent, src, d, h, NumNodes) /\ FirstHop(parent, src, d) = h[NumNodes]
  BY ClimbExists
<1> DEFINE Out == {k \in 0 .. NumNodes : h[k] \notin Hop}
<1>3. Out = {}
  <2> SUFFICES ASSUME Out # {} PROVE FALSE
    OBVIOUS
  <2>0. Out \in SUBSET Nat
    OBVIOUS
  <2>1. PICK k \in Out : \A l \in Out : k <= l
    <3> HIDE DEF Out
    <3> QED
      BY <2>0, LeastNatural
  <2>2. CASE k = 0
    BY <1>2, <2>2 DEF Climbed
  <2>3. CASE k # 0
    <3>1. k \in 0 .. NumNodes /\ k - 1 \in 0 .. NumNodes /\ ~ (k <= k - 1) /\ h[k] \notin Hop
      BY <2>3, RoutingAssumption
    <3>2. h[k - 1] \in Hop
      BY <2>1, <3>1
    <3>3. h[k] = Up(h[k - 1])
      BY <1>2, <2>3, <3>1 DEF Climbed
    <3> HIDE DEF Hop, Up
    <3> QED
      BY <1>1, <3>1, <3>2, <3>3
  <2> QED
    BY <2>2, <2>3
<1> QED
  BY <1>2, <1>3, RoutingAssumption

LEMMA TablesTyped ==
  ASSUME NEW m \in RoutingMetric, NEW ls, Topology(ls)
  PROVE  RoutingTables(m, ls) \in [Node -> [Node -> Node \union {NoHop}]]
<1>1. ASSUME NEW src \in Node
      PROVE  BuildRoutingTable(m, ls, src) \in [Node -> Node \union {NoHop}]
  <2> DEFINE result == BuildDijkstra(m, ls, src)
  <2>1. result.parent \in [Node -> Node \union {NoHop}]
    BY DijkstraTyped DEF SearchState
  <2> HIDE DEF result
  <2>2. \A d \in Node : FirstHop(result.parent, src, d) \in Node \union {NoHop}
    BY <2>1, FirstHopTyped
  <2> QED
    BY <2>2 DEF BuildRoutingTable, result
<1> QED
  BY <1>1 DEF RoutingTables

-----------------------------------------------------------------------------
(* The types that NetInv leaves open, and the count of the packets sent.   *)

TypeInv ==
  /\ metric \in Metrics
  /\ tables \in [Node -> [Node -> Node \union {NoHop}]]
  /\ packets \in 0 .. MaxPackets /\ changes \in 0 .. MaxChanges
  /\ stats.sent <= packets

LEMMA TopologyKnown == NetInv => Topology(links)
<1> SUFFICES ASSUME NetInv PROVE Topology(links)
  OBVIOUS
<1>1. nextId - 1 \in Nat /\ DOMAIN links \subseteq 1 .. nextId - 1
  BY DEF NetInv
<1>2. \A id \in DOMAIN links : links[id] \in LinkRecord
  BY DEF NetInv, GoodLinks, GoodLink
<1> QED
  BY <1>1, <1>2 DEF Topology

\* A packet is counted by its first hop, if at all.
LEMMA CountedOnFirstHop ==
  ASSUME NEW ls, NEW p, NEW t, NEW o \in SendOutcomes(ls, p, t)
  PROVE  o.sent \in {0, FirstHopCount(p)}
BY OutcomeCases DEF SentOver, Sending

LEMMA InitTypeInv == Init => TypeInv
<1> SUFFICES ASSUME Init PROVE TypeInv
  OBVIOUS
<1>1. metric \in RoutingMetric /\ Topology(links)
  BY InitNetInv, TopologyKnown, NetworkAssumption DEF Init
<1>2. tables \in [Node -> [Node -> Node \union {NoHop}]]
  BY <1>1, TablesTyped DEF Init
<1> QED
  BY <1>2, NetworkAssumption DEF Init, TypeInv, Stats

LEMMA SendKeepsTypes ==
  ASSUME NetInv, TypeInv, NEW f, NEW t, Send(f[1], f[2], t)
  PROVE  TypeInv'
<1> DEFINE p == NewPacket(f[1], f[2])
<1>1. PICK o \in SendOutcomes(links, p, t) :
        stats' = Stats(stats.sent + o.sent, stats.delivered, stats.lost + o.lost)
  BY DEF Send
<1>2. o.sent \in {0, 1}
  BY CountedOnFirstHop DEF FirstHopCount
<1>3. stats.sent \in Nat /\ packets \in Nat /\ stats.sent <= packets
  BY DEF NetInv, TypeInv
<1>4. stats'.sent <= packets + 1
  BY <1>1, <1>2, <1>3 DEF Stats
<1> QED
  BY <1>3, <1>4, NetworkAssumption DEF TypeInv, Send

LEMMA ArrivalKeepsTypes ==
  ASSUME NetInv, TypeInv, NEW i \in DOMAIN arrivals, Deliver(i) \/ Forward(i)
  PROVE  TypeInv'
<1>1. UNCHANGED <<metric, tables, packets, changes>>
  BY DEF Deliver, Forward
<1>2. CASE Deliver(i)
  BY <1>1, <1>2 DEF Deliver, TypeInv, Stats
<1>3. CASE Forward(i)
  <2> DEFINE p == arrivals[i]
  <2>1. PICK o \in SendOutcomes(Released(p), p, p.arrival) :
          stats' = Stats(stats.sent + o.sent, stats.delivered,
                         stats.lost + o.lost + ForwardingLoss(o))
    BY <1>3 DEF Forward
  <2>2. p \in Packet
    BY ElementOfSeq, LenProperties DEF NetInv
  <2>3. FirstHopCount(p) = 0
    BY <2>2 DEF Packet, FirstHopCount
  <2> HIDE DEF p
  <2>4. o.sent = 0
    BY <2>3, CountedOnFirstHop
  <2>5. stats'.sent = stats.sent
    BY <2>1, <2>4 DEF Stats, NetInv
  <2> QED
    BY <1>1, <2>5 DEF TypeInv
<1> QED
  BY <1>2, <1>3

LEMMA ChangeKeepsTypes ==
  ASSUME NetInv, NetInv', TypeInv, NEW t, ChangeTopology(t)
  PROVE  TypeInv'
<1>1. /\ Change(t) /\ metric' \in Metrics
      /\ tables' = RoutingTables(metric', links')
  BY DEF ChangeTopology, ToggleLinkUp, DeleteLink, DeleteNode, CreateLink,
         SetRoutingMetric, Rebuilt, TypeInv
<1>2. Topology(links')
  <2>1. Topology(links)'
    BY TopologyKnown, PTL
  <2> QED
    BY <2>1
<1>3. metric' \in RoutingMetric
  BY <1>1, NetworkAssumption
<1>4. tables' \in [Node -> [Node -> Node \union {NoHop}]]
  BY <1>1, <1>2, <1>3, TablesTyped
<1>5. changes' \in 0 .. MaxChanges /\ UNCHANGED <<stats, packets>>
  BY <1>1, NetworkAssumption DEF Change, packetVars, TypeInv
<1> QED
  BY <1>1, <1>4, <1>5 DEF TypeInv

LEMMA StepKeepsTypes == NetInv /\ NetInv' /\ TypeInv /\ [Next]_vars => TypeInv'
<1> SUFFICES ASSUME NetInv, NetInv', TypeInv, [Next]_vars
             PROVE  TypeInv'
  OBVIOUS
<1>1. CASE UNCHANGED vars
  BY <1>1 DEF vars, topologyVars, packetVars, TypeInv
<1>2. CASE Next
  BY <1>2, SendKeepsTypes, ArrivalKeepsTypes, ChangeKeepsTypes DEF Next, RunArrival
<1> QED
  BY <1>1, <1>2

(***************************************************************************)
(* Whatever links fail, go or come, the tables lead from nodes to nodes,   *)
(* buildDijkstra never reads a node that is not there, and a packet is     *)
(* counted as sent at most once, on its first hop (sendPacket).            *)
(***************************************************************************)
THEOREM NetworkTypeCorrect == Spec => []TypeOK
<1>1. Spec => [](NetInv /\ TypeInv)
  BY NetInvariance, InitTypeInv, StepKeepsTypes, PTL DEF Spec
<1>2. ASSUME NetInv, TypeInv
      PROVE  TypeOK
  <2>1. \A id \in DOMAIN links : links[id] \in LinkRecord
    BY <1>2 DEF NetInv, GoodLinks, GoodLink
  <2>2. stats \in [sent : 0 .. packets, delivered : Nat, lost : Nat]
    BY <1>2 DEF NetInv, TypeInv
  <2> QED
    BY <1>2, <2>1, <2>2 DEF NetInv, TypeInv, TypeOK
<1> QED
  BY <1>1, <1>2, PTL

-----------------------------------------------------------------------------
(* Distances: nothing is farther than Infinity, which is the greatest      *)
(* number there is for the search.                                         *)

Dist == 0 .. Infinity

\* No worse than.
AsGood(m, x, y) == ~ Better(m, y, x)

\* Combine, of a distance and a cost or of two distances, where nothing is
\* farther than Infinity.
Plus(m, x, y) ==
  IF Maximise(m) THEN IF y < x THEN y ELSE x
                 ELSE IF x + y < Infinity THEN x + y ELSE Infinity

LEMMA DistOrder ==
  ASSUME NEW m
  PROVE  /\ Zero(m) \in Dist /\ Worst(m) \in Dist /\ Zero(m) # Worst(m)
         /\ \A x \in Dist : AsGood(m, x, x) /\ AsGood(m, Zero(m), x) /\ AsGood(m, x, Worst(m))
         /\ \A x, y \in Dist : AsGood(m, x, y) /\ AsGood(m, y, x) => x = y
         /\ \A x, y, z \in Dist : AsGood(m, x, y) /\ AsGood(m, y, z) => AsGood(m, x, z)
BY RoutingAssumption DEF Dist, AsGood, Better, Zero, Worst

LEMMA AsGoodChain ==
  ASSUME NEW m, NEW x \in Dist, NEW y \in Dist, NEW z \in Dist,
         AsGood(m, x, y), AsGood(m, y, z)
  PROVE  AsGood(m, x, z)
BY DistOrder

LEMMA PlusLaws ==
  ASSUME NEW m
  PROVE  /\ \A x, y \in Dist : /\ Plus(m, x, y) \in Dist /\ AsGood(m, x, Plus(m, x, y))
                               /\ Plus(m, x, y) = Plus(m, y, x)
         /\ \A x \in Dist : Plus(m, Zero(m), x) = x /\ Plus(m, Worst(m), x) = Worst(m)
<1>1. CASE Maximise(m)
  BY <1>1, RoutingAssumption DEF Dist, AsGood, Better, Zero, Worst, Plus
<1>2. CASE ~ Maximise(m)
  BY <1>2, RoutingAssumption DEF Dist, AsGood, Better, Zero, Worst, Plus
<1> QED
  BY <1>1, <1>2

LEMMA PlusAssociative ==
  ASSUME NEW m, NEW x \in Dist, NEW y \in Dist, NEW z \in Dist
  PROVE  Plus(m, Plus(m, x, y), z) = Plus(m, x, Plus(m, y, z))
<1>1. CASE Maximise(m)
  BY <1>1, RoutingAssumption DEF Dist, Plus
<1>2. CASE ~ Maximise(m)
  BY <1>2, RoutingAssumption DEF Dist, Plus
<1> QED
  BY <1>1, <1>2

LEMMA PlusMonotone ==
  ASSUME NEW m, NEW x \in Dist, NEW y \in Dist, NEW z \in Dist, AsGood(m, x, y)
  PROVE  AsGood(m, Plus(m, x, z), Plus(m, y, z)) /\ AsGood(m, Plus(m, z, x), Plus(m, z, y))
<1>1. CASE Maximise(m)
  BY <1>1, RoutingAssumption DEF Dist, AsGood, Better, Plus
<1>2. CASE ~ Maximise(m)
  BY <1>2, RoutingAssumption DEF Dist, AsGood, Better, Plus
<1> QED
  BY <1>1, <1>2

\* What a candidate is when it is better than the distance there is.
LEMMA CombineIsPlus ==
  ASSUME NEW m, NEW x \in Dist, NEW c \in Dist, NEW z \in Dist
  PROVE  /\ Better(m, Combine(m, x, c), z)
              => Combine(m, x, c) = Plus(m, x, c) /\ AsGood(m, Plus(m, x, c), z)
         /\ ~ Better(m, Combine(m, x, c), z) => AsGood(m, z, Plus(m, x, c))
         /\ Plus(m, x, c) # Worst(m) => Combine(m, x, c) = Plus(m, x, c)
<1>1. CASE Maximise(m)
  BY <1>1, RoutingAssumption DEF Dist, AsGood, Better, Worst, Plus, Combine
<1>2. CASE ~ Maximise(m)
  BY <1>2, RoutingAssumption DEF Dist, AsGood, Better, Worst, Plus, Combine
<1> QED
  BY <1>1, <1>2

LEMMA PlusBelow ==
  ASSUME NEW m, NEW x \in Dist, NEW y \in Dist, NEW z \in Dist, NEW v \in Dist, NEW w \in Dist,
         AsGood(m, x, Plus(m, y, z)), AsGood(m, y, v), AsGood(m, z, w)
  PROVE  AsGood(m, x, Plus(m, v, w))
<1>1. /\ Plus(m, y, z) \in Dist /\ Plus(m, v, z) \in Dist /\ Plus(m, v, w) \in Dist
  BY PlusLaws
<1>2. AsGood(m, Plus(m, y, z), Plus(m, v, z)) /\ AsGood(m, Plus(m, v, z), Plus(m, v, w))
  BY PlusMonotone
<1>3. AsGood(m, x, Plus(m, v, z))
  BY <1>1, <1>2, AsGoodChain
<1> QED
  BY <1>1, <1>2, <1>3, AsGoodChain

-----------------------------------------------------------------------------
(* The distances of Floyd and Warshall: no longer than any way, and none   *)
(* shorter than what a closed assignment of distances allows.              *)

\* The costs of the links between two nodes.
Costs(m, ls, a, b) ==
  {LinkCost(m, ls[id]) : id \in {i \in DOMAIN ls : ls[i].up /\ Joins(ls[i], a, b)}}

Least(m, costs) == CHOOSE c \in costs : \A o \in costs : ~ Better(m, o, c)

Direct(m, ls, a, b) ==
  IF a = b THEN Zero(m)
  ELSE IF Costs(m, ls, a, b) = {} THEN Worst(m)
  ELSE Least(m, Costs(m, ls, a, b))

\* With u as one inner node more.
Mended(m, D, u) ==
  [a \in Node |-> [b \in Node |->
     IF Better(m, Combine(m, D[a][u], D[u][b]), D[a][b])
       THEN Combine(m, D[a][u], D[u][b]) ELSE D[a][b]]]

Surveying(m, ls, f, inner) ==
  IF inner = {} THEN [a \in Node |-> [b \in Node |-> Direct(m, ls, a, b)]]
  ELSE Mended(m, f[inner \ {CHOOSE n \in inner : TRUE}], CHOOSE n \in inner : TRUE)

Survey(m, ls, k, f) ==
  f = [inner \in {s \in SUBSET Node : Cardinality(s) <= k} |-> Surveying(m, ls, f, inner)]

LEMMA BestSurveyed ==
  ASSUME NEW m, NEW ls
  PROVE  BestDistances(m, ls)
           = (CHOOSE f : f = [inner \in SUBSET Node |-> Surveying(m, ls, f, inner)])[Node]
BY DEF BestDistances, Surveying, Mended, Direct, Least, Costs

LEMMA NodesFinite == IsFiniteSet(Node) /\ Cardinality(Node) = NumNodes
BY FS_Interval, RoutingAssumption DEF Node

LEMMA SurveyExists ==
  ASSUME NEW m, NEW ls, NEW k \in Nat
  PROVE  \E f : Survey(m, ls, k, f)
<1> DEFINE Sets(j) == {s \in SUBSET Node : Cardinality(s) <= j}
           Good(j) == \E f : Survey(m, ls, j, f)
           Bad == {j \in Nat : ~ Good(j)}
<1>0. \A s \in SUBSET Node : IsFiniteSet(s) /\ Cardinality(s) \in Nat
  BY NodesFinite, FS_Subset, FS_CardinalityType
<1>1. Good(0)
  <2> DEFINE base == [a \in Node |-> [b \in Node |-> Direct(m, ls, a, b)]]
             f == [s \in Sets(0) |-> base]
  <2>1. \A s \in Sets(0) : s = {}
    BY <1>0, FS_EmptySet
  <2>2. ASSUME NEW s \in Sets(0)
        PROVE  base = Surveying(m, ls, f, s)
    <3>1. s = {}
      BY <2>1
    <3> HIDE DEF f
    <3> QED
      BY <3>1 DEF Surveying
  <2> HIDE DEF base
  <2>3. f = [s \in Sets(0) |-> Surveying(m, ls, f, s)]
    BY <2>2
  <2> HIDE DEF f
  <2> QED
    BY <2>3 DEF Survey
<1>2. ASSUME NEW j \in Nat \ {0}, Good(j - 1)
      PROVE  Good(j)
  <2>1. PICK f : Survey(m, ls, j - 1, f)
    BY <1>2
  <2> DEFINE g == [s \in Sets(j) |-> Surveying(m, ls, f, s)]
  <2>2. ASSUME NEW s \in Sets(j)
        PROVE  Surveying(m, ls, f, s) = Surveying(m, ls, g, s)
    <3>1. CASE s = {}
      BY <3>1 DEF Surveying
    <3>2. CASE s # {}
      <4> DEFINE u == CHOOSE n \in s : TRUE
                 r == s \ {u}
      <4>1. u \in s
        BY <3>2
      <4> HIDE DEF u
      <4>2. /\ r \in SUBSET Node /\ Cardinality(r) \in Nat
            /\ Cardinality(r) = Cardinality(s) - 1 /\ Cardinality(s) \in Nat
        BY <1>0, <4>1, FS_RemoveElement
      <4>3. r \in Sets(j - 1) /\ r \in Sets(j)
        BY <2>2, <4>2
      <4> HIDE DEF r
      <4>4. f[r] = Surveying(m, ls, f, r)
        BY <2>1, <4>3 DEF Survey
      <4>5. g[r] = Surveying(m, ls, f, r)
        BY <4>3
      <4> HIDE DEF g
      <4> QED
        BY <4>4, <4>5 DEF Surveying, r, u
    <3> QED
      BY <3>1, <3>2
  <2>3. g = [s \in Sets(j) |-> Surveying(m, ls, g, s)]
    BY <2>2
  <2> HIDE DEF g
  <2> QED
    BY <2>3 DEF Survey
<1> HIDE DEF Good
<1>3. Bad = {}
  <2> SUFFICES ASSUME Bad # {} PROVE FALSE
    OBVIOUS
  <2>1. PICK j \in Bad : \A l \in Bad : j <= l
    BY LeastNatural
  <2>2. j \in Nat \ {0} /\ ~ Good(j)
    BY <1>1
  <2>3. j - 1 \in Nat /\ ~ (j <= j - 1)
    BY <2>2
  <2>4. Good(j - 1)
    BY <2>1, <2>3
  <2> QED
    BY <1>2, <2>2, <2>4
<1>4. Good(k)
  BY <1>3
<1> QED
  BY <1>4 DEF Good

\* Every cost is below Infinity.
Costed(m, ls) == \A id \in DOMAIN ls : LinkCost(m, ls[id]) \in Dist

\* Distances that no link can improve.
Closed(m, ls, x) ==
  \A a, b \in Node : \A c \in Costs(m, ls, a, b) : AsGood(m, x[b], Plus(m, x[a], c))

\* No farther than a link, and at most x[b] from x[a].
Bounded(m, ls, D) ==
  /\ \A a, b \in Node : \A c \in Costs(m, ls, a, b) : AsGood(m, D[a][b], c)
  /\ \A x \in [Node -> Dist] : Closed(m, ls, x) =>
       \A a, b \in Node : AsGood(m, x[b], Plus(m, x[a], D[a][b]))

\* No farther than the way by one of the inner nodes.
Straight(m, D, inner) ==
  \A a, b \in Node : \A u \in inner : AsGood(m, D[a][b], Plus(m, D[a][u], D[u][b]))

Surveyed(m, ls, D, inner) ==
  /\ D \in [Node -> [Node -> Dist]] /\ \A a \in Node : D[a][a] = Zero(m)
  /\ Bounded(m, ls, D) /\ Straight(m, D, inner)

LEMMA CostsInDist ==
  ASSUME NEW m, NEW ls, Costed(m, ls), NEW a, NEW b
  PROVE  Costs(m, ls, a, b) \in SUBSET Dist
BY DEF Costs, Costed

\* The best of some costs.
LEMMA BestCost ==
  ASSUME NEW m, NEW costs \in SUBSET Dist, costs # {}
  PROVE  \E c \in costs : \A o \in costs : ~ Better(m, o, c)
<1>1. \A c \in costs : c \in Nat /\ c <= Infinity /\ Infinity - c \in Nat
  BY RoutingAssumption DEF Dist
<1>2. CASE ~ Maximise(m)
  <2>1. PICK c \in costs : \A o \in costs : c <= o
    BY <1>1, LeastNatural
  <2>2. \A o \in costs : ~ (o < c)
    BY <1>1, <2>1
  <2> QED
    BY <1>2, <2>2 DEF Better
<1>3. CASE Maximise(m)
  <2> DEFINE Gaps == {Infinity - c : c \in costs}
  <2>1. Gaps \in SUBSET Nat /\ Gaps # {}
    BY <1>1
  <2>2. PICK g \in Gaps : \A h \in Gaps : g <= h
    <3> HIDE DEF Gaps
    <3> QED
      BY <2>1, LeastNatural
  <2>3. PICK c \in costs : g = Infinity - c
    BY <2>2
  <2>4. \A o \in costs : Infinity - c <= Infinity - o
    BY <2>2, <2>3
  <2>5. \A o \in costs : ~ (o > c)
    BY <1>1, <2>4, RoutingAssumption
  <2> QED
    BY <1>3, <2>5 DEF Better
<1> QED
  BY <1>2, <1>3

LEMMA DirectSurveyed ==
  ASSUME NEW m, NEW ls, Costed(m, ls)
  PROVE  Surveyed(m, ls, [a \in Node |-> [b \in Node |-> Direct(m, ls, a, b)]], {})
<1> DEFINE D == [a \in Node |-> [b \in Node |-> Direct(m, ls, a, b)]]
<1>1. ASSUME NEW a \in Node, NEW b \in Node
      PROVE  /\ Direct(m, ls, a, b) \in Dist
             /\ a = b => Direct(m, ls, a, b) = Zero(m)
             /\ a # b => \/ Direct(m, ls, a, b) \in Costs(m, ls, a, b)
                         \/ Direct(m, ls, a, b) = Worst(m)
             /\ \A c \in Costs(m, ls, a, b) : AsGood(m, Direct(m, ls, a, b), c)
  <2> DEFINE costs == Costs(m, ls, a, b)
  <2>1. costs \in SUBSET Dist
    BY CostsInDist
  <2>2. CASE a = b
    BY <2>1, <2>2, DistOrder DEF Direct
  <2>3. CASE a # b /\ costs = {}
    BY <2>3, DistOrder DEF Direct
  <2>4. CASE a # b /\ costs # {}
    <3>1. Direct(m, ls, a, b) = CHOOSE c \in costs : \A o \in costs : ~ Better(m, o, c)
      BY <2>4 DEF Direct, Least
    <3> HIDE DEF costs
    <3>2. /\ Direct(m, ls, a, b) \in costs
          /\ \A o \in costs : ~ Better(m, o, Direct(m, ls, a, b))
      BY <2>1, <2>4, <3>1, BestCost
    <3> QED
      BY <2>1, <2>4, <3>2 DEF AsGood, costs
  <2> QED
    BY <2>2, <2>3, <2>4
<1>2. \A a, b \in Node : D[a][b] = Direct(m, ls, a, b)
  OBVIOUS
<1>3. D \in [Node -> [Node -> Dist]]
  BY <1>1
<1> HIDE DEF D
<1>4. ASSUME NEW x \in [Node -> Dist], Closed(m, ls, x), NEW a \in Node, NEW b \in Node
      PROVE  AsGood(m, x[b], Plus(m, x[a], D[a][b]))
  <2>1. x[a] \in Dist /\ x[b] \in Dist /\ D[a][b] = Direct(m, ls, a, b) /\ D[a][b] \in Dist
    BY <1>1, <1>2
  <2>2. CASE a = b
    <3>1. Plus(m, x[a], D[a][b]) = x[a]
      BY <1>1, <2>1, <2>2, PlusLaws, DistOrder
    <3>2. AsGood(m, x[b], x[a])
      BY <2>1, <2>2, DistOrder
    <3> QED
      BY <3>1, <3>2
  <2>3. CASE D[a][b] \in Costs(m, ls, a, b)
    BY <1>4, <2>3 DEF Closed
  <2>4. CASE D[a][b] = Worst(m)
    <3>1. Plus(m, x[a], D[a][b]) = Worst(m)
      BY <2>1, <2>4, PlusLaws, DistOrder
    <3> QED
      BY <2>1, <3>1, DistOrder
  <2> QED
    BY <1>1, <2>1, <2>2, <2>3, <2>4
<1>5. Bounded(m, ls, D)
  <2>1. \A a, b \in Node : \A c \in Costs(m, ls, a, b) : AsGood(m, D[a][b], c)
    BY <1>1, <1>2
  <2> QED
    BY <1>4, <2>1 DEF Bounded
<1>6. Surveyed(m, ls, D, {})
  BY <1>1, <1>2, <1>3, <1>5 DEF Surveyed, Straight
<1> QED
  BY <1>6 DEF D

\* An entry of the distances with one inner node more.
MendedEntry(m, D, u, e, a, b) ==
  /\ e \in Dist /\ e \in {D[a][b], Plus(m, D[a][u], D[u][b])}
  /\ AsGood(m, e, D[a][b]) /\ AsGood(m, e, Plus(m, D[a][u], D[u][b]))

LEMMA EntriesMended ==
  ASSUME NEW m, NEW D \in [Node -> [Node -> Dist]], NEW u \in Node
  PROVE  /\ Mended(m, D, u) \in [Node -> [Node -> Dist]]
         /\ \A a, b \in Node : MendedEntry(m, D, u, Mended(m, D, u)[a][b], a, b)
<1> DEFINE E == Mended(m, D, u)
<1>1. ASSUME NEW a \in Node, NEW b \in Node
      PROVE  MendedEntry(m, D, u, E[a][b], a, b)
  <2> DEFINE way == Combine(m, D[a][u], D[u][b])
  <2>1. D[a][u] \in Dist /\ D[u][b] \in Dist /\ D[a][b] \in Dist
    OBVIOUS
  <2>2. Plus(m, D[a][u], D[u][b]) \in Dist
    BY <2>1, PlusLaws
  <2>3. E[a][b] = IF Better(m, way, D[a][b]) THEN way ELSE D[a][b]
    BY DEF Mended
  <2> HIDE DEF way, E
  <2>4. CASE Better(m, way, D[a][b])
    <3>1. way = Plus(m, D[a][u], D[u][b]) /\ AsGood(m, way, D[a][b])
      BY <2>1, <2>4, CombineIsPlus DEF way
    <3> DEFINE entry == E[a][b]
    <3>2. entry = way /\ entry \in Dist /\ entry = Plus(m, D[a][u], D[u][b])
      BY <2>2, <2>3, <2>4, <3>1
    <3> HIDE DEF entry
    <3>3. AsGood(m, entry, entry)
      BY <3>2, DistOrder
    <3>4. AsGood(m, entry, Plus(m, D[a][u], D[u][b]))
      BY <3>2, <3>3
    <3> QED
      BY <3>1, <3>2, <3>4 DEF entry, MendedEntry
  <2>5. CASE ~ Better(m, way, D[a][b])
    <3>1. AsGood(m, D[a][b], Plus(m, D[a][u], D[u][b]))
      BY <2>1, <2>5, CombineIsPlus DEF way
    <3> QED
      BY <2>1, <2>3, <2>5, <3>1, DistOrder DEF MendedEntry
  <2> QED
    BY <2>4, <2>5
<1>2. \A a, b \in Node : E[a][b] \in Dist
  BY <1>1 DEF MendedEntry
<1>3. E \in [Node -> [Node -> Dist]]
  BY <1>2 DEF Mended
<1> QED
  BY <1>1, <1>3

\* One more inner node, and no way by any of them is shorter.
LEMMA MendedStraight ==
  ASSUME NEW m, NEW D \in [Node -> [Node -> Dist]], NEW inner \in SUBSET Node, NEW u \in Node,
         \A a \in Node : D[a][a] = Zero(m), Straight(m, D, inner)
  PROVE  /\ \A a \in Node : Mended(m, D, u)[a][a] = Zero(m)
         /\ Straight(m, Mended(m, D, u), inner \union {u})
<1> DEFINE E == Mended(m, D, u)
<1>1. /\ E \in [Node -> [Node -> Dist]]
      /\ \A a, b \in Node : MendedEntry(m, D, u, E[a][b], a, b)
  BY EntriesMended
<1> HIDE DEF E
<1>2. ASSUME NEW a \in Node
      PROVE  E[a][a] = Zero(m)
  <2>1. MendedEntry(m, D, u, E[a][a], a, a) /\ D[a][a] = Zero(m)
    BY <1>1
  <2> QED
    BY <2>1, DistOrder DEF MendedEntry
\* The ways to u and from u are as short as they were.
<1>3. ASSUME NEW a \in Node
      PROVE  E[a][u] = D[a][u] /\ E[u][a] = D[u][a]
  <2>1. D[a][u] \in Dist /\ D[u][a] \in Dist /\ D[u][u] = Zero(m)
    OBVIOUS
  <2>2. Plus(m, D[a][u], D[u][u]) = D[a][u] /\ Plus(m, D[u][u], D[u][a]) = D[u][a]
    BY <2>1, PlusLaws, DistOrder
  <2>3. MendedEntry(m, D, u, E[a][u], a, u) /\ MendedEntry(m, D, u, E[u][a], u, a)
    BY <1>1
  <2> QED
    BY <2>2, <2>3 DEF MendedEntry
<1>4. ASSUME NEW a \in Node, NEW b \in Node, NEW w \in inner
      PROVE  AsGood(m, E[a][b], Plus(m, E[a][w], E[w][b]))
  <2> DEFINE au == D[a][u]
             ub == D[u][b]
             aw == D[a][w]
             wb == D[w][b]
             uw == D[u][w]
             wu == D[w][u]
  <2>1. /\ w \in Node /\ au \in Dist /\ ub \in Dist /\ aw \in Dist /\ wb \in Dist
        /\ uw \in Dist /\ wu \in Dist
    OBVIOUS
  <2>2. /\ AsGood(m, D[a][b], Plus(m, aw, wb)) /\ AsGood(m, ub, Plus(m, uw, wb))
        /\ AsGood(m, au, Plus(m, aw, wu)) /\ D[a][b] \in Dist
    BY <2>1 DEF Straight
  <2>3. /\ MendedEntry(m, D, u, E[a][b], a, b) /\ MendedEntry(m, D, u, E[a][w], a, w)
        /\ MendedEntry(m, D, u, E[w][b], w, b)
    BY <1>1, <2>1
  <2>4. /\ E[a][b] \in Dist /\ AsGood(m, E[a][b], D[a][b])
        /\ AsGood(m, E[a][b], Plus(m, au, ub))
        /\ E[a][w] \in {aw, Plus(m, au, uw)} /\ E[w][b] \in {wb, Plus(m, wu, ub)}
    BY <2>3 DEF MendedEntry
  <2> HIDE DEF au, ub, aw, wb, uw, wu
  <2>5. CASE E[a][w] = aw /\ E[w][b] = wb
    <3>1. Plus(m, aw, wb) \in Dist
      BY <2>1, PlusLaws
    <3> QED
      BY <2>2, <2>4, <2>5, <3>1, DistOrder
  <2>6. CASE E[a][w] = Plus(m, au, uw) /\ E[w][b] = wb
    <3>1. /\ Plus(m, au, uw) \in Dist /\ Plus(m, uw, wb) \in Dist
          /\ Plus(m, Plus(m, au, uw), wb) = Plus(m, au, Plus(m, uw, wb))
      BY <2>1, PlusLaws, PlusAssociative
    <3>2. AsGood(m, E[a][b], Plus(m, au, Plus(m, uw, wb)))
      BY <2>1, <2>2, <2>4, <3>1, DistOrder, PlusBelow
    <3> QED
      BY <2>6, <3>1, <3>2
  <2>7. CASE E[a][w] = aw /\ E[w][b] = Plus(m, wu, ub)
    <3>1. /\ Plus(m, wu, ub) \in Dist /\ Plus(m, aw, wu) \in Dist
          /\ Plus(m, Plus(m, aw, wu), ub) = Plus(m, aw, Plus(m, wu, ub))
      BY <2>1, PlusLaws, PlusAssociative
    <3>2. AsGood(m, E[a][b], Plus(m, Plus(m, aw, wu), ub))
      BY <2>1, <2>2, <2>4, <3>1, DistOrder, PlusBelow
    <3> QED
      BY <2>7, <3>1, <3>2
  <2>8. CASE E[a][w] = Plus(m, au, uw) /\ E[w][b] = Plus(m, wu, ub)
    <3>1. /\ Plus(m, au, uw) \in Dist /\ Plus(m, wu, ub) \in Dist
          /\ AsGood(m, au, Plus(m, au, uw)) /\ AsGood(m, ub, Plus(m, wu, ub))
      <4>1. Plus(m, wu, ub) = Plus(m, ub, wu) /\ AsGood(m, ub, Plus(m, ub, wu))
        BY <2>1, PlusLaws
      <4> QED
        BY <2>1, <4>1, PlusLaws
    <3>2. AsGood(m, E[a][b], Plus(m, Plus(m, au, uw), Plus(m, wu, ub)))
      BY <2>1, <2>4, <3>1, PlusBelow
    <3> QED
      BY <2>8, <3>2
  <2> QED
    BY <2>4, <2>5, <2>6, <2>7, <2>8
<1>5. ASSUME NEW a \in Node, NEW b \in Node
      PROVE  AsGood(m, E[a][b], Plus(m, E[a][u], E[u][b]))
  <2>1. MendedEntry(m, D, u, E[a][b], a, b)
    BY <1>1
  <2>2. E[a][u] = D[a][u] /\ E[u][b] = D[u][b]
    BY <1>3
  <2> QED
    BY <2>1, <2>2 DEF MendedEntry
<1>6. Straight(m, E, inner \union {u})
  BY <1>4, <1>5 DEF Straight
<1> QED
  BY <1>2, <1>6 DEF E

LEMMA MendedBounded ==
  ASSUME NEW m, NEW ls, Costed(m, ls), NEW D \in [Node -> [Node -> Dist]], NEW u \in Node,
         Bounded(m, ls, D)
  PROVE  Bounded(m, ls, Mended(m, D, u))
<1> DEFINE E == Mended(m, D, u)
<1>1. /\ E \in [Node -> [Node -> Dist]]
      /\ \A a, b \in Node : MendedEntry(m, D, u, E[a][b], a, b)
  BY EntriesMended
<1> HIDE DEF E
<1>2. ASSUME NEW a \in Node, NEW b \in Node, NEW c \in Costs(m, ls, a, b)
      PROVE  AsGood(m, E[a][b], c)
  <2>1. AsGood(m, D[a][b], c) /\ MendedEntry(m, D, u, E[a][b], a, b) /\ c \in Dist
    BY <1>1, CostsInDist DEF Bounded
  <2>2. D[a][b] \in Dist
    OBVIOUS
  <2> QED
    BY <2>1, <2>2, DistOrder DEF MendedEntry
<1>3. ASSUME NEW x \in [Node -> Dist], Closed(m, ls, x), NEW a \in Node, NEW b \in Node
      PROVE  AsGood(m, x[b], Plus(m, x[a], E[a][b]))
  <2> DEFINE au == D[a][u]
             ub == D[u][b]
             xa == x[a]
             xb == x[b]
             xu == x[u]
  <2>1. /\ xa \in Dist /\ xb \in Dist /\ xu \in Dist
        /\ au \in Dist /\ ub \in Dist /\ D[a][b] \in Dist
    OBVIOUS
  <2>2. /\ AsGood(m, xb, Plus(m, xa, D[a][b]))
        /\ AsGood(m, xb, Plus(m, xu, ub)) /\ AsGood(m, xu, Plus(m, xa, au))
    BY <1>3 DEF Bounded
  <2>3. E[a][b] = D[a][b] \/ E[a][b] = Plus(m, au, ub)
    BY <1>1 DEF MendedEntry
  <2> HIDE DEF au, ub, xa, xb, xu
  <2>4. /\ Plus(m, xa, au) \in Dist
        /\ Plus(m, Plus(m, xa, au), ub) = Plus(m, xa, Plus(m, au, ub))
    <3>1. xa \in Dist /\ au \in Dist /\ ub \in Dist
      BY <2>1
    <3>2. Plus(m, xa, au) \in Dist
      BY <3>1, PlusLaws
    <3>3. Plus(m, Plus(m, xa, au), ub) = Plus(m, xa, Plus(m, au, ub))
      BY <3>1, PlusAssociative
    <3> QED
      BY <3>2, <3>3
  <2>5. AsGood(m, xb, Plus(m, Plus(m, xa, au), ub))
    <3>1. /\ xb \in Dist /\ xu \in Dist /\ ub \in Dist /\ Plus(m, xa, au) \in Dist
          /\ AsGood(m, xb, Plus(m, xu, ub)) /\ AsGood(m, xu, Plus(m, xa, au))
      BY <2>1, <2>2, <2>4
    <3>2. AsGood(m, ub, ub)
      BY <3>1, DistOrder
    <3> QED
      BY <3>1, <3>2, PlusBelow
  <2>6. AsGood(m, xb, Plus(m, xa, E[a][b]))
    BY <2>2, <2>3, <2>4, <2>5
  <2> QED
    BY <2>6 DEF xa, xb
<1>4. Bounded(m, ls, E)
  BY <1>2, <1>3 DEF Bounded
<1> QED
  BY <1>4 DEF E

LEMMA MendedSurveyed ==
  ASSUME NEW m, NEW ls, Costed(m, ls), NEW D, NEW inner \in SUBSET Node, NEW u \in Node,
         Surveyed(m, ls, D, inner)
  PROVE  Surveyed(m, ls, Mended(m, D, u), inner \union {u})
<1>1. /\ D \in [Node -> [Node -> Dist]] /\ \A a \in Node : D[a][a] = Zero(m)
      /\ Bounded(m, ls, D) /\ Straight(m, D, inner)
  BY DEF Surveyed
<1>2. Mended(m, D, u) \in [Node -> [Node -> Dist]]
  BY <1>1, EntriesMended
<1>3. /\ \A a \in Node : Mended(m, D, u)[a][a] = Zero(m)
      /\ Straight(m, Mended(m, D, u), inner \union {u})
  BY <1>1, MendedStraight
<1>4. Bounded(m, ls, Mended(m, D, u))
  BY <1>1, MendedBounded
<1> QED
  BY <1>2, <1>3, <1>4 DEF Surveyed

LEMMA BestDistancesSurveyed ==
  ASSUME NEW m, NEW ls, Costed(m, ls)
  PROVE  Surveyed(m, ls, BestDistances(m, ls), Node)
<1> DEFINE Rec(f) == f = [inner \in SUBSET Node |-> Surveying(m, ls, f, inner)]
           h == CHOOSE f : Rec(f)
<1>0. \A s \in SUBSET Node : /\ IsFiniteSet(s) /\ Cardinality(s) \in Nat
                             /\ Cardinality(s) <= NumNodes
  BY NodesFinite, FS_Subset, FS_CardinalityType
<1>1. Rec(h)
  <2>1. PICK f : Survey(m, ls, NumNodes, f)
    BY SurveyExists, RoutingAssumption
  <2>2. {s \in SUBSET Node : Cardinality(s) <= NumNodes} = SUBSET Node
    BY <1>0
  <2>3. Rec(f)
    BY <2>1, <2>2 DEF Survey
  <2> HIDE DEF Rec
  <2> QED
    BY <2>3
<1>2. BestDistances(m, ls) = h[Node]
  BY BestSurveyed
<1> HIDE DEF h
<1>3. \A s \in SUBSET Node : h[s] = Surveying(m, ls, h, s)
  BY <1>1
<1> HIDE DEF Rec
<1> DEFINE Wrong(s) == ~ Surveyed(m, ls, h[s], s)
           Bad == {k \in Nat : \E s \in SUBSET Node : Cardinality(s) = k /\ Wrong(s)}
<1>4. Bad = {}
  <2> SUFFICES ASSUME Bad # {} PROVE FALSE
    OBVIOUS
  <2>1. PICK k \in Bad : \A l \in Bad : k <= l
    BY LeastNatural
  <2>2. PICK s \in SUBSET Node : Cardinality(s) = k /\ Wrong(s)
    BY <2>1
  <2>3. s # {}
    <3>1. ASSUME s = {} PROVE FALSE
      <4>1. h[s] = [a \in Node |-> [b \in Node |-> Direct(m, ls, a, b)]]
        BY <1>3, <3>1 DEF Surveying
      <4> QED
        BY <2>2, <3>1, <4>1, DirectSurveyed
    <3> QED
      BY <3>1
  <2> DEFINE u == CHOOSE n \in s : TRUE
             r == s \ {u}
  <2>4. u \in s /\ u \in Node
    BY <2>3
  <2>5. h[s] = Mended(m, h[r], u)
    BY <1>3, <2>3 DEF Surveying
  <2> HIDE DEF u
  <2>6. r \in SUBSET Node /\ r \union {u} = s
    BY <2>4
  <2>7. Cardinality(r) \in Nat /\ ~ (k <= Cardinality(r))
    <3>1. Cardinality(r) = Cardinality(s) - 1
      BY <1>0, <2>4, FS_RemoveElement
    <3> QED
      BY <1>0, <2>2, <2>6, <3>1
  <2> HIDE DEF r
  <2>8. ~ Wrong(r)
    <3>1. Cardinality(r) \notin Bad
      BY <2>1, <2>7
    <3> HIDE DEF Wrong
    <3> QED
      BY <2>6, <2>7, <3>1
  <2>9. Surveyed(m, ls, h[s], s)
    BY <2>4, <2>5, <2>6, <2>8, MendedSurveyed
  <2> QED
    BY <2>2, <2>9
<1>5. ~ Wrong(Node)
  <2>1. Cardinality(Node) \in Nat /\ Node \in SUBSET Node
    BY <1>0
  <2> HIDE DEF Wrong
  <2> QED
    BY <1>4, <2>1
<1> QED
  BY <1>2, <1>5

-----------------------------------------------------------------------------
(* The search of Dijkstra.                                                 *)

SearchInDist ==
  [dist : [Node -> Dist], parent : [Node -> Node \union {NoHop}], heap : Seq(Dist \X Node)]

\* Every entry is as far as any node of X, and leads to all the others.
Frontier(m, s, X) ==
  /\ \A i \in DOMAIN s.heap : \A v \in X : AsGood(m, s.dist[v], s.heap[i][1])
  /\ \A v \in Node \ X : s.dist[v] # Worst(m) =>
       \E i \in DOMAIN s.heap : s.heap[i] = <<s.dist[v], v>>

\* No link of a node of X improves a distance.
Settled(m, ls, s, X) ==
  \A u \in X : \A v \in Node : \A c \in Costs(m, ls, u, v) :
    AsGood(m, s.dist[v], Plus(m, s.dist[u], c))

\* The last link of the way to v leads from a node of X, expanded before v.
Reached(m, ls, s, X, rank, v) ==
  /\ s.parent[v] \in X
  /\ v \in X => rank[s.parent[v]] < rank[v]
  /\ \E c \in Costs(m, ls, s.parent[v], v) : s.dist[v] = Plus(m, s.dist[s.parent[v]], c)

Tree(m, ls, src, s, X, rank) ==
  /\ s.dist[src] = Zero(m)
  /\ \A v \in Node \ {src} : s.dist[v] # Worst(m) => Reached(m, ls, s, X, rank, v)

\* The way to v leads by the node of X that offered the distance of v first.
Earliest(m, ls, src, s, X, rank) ==
  \A v \in Node \ {src} : s.dist[v] # Worst(m) =>
    \A u \in X : \A c \in Costs(m, ls, u, v) :
      s.dist[v] = Plus(m, s.dist[u], c)
        => s.parent[v] = u \/ rank[s.parent[v]] < rank[u]

\* When t was expanded it came first in the heap: q had offered v a distance
\* by then, and v was not expanded.
FirstServed(m, ls, s, X, rank) ==
  \A t, q \in X : rank[q] < rank[t] =>
    \A v \in Node : (v \notin X \/ rank[t] <= rank[v]) =>
      \A c \in Costs(m, ls, q, v) : Plus(m, s.dist[q], c) # Worst(m) =>
        Precedes(m, <<s.dist[t], t>>, <<Plus(m, s.dist[q], c), v>>)

Ordered(m, ls, src, s, X, rank) ==
  Earliest(m, ls, src, s, X, rank) /\ FirstServed(m, ls, s, X, rank)

\* In the middle of the expansion of u: t are the links relaxed so far, len is
\* the length of the heap before.
Expanding(m, ls, src, X, rank, u, len, t, r) ==
  /\ Frontier(m, r, X) /\ Settled(m, ls, r, X \ {u}) /\ Tree(m, ls, src, r, X, rank)
  /\ Ordered(m, ls, src, r, X, rank)
  /\ \A v \in X : AsGood(m, r.dist[v], r.dist[u])
  /\ \A id \in t :
       AsGood(m, r.dist[OtherNode(ls[id], u)], Plus(m, r.dist[u], LinkCost(m, ls[id])))
  /\ Len(r.heap) <= len + Cardinality(t)

LEMMA OtherCost ==
  ASSUME NEW m, NEW ls, NEW u \in Node, NEW id \in UpLinks(ls, u), ls[id] \in LinkRecord
  PROVE  /\ OtherNode(ls[id], u) \in Node
         /\ LinkCost(m, ls[id]) \in Costs(m, ls, u, OtherNode(ls[id], u))
<1>1. /\ id \in DOMAIN ls /\ ls[id].up /\ u \in {ls[id].a, ls[id].b}
      /\ ls[id].a \in Node /\ ls[id].b \in Node
  BY DEF UpLinks, TouchesNode, LinkRecord, LinkRecords
<1>2. Joins(ls[id], u, OtherNode(ls[id], u))
  BY <1>1 DEF Joins, OtherNode
<1> QED
  BY <1>1, <1>2 DEF Costs, OtherNode

LEMMA CostOver ==
  ASSUME NEW m, NEW ls, NEW u, NEW v, NEW c \in Costs(m, ls, u, v)
  PROVE  \E id \in UpLinks(ls, u) : OtherNode(ls[id], u) = v /\ LinkCost(m, ls[id]) = c
<1>1. PICK id \in DOMAIN ls : ls[id].up /\ Joins(ls[id], u, v) /\ LinkCost(m, ls[id]) = c
  BY DEF Costs
<1>2. u \in {ls[id].a, ls[id].b} /\ v = IF u = ls[id].a THEN ls[id].b ELSE ls[id].a
  BY <1>1 DEF Joins
<1> QED
  BY <1>1, <1>2 DEF UpLinks, TouchesNode, OtherNode

\* The way to v leads by u now.
Improved(r, u, v, d) ==
  [dist |-> [r.dist EXCEPT ![v] = d], parent |-> [r.parent EXCEPT ![v] = u],
   heap |-> Append(r.heap, <<d, v>>)]

\* e is r with the way to v by u.
Improves(r, e, u, v, d) ==
  /\ e.dist[v] = d /\ e.parent[v] = u
  /\ \A w \in Node \ {v} : e.dist[w] = r.dist[w] /\ e.parent[w] = r.parent[w]
  /\ Len(r.heap) \in Nat /\ Len(e.heap) = Len(r.heap) + 1
  /\ DOMAIN r.heap = 1 .. Len(r.heap) /\ DOMAIN e.heap = 1 .. Len(r.heap) + 1
  /\ \A i \in 1 .. Len(r.heap) : e.heap[i] = r.heap[i]
  /\ e.heap[Len(r.heap) + 1] = <<d, v>>

LEMMA ImprovedState ==
  ASSUME NEW r \in SearchInDist, NEW u \in Node, NEW v \in Node, NEW d \in Dist
  PROVE  Improved(r, u, v, d) \in SearchInDist /\ Improves(r, Improved(r, u, v, d), u, v, d)
<1> DEFINE heap == Append(r.heap, <<d, v>>)
<1>1. /\ r.dist \in [Node -> Dist] /\ r.parent \in [Node -> Node \union {NoHop}]
      /\ r.heap \in Seq(Dist \X Node)
  BY DEF SearchInDist
<1>2. /\ heap \in Seq(Dist \X Node) /\ Len(heap) = Len(r.heap) + 1 /\ Len(r.heap) \in Nat
      /\ DOMAIN r.heap = 1 .. Len(r.heap) /\ DOMAIN heap = 1 .. Len(r.heap) + 1
      /\ \A i \in 1 .. Len(r.heap) : heap[i] = r.heap[i]
      /\ heap[Len(r.heap) + 1] = <<d, v>>
  BY <1>1, AppendProperties, LenProperties
<1> DEFINE e == Improved(r, u, v, d)
<1>3. /\ e.dist = [r.dist EXCEPT ![v] = d] /\ e.parent = [r.parent EXCEPT ![v] = u]
      /\ e.heap = heap
      /\ e = [dist |-> e.dist, parent |-> e.parent, heap |-> e.heap]
  BY DEF Improved
<1> HIDE DEF heap, e
<1>4. e.dist \in [Node -> Dist] /\ e.parent \in [Node -> Node \union {NoHop}]
  BY <1>1, <1>3
<1>5. e \in SearchInDist
  BY <1>2, <1>3, <1>4 DEF SearchInDist
<1>6. /\ e.dist[v] = d /\ e.parent[v] = u
      /\ \A w \in Node \ {v} : e.dist[w] = r.dist[w] /\ e.parent[w] = r.parent[w]
  BY <1>1, <1>3
<1>7. Improves(r, e, u, v, d)
  BY <1>2, <1>3, <1>6 DEF Improves
<1> QED
  BY <1>5, <1>7 DEF e

\* A distance that is improved was worse than that of the node expanded, so
\* it is that of a node still to be expanded.
LEMMA OnlyAheadImproved ==
  ASSUME NEW m, NEW x \in Dist, NEW y \in Dist, NEW c \in Dist,
         Better(m, Combine(m, x, c), y)
  PROVE  /\ Combine(m, x, c) = Plus(m, x, c) /\ Plus(m, x, c) \in Dist
         /\ AsGood(m, Plus(m, x, c), y) /\ AsGood(m, x, Plus(m, x, c))
         /\ ~ AsGood(m, y, Plus(m, x, c)) /\ ~ AsGood(m, y, x) /\ y # Zero(m)
<1> DEFINE d == Plus(m, x, c)
<1>1. d \in Dist /\ AsGood(m, x, d)
  BY PlusLaws
<1>2. Combine(m, x, c) = d /\ AsGood(m, d, y)
  BY CombineIsPlus
<1>3. ~ AsGood(m, y, d)
  BY <1>2 DEF AsGood
<1> HIDE DEF d
<1>4. ~ AsGood(m, y, x)
  BY <1>1, <1>3, DistOrder
<1>5. AsGood(m, Zero(m), d)
  BY <1>1, DistOrder
<1>6. y # Zero(m)
  BY <1>3, <1>5
<1> QED
  BY <1>1, <1>2, <1>3, <1>4, <1>6 DEF d

LEMMA SameOrdered ==
  ASSUME NEW m, NEW ls, NEW src, NEW s, NEW p, NEW X, NEW rank,
         p.dist = s.dist, p.parent = s.parent, Ordered(m, ls, src, s, X, rank)
  PROVE  Ordered(m, ls, src, p, X, rank)
BY DEF Ordered, Earliest, FirstServed

\* Only u offers the new distance of v.
LEMMA ImprovedOrdered ==
  ASSUME NEW m, NEW ls, NEW src, NEW X \in SUBSET Node, NEW rank, NEW u \in X, NEW r, NEW e,
         NEW v \in Node \ X, NEW d, Improves(r, e, u, v, d), ~ AsGood(m, r.dist[v], d),
         Settled(m, ls, r, X \ {u}), Ordered(m, ls, src, r, X, rank)
  PROVE  Ordered(m, ls, src, e, X, rank)
<1>1. \A w \in X : e.dist[w] = r.dist[w]
  BY DEF Improves
<1>2. ASSUME NEW w \in Node \ {src}, e.dist[w] # Worst(m), NEW q \in X,
             NEW c \in Costs(m, ls, q, w), e.dist[w] = Plus(m, e.dist[q], c)
      PROVE  e.parent[w] = q \/ rank[e.parent[w]] < rank[q]
  <2>1. e.dist[q] = r.dist[q]
    BY <1>1
  <2>2. CASE w = v
    <3>1. e.dist[v] = d /\ e.parent[v] = u
      BY DEF Improves
    <3>2. CASE q = u
      BY <2>2, <3>1, <3>2
    <3>3. CASE q # u
      <4>1. AsGood(m, r.dist[v], Plus(m, r.dist[q], c))
        BY <2>2, <3>3 DEF Settled
      <4> QED
        BY <1>2, <2>1, <2>2, <3>1, <4>1
    <3> QED
      BY <3>2, <3>3
  <2>3. CASE w # v
    <3>1. e.dist[w] = r.dist[w] /\ e.parent[w] = r.parent[w]
      BY <2>3 DEF Improves
    <3> QED
      BY <1>2, <2>1, <3>1 DEF Ordered, Earliest
  <2> QED
    BY <2>2, <2>3
<1>3. Earliest(m, ls, src, e, X, rank)
  BY <1>2 DEF Earliest
<1>4. FirstServed(m, ls, e, X, rank)
  BY <1>1 DEF Ordered, FirstServed
<1> QED
  BY <1>3, <1>4 DEF Ordered

LEMMA RelaxExpands ==
  ASSUME NEW m, NEW ls, Costed(m, ls), NEW src \in Node, NEW X \in SUBSET Node, NEW rank,
         NEW u \in X, NEW len \in Nat, NEW t \in SUBSET UpLinks(ls, u), IsFiniteSet(t),
         \A k \in t : ls[k] \in LinkRecord, NEW id \in t, NEW r \in SearchInDist,
         Expanding(m, ls, src, X, rank, u, len, t \ {id}, r)
  PROVE  /\ Relax(m, ls, r, u, id) \in SearchInDist
         /\ Expanding(m, ls, src, X, rank, u, len, t, Relax(m, ls, r, u, id))
<1> DEFINE v == OtherNode(ls[id], u)
           c == LinkCost(m, ls[id])
           x == r.dist[u]
           y == r.dist[v]
           d == Plus(m, x, c)
           e == Improved(r, u, v, d)
<1>1. u \in Node /\ v \in Node /\ c \in Costs(m, ls, u, v) /\ c \in Dist
  <2>1. u \in Node /\ id \in UpLinks(ls, u) /\ ls[id] \in LinkRecord
    OBVIOUS
  <2>2. v \in Node /\ c \in Costs(m, ls, u, v)
    BY <2>1, OtherCost
  <2> HIDE DEF v, c
  <2> QED
    BY <2>1, <2>2, CostsInDist
<1>2. /\ x \in Dist /\ y \in Dist /\ r.dist[src] = Zero(m)
      /\ \A w \in Node : r.dist[w] \in Dist
      /\ \A w \in X : AsGood(m, r.dist[w], x)
  BY <1>1 DEF SearchInDist, Expanding, Tree
<1>3. /\ Cardinality(t \ {id}) = Cardinality(t) - 1 /\ Cardinality(t) \in Nat
      /\ Len(r.heap) \in Nat
  BY FS_RemoveElement, FS_CardinalityType, LenProperties DEF SearchInDist
<1>4. Relax(m, ls, r, u, id)
        = IF Better(m, Combine(m, x, c), y) THEN Improved(r, u, v, Combine(m, x, c)) ELSE r
  BY DEF Relax, Improved
<1> HIDE DEF v, c
<1>5. CASE ~ Better(m, Combine(m, x, c), y)
  <2>1. AsGood(m, y, Plus(m, x, c))
    BY <1>1, <1>2, <1>5, CombineIsPlus
  <2>2. \A k \in t : AsGood(m, r.dist[OtherNode(ls[k], u)],
                            Plus(m, r.dist[u], LinkCost(m, ls[k])))
    BY <2>1 DEF Expanding, v, c
  <2>3. Len(r.heap) <= len + Cardinality(t)
    BY <1>3 DEF Expanding
  <2>4. Relax(m, ls, r, u, id) = r
    BY <1>4, <1>5
  <2>5. /\ Frontier(m, r, X) /\ Settled(m, ls, r, X \ {u}) /\ Tree(m, ls, src, r, X, rank)
        /\ Ordered(m, ls, src, r, X, rank) /\ \A w \in X : AsGood(m, r.dist[w], r.dist[u])
    BY DEF Expanding
  <2>6. Expanding(m, ls, src, X, rank, u, len, t, r)
    BY <2>2, <2>3, <2>5 DEF Expanding
  <2> QED
    BY <2>4, <2>6
<1>6. CASE Better(m, Combine(m, x, c), y)
  <2>1. /\ Combine(m, x, c) = d /\ d \in Dist /\ AsGood(m, d, y) /\ AsGood(m, x, d)
        /\ v \notin X /\ v # src /\ ~ AsGood(m, y, d)
    <3> HIDE DEF x, y
    <3>1. /\ Combine(m, x, c) = d /\ d \in Dist /\ AsGood(m, d, y) /\ AsGood(m, x, d)
          /\ ~ AsGood(m, y, d) /\ ~ AsGood(m, y, x) /\ y # Zero(m)
      BY <1>1, <1>2, <1>6, OnlyAheadImproved
    <3>2. v \notin X /\ v # src
      BY <1>2, <3>1 DEF y
    <3> QED
      BY <3>1, <3>2
  <2>2. Relax(m, ls, r, u, id) = e
    BY <1>4, <1>6, <2>1
  <2>3. e \in SearchInDist /\ Improves(r, e, u, v, d)
    BY <1>1, <2>1, ImprovedState
  <2> HIDE DEF d, e, x, y
  <2>4. /\ \A w \in Node : e.dist[w] \in Dist /\ AsGood(m, e.dist[w], r.dist[w])
        /\ \A w \in X : e.dist[w] = r.dist[w] /\ e.parent[w] = r.parent[w]
        /\ e.dist[u] = x
    <3>1. \A w \in Node \ {v} : e.dist[w] = r.dist[w] /\ AsGood(m, r.dist[w], r.dist[w])
      BY <1>2, <2>3, DistOrder DEF Improves
    <3>2. e.dist[v] = d /\ y = r.dist[v]
      BY <2>3 DEF Improves, y
    <3>3. \A w \in X : w # v
      BY <2>1
    <3> QED
      BY <1>1, <1>2, <2>1, <2>3, <3>1, <3>2, <3>3 DEF Improves, x
  <2>5. Frontier(m, e, X)
    <3>1. ASSUME NEW i \in DOMAIN e.heap, NEW w \in X
          PROVE  AsGood(m, e.dist[w], e.heap[i][1])
      <4>1. CASE i \in 1 .. Len(r.heap)
        <5>1. e.heap[i] = r.heap[i] /\ i \in DOMAIN r.heap
          BY <2>3, <4>1 DEF Improves
        <5> QED
          BY <2>4, <5>1 DEF Expanding, Frontier
      <4>2. CASE i = Len(r.heap) + 1
        <5>1. e.heap[i][1] = d
          BY <2>3, <4>2 DEF Improves
        <5>2. AsGood(m, r.dist[w], x) /\ r.dist[w] \in Dist /\ e.dist[w] = r.dist[w]
          BY <1>2, <2>4
        <5>3. AsGood(m, x, d) /\ x \in Dist /\ d \in Dist
          BY <1>2, <2>1
        <5>4. AsGood(m, r.dist[w], d)
          BY <5>2, <5>3, AsGoodChain
        <5> QED
          BY <5>1, <5>2, <5>4
      <4> QED
        BY <1>3, <2>3, <4>1, <4>2 DEF Improves
    <3>2. ASSUME NEW w \in Node \ X, e.dist[w] # Worst(m)
          PROVE  \E i \in DOMAIN e.heap : e.heap[i] = <<e.dist[w], w>>
      <4>1. CASE w = v
        <5>1. Len(r.heap) + 1 \in DOMAIN e.heap /\ e.heap[Len(r.heap) + 1] = <<e.dist[v], v>>
          BY <1>3, <2>3 DEF Improves
        <5> QED
          BY <4>1, <5>1
      <4>2. CASE w # v
        <5>1. e.dist[w] = r.dist[w]
          BY <2>3, <4>2 DEF Improves
        <5>2. PICK i \in DOMAIN r.heap : r.heap[i] = <<r.dist[w], w>>
          BY <3>2, <5>1 DEF Expanding, Frontier
        <5>3. i \in DOMAIN e.heap /\ e.heap[i] = r.heap[i]
          BY <1>3, <2>3 DEF Improves
        <5> QED
          BY <5>1, <5>2, <5>3
      <4> QED
        BY <4>1, <4>2
    <3> QED
      BY <3>1, <3>2 DEF Frontier
  <2>6. Settled(m, ls, e, X \ {u})
    <3> SUFFICES ASSUME NEW p \in X \ {u}, NEW w \in Node, NEW cost \in Costs(m, ls, p, w)
                 PROVE  AsGood(m, e.dist[w], Plus(m, e.dist[p], cost))
      BY DEF Settled
    <3>1. /\ AsGood(m, r.dist[w], Plus(m, r.dist[p], cost)) /\ e.dist[p] = r.dist[p]
          /\ AsGood(m, e.dist[w], r.dist[w]) /\ e.dist[w] \in Dist /\ r.dist[w] \in Dist
          /\ r.dist[p] \in Dist /\ cost \in Dist
      BY <1>2, <2>4, CostsInDist DEF Expanding, Settled
    <3>2. Plus(m, r.dist[p], cost) \in Dist
      BY <3>1, PlusLaws
    <3> DEFINE new == e.dist[w]
               old == r.dist[w]
               way == Plus(m, r.dist[p], cost)
    <3>3. /\ new \in Dist /\ old \in Dist /\ way \in Dist
          /\ AsGood(m, new, old) /\ AsGood(m, old, way)
      BY <3>1, <3>2
    <3> HIDE DEF new, old, way
    <3>4. AsGood(m, new, way)
      BY <3>3, AsGoodChain
    <3> QED
      BY <3>1, <3>4 DEF new, way
  <2>7. Tree(m, ls, src, e, X, rank)
    <3>1. e.dist[src] = Zero(m)
      BY <1>2, <2>1, <2>3 DEF Improves
    <3>2. ASSUME NEW w \in Node \ {src}, e.dist[w] # Worst(m)
          PROVE  Reached(m, ls, e, X, rank, w)
      <4>1. CASE w = v
        <5>1. e.parent[v] = u /\ e.dist[v] = Plus(m, e.dist[u], c)
          BY <2>3, <2>4 DEF Improves, d
        <5> QED
          BY <1>1, <2>1, <4>1, <5>1 DEF Reached
      <4>2. CASE w # v
        <5>1. e.dist[w] = r.dist[w] /\ e.parent[w] = r.parent[w]
          BY <2>3, <4>2 DEF Improves
        <5>2. Reached(m, ls, r, X, rank, w)
          BY <3>2, <5>1 DEF Expanding, Tree
        <5>3. r.parent[w] \in X /\ e.dist[r.parent[w]] = r.dist[r.parent[w]]
          BY <2>4, <5>2 DEF Reached
        <5> QED
          BY <5>1, <5>2, <5>3 DEF Reached
      <4> QED
        BY <4>1, <4>2
    <3> QED
      BY <3>1, <3>2 DEF Tree
  <2>8. \A w \in X : AsGood(m, e.dist[w], e.dist[u])
    BY <1>2, <2>4
  <2>9. ASSUME NEW k \in t
        PROVE  AsGood(m, e.dist[OtherNode(ls[k], u)], Plus(m, e.dist[u], LinkCost(m, ls[k])))
    <3>1. CASE k = id
      <4>1. e.dist[v] = d /\ AsGood(m, d, d)
        BY <2>1, <2>3, DistOrder DEF Improves
      <4> QED
        BY <2>4, <3>1, <4>1 DEF v, c, d
    <3>2. CASE k # id
      <4> DEFINE w == OtherNode(ls[k], u)
                 cost == LinkCost(m, ls[k])
      <4>1. AsGood(m, r.dist[w], Plus(m, x, cost))
        BY <3>2 DEF Expanding, x
      <4>2. w \in Node /\ cost \in Dist
        BY <1>1, OtherCost, CostsInDist
      <4> HIDE DEF w, cost
      <4>3. Plus(m, x, cost) \in Dist /\ AsGood(m, e.dist[w], r.dist[w])
        BY <1>2, <2>4, <4>2, PlusLaws DEF x
      <4>4. AsGood(m, e.dist[w], Plus(m, e.dist[u], cost))
        BY <1>2, <2>4, <4>1, <4>2, <4>3, DistOrder
      <4> QED
        BY <4>4 DEF w, cost
    <3> QED
      BY <3>1, <3>2
  <2>10. Len(e.heap) <= len + Cardinality(t)
    <3>1. Len(e.heap) = Len(r.heap) + 1 /\ Len(r.heap) <= len + Cardinality(t \ {id})
      BY <2>3 DEF Improves, Expanding
    <3> QED
      BY <1>3, <3>1
  <2>11. Ordered(m, ls, src, e, X, rank)
    <3>1. Settled(m, ls, r, X \ {u}) /\ Ordered(m, ls, src, r, X, rank)
      BY DEF Expanding
    <3>2. v \in Node \ X /\ ~ AsGood(m, r.dist[v], d)
      BY <1>1, <2>1 DEF y
    <3> QED
      BY <2>3, <3>1, <3>2, ImprovedOrdered
  <2> QED
    BY <2>2, <2>3, <2>5, <2>6, <2>7, <2>8, <2>9, <2>10, <2>11 DEF Expanding
<1> QED
  BY <1>5, <1>6

\* p is s without the entry of the heap at top.
Pops(s, p, top) ==
  /\ p.dist = s.dist /\ p.parent = s.parent
  /\ Len(s.heap) \in Nat \ {0} /\ Len(p.heap) = Len(s.heap) - 1
  /\ \A i \in DOMAIN p.heap : \E j \in DOMAIN s.heap : p.heap[i] = s.heap[j]
  /\ \A j \in DOMAIN s.heap : j # top => \E i \in DOMAIN p.heap : p.heap[i] = s.heap[j]

LEMMA PoppedState ==
  ASSUME NEW s \in SearchInDist, NEW top \in DOMAIN s.heap
  PROVE  LET p == [s EXCEPT !.heap = RemoveAt(@, top)]
         IN  p \in SearchInDist /\ Pops(s, p, top)
<1> DEFINE p == [s EXCEPT !.heap = RemoveAt(@, top)]
           rest == RemoveAt(s.heap, top)
           n == Len(s.heap)
<1>1. /\ s.heap \in Seq(Dist \X Node) /\ n \in Nat /\ DOMAIN s.heap = 1 .. n /\ top \in 1 .. n
  BY LenProperties DEF SearchInDist
<1>2. /\ rest \in Seq(Dist \X Node) /\ Len(rest) = n - 1 /\ DOMAIN rest = 1 .. n - 1
      /\ \A k \in 1 .. n - 1 : rest[k] = s.heap[IF k < top THEN k ELSE k + 1]
  BY <1>1, Removed
<1>3. /\ p.dist = s.dist /\ p.parent = s.parent /\ p.heap = rest /\ p \in SearchInDist
  BY <1>2 DEF SearchInDist
<1> HIDE DEF p, rest
<1>4. ASSUME NEW i \in 1 .. n - 1
      PROVE  \E j \in 1 .. n : rest[i] = s.heap[j]
  <2>1. (IF i < top THEN i ELSE i + 1) \in 1 .. n
    BY <1>1
  <2> QED
    BY <1>2, <2>1
<1>5. ASSUME NEW j \in 1 .. n, j # top
      PROVE  \E i \in 1 .. n - 1 : rest[i] = s.heap[j]
  <2>1. CASE j < top
    <3>1. j \in 1 .. n - 1
      BY <1>1, <2>1
    <3> QED
      BY <1>2, <2>1, <3>1
  <2>2. CASE ~ (j < top)
    <3>1. j - 1 \in 1 .. n - 1 /\ ~ (j - 1 < top) /\ (j - 1) + 1 = j
      BY <1>1, <1>5, <2>2
    <3>2. rest[j - 1] = s.heap[j]
      BY <1>2, <3>1
    <3> QED
      BY <3>1, <3>2
  <2> QED
    BY <2>1, <2>2
<1>6. Pops(s, p, top)
  <2>1. p.heap = rest /\ DOMAIN p.heap = 1 .. n - 1 /\ DOMAIN s.heap = 1 .. n
    BY <1>1, <1>2, <1>3
  <2>2. /\ \A i \in DOMAIN p.heap : \E j \in DOMAIN s.heap : p.heap[i] = s.heap[j]
        /\ \A j \in DOMAIN s.heap : j # top => \E i \in DOMAIN p.heap : p.heap[i] = s.heap[j]
    BY <1>4, <1>5, <2>1
  <2>3. n \in Nat \ {0} /\ Len(p.heap) = n - 1
    BY <1>1, <1>2, <2>1
  <2> QED
    BY <1>3, <2>2, <2>3 DEF Pops
<1> QED
  BY <1>3, <1>6 DEF p

\* An entry that was improved since is of no use.
LEMMA StaleEntry ==
  ASSUME NEW m, NEW s, NEW X, NEW top \in DOMAIN s.heap, NEW p, Pops(s, p, top),
         Frontier(m, s, X), s.heap[top][1] # s.dist[s.heap[top][2]]
  PROVE  Frontier(m, p, X)
<1>1. \A i \in DOMAIN p.heap : \A v \in X : AsGood(m, p.dist[v], p.heap[i][1])
  BY DEF Pops, Frontier
<1>2. ASSUME NEW v \in Node \ X, p.dist[v] # Worst(m)
      PROVE  \E i \in DOMAIN p.heap : p.heap[i] = <<p.dist[v], v>>
  <2>1. PICK j \in DOMAIN s.heap : s.heap[j] = <<s.dist[v], v>>
    BY <1>2 DEF Pops, Frontier
  <2>2. s.heap[j][1] = s.dist[v] /\ s.heap[j][2] = v
    BY <2>1
  <2>3. j # top
    BY <2>2
  <2> QED
    BY <2>1, <2>3 DEF Pops
<1> QED
  BY <1>1, <1>2 DEF Frontier

\* The search so far: the nodes of X are expanded, in the order of their ranks.
Explored(m, ls, src, s, X, rank) ==
  /\ s \in SearchInDist /\ X \in SUBSET Node /\ rank \in [Node -> Nat]
  /\ \A v \in X : 1 <= rank[v] /\ rank[v] <= Cardinality(X)
  /\ Frontier(m, s, X) /\ Settled(m, ls, s, X) /\ Tree(m, ls, src, s, X, rank)
  /\ Ordered(m, ls, src, s, X, rank)

\* The order of the nodes when u is expanded.
Ranked(rank, X, u) == IF u \in X THEN rank ELSE [rank EXCEPT ![u] = Cardinality(X) + 1]

\* The node that is expanded next was as far as it was offered, and first in
\* the heap.
LEMMA NextServed ==
  ASSUME NEW m, NEW ls, Costed(m, ls), NEW src \in Node, NEW s, NEW X, NEW rank,
         Explored(m, ls, src, s, X, rank), NEW u \in Node,
         \A j \in DOMAIN s.heap : Precedes(m, <<s.dist[u], u>>, s.heap[j]),
         NEW q \in X, NEW v \in Node \ X, NEW c \in Costs(m, ls, q, v),
         Plus(m, s.dist[q], c) # Worst(m)
  PROVE  Precedes(m, <<s.dist[u], u>>, <<Plus(m, s.dist[q], c), v>>)
<1> DEFINE x == s.dist[u]
           y == s.dist[v]
           z == Plus(m, s.dist[q], c)
<1>1. /\ s \in SearchInDist /\ X \in SUBSET Node /\ Frontier(m, s, X) /\ Settled(m, ls, s, X)
  BY DEF Explored
<1>2. AsGood(m, y, z)
  BY <1>1 DEF Settled
<1>3. x \in Dist /\ y \in Dist /\ z \in Dist /\ u \in Nat /\ v \in Nat
  <2>1. s.dist[q] \in Dist /\ c \in Dist
    BY <1>1, CostsInDist DEF SearchInDist
  <2> QED
    BY <1>1, <2>1, PlusLaws, RoutingAssumption DEF SearchInDist, Node
<1>4. s.dist[v] # Worst(m)
  <2> HIDE DEF y, z
  <2>1. y # Worst(m)
    <3>1. AsGood(m, z, Worst(m)) /\ Worst(m) \in Dist
      BY <1>3, DistOrder
    <3> QED
      BY <1>2, <1>3, <3>1, DistOrder DEF z
  <2> QED
    BY <2>1 DEF y
<1>5. PICK j \in DOMAIN s.heap : s.heap[j] = <<y, v>>
  BY <1>1, <1>4 DEF Frontier
<1>6. Precedes(m, <<x, u>>, <<y, v>>)
  BY <1>5
<1> HIDE DEF x, y, z
<1>7. Precedes(m, <<x, u>>, <<z, v>>)
  <2>1. x \in Nat /\ y \in Nat /\ z \in Nat
    BY <1>3, RoutingAssumption DEF Dist
  <2> QED
    BY <1>2, <1>3, <1>6, <2>1 DEF Precedes, AsGood, Better
<1> QED
  BY <1>7 DEF x, z

LEMMA ExpansionStarts ==
  ASSUME NEW m, NEW ls, Costed(m, ls), NEW src \in Node, NEW s, NEW X, NEW rank,
         Explored(m, ls, src, s, X, rank), NEW top \in DOMAIN s.heap, NEW p, Pops(s, p, top),
         NEW u \in Node, s.heap[top] = <<s.dist[u], u>>,
         \A j \in DOMAIN s.heap : /\ AsGood(m, s.dist[u], s.heap[j][1])
                                  /\ Precedes(m, <<s.dist[u], u>>, s.heap[j])
  PROVE  /\ Ranked(rank, X, u) \in [Node -> Nat]
         /\ \A v \in X \union {u} : /\ 1 <= Ranked(rank, X, u)[v]
                                    /\ Ranked(rank, X, u)[v] <= Cardinality(X \union {u})
         /\ Expanding(m, ls, src, X \union {u}, Ranked(rank, X, u), u, Len(p.heap), {}, p)
<1> DEFINE Y == X \union {u}
           order == Ranked(rank, X, u)
<1>1. /\ s \in SearchInDist /\ X \in SUBSET Node /\ rank \in [Node -> Nat]
      /\ \A v \in X : 1 <= rank[v] /\ rank[v] <= Cardinality(X)
      /\ Frontier(m, s, X) /\ Settled(m, ls, s, X) /\ Tree(m, ls, src, s, X, rank)
  BY DEF Explored
<1>2. /\ IsFiniteSet(X) /\ Cardinality(X) \in Nat
      /\ u \notin X => Cardinality(Y) = Cardinality(X) + 1
      /\ u \in X => Y = X
  BY <1>1, NodesFinite, FS_Subset, FS_CardinalityType, FS_AddElement
<1>3. /\ order \in [Node -> Nat] /\ \A v \in X : order[v] = rank[v]
      /\ u \notin X => order[u] = Cardinality(X) + 1
  BY <1>1, <1>2 DEF Ranked
<1> HIDE DEF order
<1>4. ASSUME NEW v \in Y
      PROVE  1 <= order[v] /\ order[v] <= Cardinality(Y)
  <2>1. CASE v \in X
    <3>1. order[v] = rank[v] /\ rank[v] \in Nat /\ 1 <= rank[v] /\ rank[v] <= Cardinality(X)
      BY <1>1, <1>3, <2>1
    <3>2. Cardinality(Y) = Cardinality(X) \/ Cardinality(Y) = Cardinality(X) + 1
      BY <1>2
    <3> QED
      BY <1>2, <3>1, <3>2
  <2>2. CASE v \notin X
    BY <1>2, <1>3, <2>2
  <2> QED
    BY <2>1, <2>2
<1>5. Frontier(m, p, Y)
  <2>1. ASSUME NEW i \in DOMAIN p.heap, NEW v \in Y
        PROVE  AsGood(m, p.dist[v], p.heap[i][1])
    <3>1. PICK j \in DOMAIN s.heap : p.heap[i] = s.heap[j]
      BY DEF Pops
    <3>2. AsGood(m, s.dist[v], s.heap[j][1])
      BY <1>1 DEF Frontier
    <3> QED
      BY <3>1, <3>2 DEF Pops
  <2>2. ASSUME NEW v \in Node \ Y, p.dist[v] # Worst(m)
        PROVE  \E i \in DOMAIN p.heap : p.heap[i] = <<p.dist[v], v>>
    <3>1. PICK j \in DOMAIN s.heap : s.heap[j] = <<s.dist[v], v>>
      BY <1>1, <2>2 DEF Frontier, Pops
    <3>2. v # u /\ s.heap[j][2] = v /\ s.heap[top][2] = u
      BY <3>1
    <3>3. j # top
      BY <3>2
    <3> QED
      BY <3>1, <3>3 DEF Pops
  <2> QED
    BY <2>1, <2>2 DEF Frontier
<1>6. Settled(m, ls, p, Y \ {u})
  BY <1>1 DEF Settled, Pops
<1>7. Tree(m, ls, src, p, Y, order)
  <2>1. p.dist[src] = Zero(m)
    BY <1>1 DEF Tree, Pops
  <2>2. ASSUME NEW v \in Node \ {src}, p.dist[v] # Worst(m)
        PROVE  Reached(m, ls, p, Y, order, v)
    <3> DEFINE a == p.parent[v]
    <3>1. a = s.parent[v] /\ Reached(m, ls, s, X, rank, v)
      BY <1>1, <2>2 DEF Tree, Pops
    <3>2. v \in X => rank[a] < rank[v]
      BY <3>1 DEF Reached
    <3>3. /\ a \in X
          /\ \E c \in Costs(m, ls, a, v) : p.dist[v] = Plus(m, p.dist[a], c)
      BY <3>1 DEF Reached, Pops
    <3> HIDE DEF a
    <3>4. ASSUME v \in Y
          PROVE  order[a] < order[v]
      <4>1. CASE v \in X
        BY <1>3, <3>2, <3>3, <4>1
      <4>2. CASE v \notin X
        <5>1. v = u /\ order[v] = Cardinality(X) + 1
          BY <1>3, <3>4, <4>2
        <5>2. order[a] = rank[a] /\ rank[a] <= Cardinality(X) /\ rank[a] \in Nat
          BY <1>1, <1>3, <3>3
        <5> QED
          BY <1>2, <5>1, <5>2
      <4> QED
        BY <4>1, <4>2
    <3> QED
      BY <3>3, <3>4 DEF Reached, a
  <2> QED
    BY <2>1, <2>2 DEF Tree
<1>8. \A v \in Y : AsGood(m, p.dist[v], p.dist[u])
  <2>1. p.dist = s.dist
    BY DEF Pops
  <2>2. \A v \in X : AsGood(m, s.dist[v], s.dist[u])
    BY <1>1 DEF Frontier
  <2>3. AsGood(m, s.dist[u], s.dist[u])
    BY <1>1, DistOrder DEF SearchInDist
  <2> QED
    BY <2>1, <2>2, <2>3
<1>9. Len(p.heap) <= Len(p.heap) + Cardinality({})
  <2>1. Len(p.heap) \in Int /\ Cardinality({}) = 0
    BY FS_EmptySet DEF Pops
  <2> QED
    BY <2>1
<1>10. Ordered(m, ls, src, s, Y, order)
  <2>1. \A v \in X : order[v] = rank[v] /\ rank[v] \in Nat /\ rank[v] <= Cardinality(X)
    BY <1>1, <1>3
  <2>2. Ordered(m, ls, src, s, X, rank)
    BY DEF Explored
  <2>3. CASE u \in X
    <3>1. Y = X
      BY <2>3
    <3> HIDE DEF Y
    <3> QED
      BY <2>2, <2>3, <3>1 DEF Ranked, order
  <2>4. CASE u \notin X
    <3>1. \A v \in X : order[v] < order[u]
      BY <1>2, <1>3, <2>1, <2>4
    <3>2. ASSUME NEW v \in Node \ {src}, s.dist[v] # Worst(m), NEW q \in Y,
                 NEW c \in Costs(m, ls, q, v), s.dist[v] = Plus(m, s.dist[q], c)
          PROVE  s.parent[v] = q \/ order[s.parent[v]] < order[q]
      <4>1. s.parent[v] \in X
        BY <1>1, <3>2 DEF Tree, Reached
      <4>2. CASE q = u
        BY <3>1, <4>1, <4>2
      <4>3. CASE q # u
        <5>1. q \in X
          BY <4>3
        <5>2. s.parent[v] = q \/ rank[s.parent[v]] < rank[q]
          BY <2>2, <3>2, <5>1 DEF Ordered, Earliest
        <5> QED
          BY <2>1, <4>1, <5>1, <5>2
      <4> QED
        BY <4>2, <4>3
    <3>3. ASSUME NEW t \in Y, NEW q \in Y, order[q] < order[t],
                 NEW v \in Node, v \notin Y \/ order[t] <= order[v],
                 NEW c \in Costs(m, ls, q, v), Plus(m, s.dist[q], c) # Worst(m)
          PROVE  Precedes(m, <<s.dist[t], t>>, <<Plus(m, s.dist[q], c), v>>)
      <4>1. \A w \in Y : order[w] \in Nat
        BY <1>1, <1>3
      <4>2. q \in X
        BY <3>1, <3>3, <4>1
      <4>3. CASE t = u
        <5>1. v \in Node \ X
          BY <3>1, <3>3, <4>1, <4>3
        <5>2. \A j \in DOMAIN s.heap : Precedes(m, <<s.dist[u], u>>, s.heap[j])
          OBVIOUS
        <5>3. Precedes(m, <<s.dist[u], u>>, <<Plus(m, s.dist[q], c), v>>)
          BY <3>3, <4>2, <5>1, <5>2, NextServed
        <5> QED
          BY <4>3, <5>3
      <4>4. CASE t # u
        <5>1. t \in X /\ rank[q] < rank[t]
          BY <2>1, <3>3, <4>2, <4>4
        <5>2. v \notin X \/ rank[t] <= rank[v]
          BY <2>1, <3>3, <5>1
        <5> QED
          BY <2>2, <3>3, <4>2, <5>1, <5>2 DEF Ordered, FirstServed
      <4> QED
        BY <4>3, <4>4
    <3> QED
      BY <3>2, <3>3 DEF Ordered, Earliest, FirstServed
  <2> QED
    BY <2>3, <2>4
<1>11. Ordered(m, ls, src, p, Y, order)
  BY <1>10, SameOrdered DEF Pops
<1>12. Expanding(m, ls, src, Y, order, u, Len(p.heap), {}, p)
  BY <1>5, <1>6, <1>7, <1>8, <1>9, <1>11 DEF Expanding
<1> QED
  BY <1>3, <1>4, <1>12 DEF order

\* The ends of links that are still to be relaxed.
Pending(ls, X) == {p \in (Node \ X) \X DOMAIN ls : p[2] \in UpLinks(ls, p[1])}

LEMMA LinksFinite ==
  ASSUME NEW ls, Topology(ls)
  PROVE  IsFiniteSet(DOMAIN ls) /\ Cardinality(DOMAIN ls) \in Nat
<1>1. PICK n \in Nat : DOMAIN ls \in SUBSET (1 .. n)
  BY DEF Topology
<1>2. IsFiniteSet(1 .. n)
  BY FS_Interval
<1>3. IsFiniteSet(DOMAIN ls)
  BY <1>1, <1>2, FS_Subset
<1> QED
  BY <1>3, FS_CardinalityType

LEMMA PendingFinite ==
  ASSUME NEW ls, Topology(ls), NEW X
  PROVE  IsFiniteSet(Pending(ls, X)) /\ Cardinality(Pending(ls, X)) \in Nat
<1>1. IsFiniteSet(Node \ X)
  BY NodesFinite, FS_Difference
<1>2. IsFiniteSet((Node \ X) \X DOMAIN ls)
  BY <1>1, LinksFinite, FS_Product
<1>3. Pending(ls, X) \in SUBSET ((Node \ X) \X DOMAIN ls)
  BY DEF Pending
<1>4. IsFiniteSet(Pending(ls, X))
  BY <1>2, <1>3, FS_Subset
<1> QED
  BY <1>4, FS_CardinalityType

\* A link has two ends.
LEMMA PendingAtFirst ==
  ASSUME NEW ls, Topology(ls)
  PROVE  Cardinality(Pending(ls, {})) <= 2 * Cardinality(DOMAIN ls)
<1> DEFINE P == Pending(ls, {})
           T == (DOMAIN ls) \X {0, 1}
           Side(p) == IF p[1] = ls[p[2]].a THEN 0 ELSE 1
           f == [p \in P |-> <<p[2], Side(p)>>]
<1>1. IsFiniteSet(T) /\ Cardinality(T) = Cardinality(DOMAIN ls) * 2
  <2>1. IsFiniteSet({0, 1}) /\ Cardinality({0, 1}) = 2
    <3>1. {0, 1} = 0 .. 1
      OBVIOUS
    <3>2. IsFiniteSet(0 .. 1) /\ Cardinality(0 .. 1) = (IF 0 > 1 THEN 0 ELSE 1 - 0 + 1)
      <4>1. 0 \in Int /\ 1 \in Int
        OBVIOUS
      <4> QED
        BY Zenon, <4>1, FS_Interval
    <3>3. (IF 0 > 1 THEN 0 ELSE 1 - 0 + 1) = 2
      OBVIOUS
    <3> QED
      BY <3>1, <3>2, <3>3
  <2> QED
    BY <2>1, LinksFinite, FS_Product
<1>2. \A p \in P : /\ p[1] \in Node /\ p[2] \in DOMAIN ls /\ p = <<p[1], p[2]>>
                   /\ p[1] \in {ls[p[2]].a, ls[p[2]].b}
  BY DEF Pending, UpLinks, TouchesNode
<1>3. f \in [P -> T]
  <2> HIDE DEF P
  <2> QED
    BY <1>2
<1>4. ASSUME NEW p \in P, NEW q \in P, f[p] = f[q]
      PROVE  p = q
  <2>1. p[2] = q[2] /\ (p[1] = ls[p[2]].a <=> q[1] = ls[q[2]].a)
    <3> HIDE DEF P, Side
    <3>1. f[p] = <<p[2], Side(p)>> /\ f[q] = <<q[2], Side(q)>>
      OBVIOUS
    <3> HIDE DEF f
    <3>2. <<p[2], Side(p)>> = <<q[2], Side(q)>>
      BY <1>4, <3>1
    <3>3. p[2] = q[2] /\ Side(p) = Side(q)
      BY <3>2
    <3> QED
      BY <3>3 DEF Side
  <2>2. p[1] = q[1]
    BY <1>2, <2>1
  <2> QED
    BY <1>2, <2>1, <2>2
<1> HIDE DEF f, P, T
<1>5. f \in Injection(P, T)
  BY <1>3, <1>4 DEF Injection, IsInjective
<1>6. Cardinality(P) <= Cardinality(T)
  BY <1>1, <1>5, FS_Injection
<1>7. Cardinality(DOMAIN ls) * 2 = 2 * Cardinality(DOMAIN ls)
  BY LinksFinite
<1> QED
  BY <1>1, <1>6, <1>7 DEF P

LEMMA UpLinksFinite ==
  ASSUME NEW ls, Topology(ls), NEW u
  PROVE  /\ IsFiniteSet(UpLinks(ls, u)) /\ Cardinality(UpLinks(ls, u)) \in Nat
         /\ \A id \in UpLinks(ls, u) : ls[id] \in LinkRecord
<1>1. UpLinks(ls, u) \in SUBSET DOMAIN ls
  BY DEF UpLinks
<1>2. IsFiniteSet(UpLinks(ls, u))
  BY <1>1, LinksFinite, FS_Subset
<1> QED
  BY <1>1, <1>2, FS_CardinalityType DEF Topology

LEMMA PendingLeft ==
  ASSUME NEW ls, Topology(ls), NEW X \in SUBSET Node, NEW u \in Node \ X
  PROVE  Cardinality(Pending(ls, X \union {u}))
           = Cardinality(Pending(ls, X)) - Cardinality(UpLinks(ls, u))
<1> DEFINE P == Pending(ls, X)
           B == {u} \X UpLinks(ls, u)
<1>1. Pending(ls, X \union {u}) = P \ B
  BY DEF Pending
<1>2. P \cap B = B
  BY DEF Pending, UpLinks
<1>3. Cardinality(B) = Cardinality(UpLinks(ls, u))
  <2>1. IsFiniteSet({u}) /\ Cardinality({u}) = 1
    BY FS_Singleton
  <2>2. Cardinality(B) = 1 * Cardinality(UpLinks(ls, u))
    BY <2>1, UpLinksFinite, FS_Product
  <2> QED
    BY <2>2, UpLinksFinite
<1>4. IsFiniteSet(P)
  BY PendingFinite
<1> HIDE DEF P, B
<1>5. Cardinality(P \ B) = Cardinality(P) - Cardinality(P \cap B)
  BY <1>4, FS_Difference
<1> QED
  BY <1>1, <1>2, <1>3, <1>5 DEF P

LEMMA TopIsBest ==
  ASSUME NEW m, NEW s \in SearchInDist, s.heap # <<>>
  PROVE  LET top == Top(m, s.heap)
         IN  /\ top \in DOMAIN s.heap /\ s.heap[top] \in Dist \X Node
             /\ \A j \in DOMAIN s.heap : /\ AsGood(m, s.heap[top][1], s.heap[j][1])
                                         /\ Precedes(m, s.heap[top], s.heap[j])
<1> DEFINE top == Top(m, s.heap)
<1>1. s.heap \in Seq(Dist \X Node) /\ s.heap \in Seq(Nat \X Node)
  <2>1. s.heap \in Seq(Dist \X Node)
    BY DEF SearchInDist
  <2>2. Dist \X Node \subseteq Nat \X Node
    BY RoutingAssumption DEF Dist
  <2> QED
    BY <2>1, <2>2, SeqMonotonic
<1>2. /\ top \in DOMAIN s.heap
      /\ \A j \in DOMAIN s.heap : Precedes(m, s.heap[top], s.heap[j])
  BY <1>1, TopInHeap
<1> HIDE DEF top
<1>3. \A j \in DOMAIN s.heap : s.heap[j] \in Dist \X Node /\ s.heap[j][1] \in Nat
  BY <1>1, LenProperties, ElementOfSeq, RoutingAssumption DEF Dist
<1>4. \A j \in DOMAIN s.heap : AsGood(m, s.heap[top][1], s.heap[j][1])
  BY <1>2, <1>3 DEF Precedes, AsGood, Better
<1> QED
  BY <1>2, <1>3, <1>4 DEF top

LEMMA ExpansionEnds ==
  ASSUME NEW m, NEW ls, Costed(m, ls), Topology(ls), NEW src \in Node, NEW X \in SUBSET Node,
         NEW rank, NEW u \in X, NEW p \in SearchInDist,
         Expanding(m, ls, src, X, rank, u, Len(p.heap), {}, p)
  PROVE  LET r == Relaxed(m, ls, u, p, UpLinks(ls, u))
         IN  r \in SearchInDist
             /\ Expanding(m, ls, src, X, rank, u, Len(p.heap), UpLinks(ls, u), r)
<1> DEFINE ids == UpLinks(ls, u)
           len == Len(p.heap)
           G == {x \in (SUBSET ids) \X SearchInDist :
                   Expanding(m, ls, src, X, rank, u, len, x[1], x[2])}
<1>1. PICK n \in Nat : ids \in SUBSET (1 .. n)
  BY DEF Topology, UpLinks
<1>2. /\ len \in Nat /\ u \in Node /\ IsFiniteSet(ids)
      /\ \A id \in ids : ls[id] \in LinkRecord
  BY UpLinksFinite, LenProperties DEF SearchInDist
<1>3. <<{}, p>> \in G
  OBVIOUS
<1>4. ASSUME NEW t \in SUBSET ids, NEW id \in ids, NEW r, id \in t, <<t \ {id}, r>> \in G
      PROVE  <<t, Relax(m, ls, r, u, id)>> \in G
  <2>1. r \in SearchInDist /\ Expanding(m, ls, src, X, rank, u, len, t \ {id}, r)
    BY <1>4
  <2>2. /\ Relax(m, ls, r, u, id) \in SearchInDist
        /\ Expanding(m, ls, src, X, rank, u, len, t, Relax(m, ls, r, u, id))
    <3>1. IsFiniteSet(t) /\ \A k \in t : ls[k] \in LinkRecord
      BY <1>2, FS_Subset
    <3> HIDE DEF G, len
    <3> QED
      BY <1>2, <1>4, <2>1, <3>1, RelaxExpands
  <2> QED
    BY <2>2
<1> HIDE DEF G, ids, len
<1>5. <<ids, Relaxed(m, ls, u, p, ids)>> \in G
  BY <1>1, <1>3, <1>4, FoldReaches
<1> QED
  BY <1>5 DEF G, ids, len

\* Once its links are relaxed, u is settled as well.
LEMMA Expanded ==
  ASSUME NEW m, NEW ls, NEW src, NEW X, NEW rank, NEW u \in X, NEW len, NEW r,
         Expanding(m, ls, src, X, rank, u, len, UpLinks(ls, u), r)
  PROVE  Settled(m, ls, r, X)
<1> SUFFICES ASSUME NEW w \in X, NEW v \in Node, NEW c \in Costs(m, ls, w, v)
             PROVE  AsGood(m, r.dist[v], Plus(m, r.dist[w], c))
  BY DEF Settled
<1>1. CASE w = u
  <2>1. PICK id \in UpLinks(ls, u) : OtherNode(ls[id], u) = v /\ LinkCost(m, ls[id]) = c
    BY <1>1, CostOver
  <2> QED
    BY <1>1, <2>1 DEF Expanding
<1>2. CASE w # u
  BY <1>2 DEF Expanding, Settled
<1> QED
  BY <1>1, <1>2

\* A node that was expanded before has nothing to improve.
LEMMA ExpandedBefore ==
  ASSUME NEW m, NEW ls, Costed(m, ls), Topology(ls), NEW X \in SUBSET Node, NEW u \in X,
         NEW p \in SearchInDist, Settled(m, ls, p, X)
  PROVE  Relaxed(m, ls, u, p, UpLinks(ls, u)) = p
<1> DEFINE ids == UpLinks(ls, u)
           G == (SUBSET ids) \X {p}
<1>1. PICK n \in Nat : ids \in SUBSET (1 .. n)
  BY DEF Topology, UpLinks
<1>2. ASSUME NEW id \in ids
      PROVE  Relax(m, ls, p, u, id) = p
  <2> DEFINE v == OtherNode(ls[id], u)
             c == LinkCost(m, ls[id])
  <2>4. u \in Node /\ ls[id] \in LinkRecord
    BY UpLinksFinite
  <2>5. v \in Node /\ c \in Costs(m, ls, u, v)
    BY <2>4, OtherCost
  <2> HIDE DEF v, c
  <2>1. /\ v \in Node /\ c \in Costs(m, ls, u, v) /\ c \in Dist
        /\ p.dist[u] \in Dist /\ p.dist[v] \in Dist
    BY <2>4, <2>5, CostsInDist DEF SearchInDist
  <2>2. AsGood(m, p.dist[v], Plus(m, p.dist[u], c))
    BY <2>1 DEF Settled
  <2>3. ~ Better(m, Combine(m, p.dist[u], c), p.dist[v])
    BY <2>1, <2>2, CombineIsPlus DEF AsGood
  <2> QED
    BY <2>3 DEF Relax, v, c
<1>3. <<{}, p>> \in G
  OBVIOUS
<1>4. ASSUME NEW t \in SUBSET ids, NEW id \in ids, NEW r, id \in t, <<t \ {id}, r>> \in G
      PROVE  <<t, Relax(m, ls, r, u, id)>> \in G
  BY <1>2, <1>4
<1> HIDE DEF G, ids
<1>5. <<ids, Relaxed(m, ls, u, p, ids)>> \in G
  BY <1>1, <1>3, <1>4, FoldReaches
<1> QED
  BY <1>5 DEF G, ids

\* The turns left are enough to empty the heap.
Enough(ls, s, X, k) ==
  s.heap = <<>> \/ Len(s.heap) + Cardinality(Pending(ls, X)) + k <= MaxTurns(ls)

LEMMA TurnExplores ==
  ASSUME NEW m, NEW ls, Costed(m, ls), Topology(ls), NEW src \in Node, NEW s, NEW X, NEW rank,
         Explored(m, ls, src, s, X, rank), NEW k \in Nat, Enough(ls, s, X, k)
  PROVE  \E Y, order : /\ Explored(m, ls, src, Turn(m, ls, s), Y, order)
                       /\ Enough(ls, Turn(m, ls, s), Y, k + 1)
<1> DEFINE top == Top(m, s.heap)
           u == s.heap[top][2]
           p == [s EXCEPT !.heap = RemoveAt(@, top)]
           after == Turn(m, ls, s)
<1> SUFFICES \E Y, order : Explored(m, ls, src, after, Y, order) /\ Enough(ls, after, Y, k + 1)
  OBVIOUS
<1>1. CASE s.heap = <<>>
  <2>1. after = s
    BY <1>1 DEF Turn
  <2> QED
    BY <1>1, <2>1 DEF Enough
<1>2. CASE s.heap # <<>>
  <2>1. s \in SearchInDist /\ X \in SUBSET Node
    BY DEF Explored
  <2>2. /\ top \in DOMAIN s.heap /\ s.heap[top] \in Dist \X Node
        /\ \A j \in DOMAIN s.heap : /\ AsGood(m, s.heap[top][1], s.heap[j][1])
                                    /\ Precedes(m, s.heap[top], s.heap[j])
    BY <1>2, <2>1, TopIsBest
  <2>3. after = IF s.heap[top][1] # s.dist[u] THEN p
                ELSE Relaxed(m, ls, u, p, UpLinks(ls, u))
    BY <1>2 DEF Turn, Relaxed
  <2> HIDE DEF top
  <2>4. p \in SearchInDist /\ Pops(s, p, top)
    BY <2>1, <2>2, PoppedState
  <2>5. u \in Node /\ s.heap[top] = <<s.heap[top][1], u>>
    BY <2>2
  <2> HIDE DEF p, u, after
  <2>6. /\ p.dist = s.dist /\ p.parent = s.parent
        /\ Len(s.heap) \in Nat \ {0} /\ Len(p.heap) = Len(s.heap) - 1
    BY <2>4 DEF Pops
  <2>7. Len(s.heap) + Cardinality(Pending(ls, X)) + k <= MaxTurns(ls)
    BY <1>2 DEF Enough
  <2>8. /\ Cardinality(Pending(ls, X)) \in Nat /\ MaxTurns(ls) \in Nat
        /\ Cardinality(UpLinks(ls, u)) \in Nat
    BY PendingFinite, LinksFinite, UpLinksFinite DEF MaxTurns
  <2>9. Enough(ls, p, X, k + 1)
    BY <2>6, <2>7, <2>8 DEF Enough
  <2>10. ASSUME Frontier(m, p, X)
         PROVE  Explored(m, ls, src, p, X, rank)
    <3>1. Settled(m, ls, p, X)
      BY <2>6 DEF Explored, Settled
    <3>2. Tree(m, ls, src, p, X, rank)
      BY <2>6 DEF Explored, Tree, Reached
    <3>3. Ordered(m, ls, src, p, X, rank)
      BY <2>6, SameOrdered DEF Explored
    <3> QED
      BY <2>4, <2>10, <3>1, <3>2, <3>3 DEF Explored
  <2>11. CASE s.heap[top][1] # s.dist[u]
    <3>1. Frontier(m, p, X)
      BY <2>2, <2>4, <2>11, StaleEntry DEF Explored, u
    <3>2. after = p
      BY <2>3, <2>11
    <3> QED
      BY <2>9, <2>10, <3>1, <3>2
  <2>12. CASE s.heap[top][1] = s.dist[u]
    <3> DEFINE Y == X \union {u}
               order == Ranked(rank, X, u)
    <3>1. /\ order \in [Node -> Nat]
          /\ \A v \in Y : 1 <= order[v] /\ order[v] <= Cardinality(Y)
          /\ Expanding(m, ls, src, Y, order, u, Len(p.heap), {}, p)
      BY <2>2, <2>4, <2>5, <2>12, ExpansionStarts
    <3>2. after = Relaxed(m, ls, u, p, UpLinks(ls, u))
      BY <2>3, <2>12
    <3> HIDE DEF order
    <3>3. CASE u \in X
      <4>1. Y = X
        BY <3>3
      <4>2. Frontier(m, p, X)
        BY <3>1, <4>1 DEF Expanding
      <4>3. Explored(m, ls, src, p, X, rank)
        BY <2>10, <4>2
      <4>4. after = p
        BY <2>1, <2>4, <3>2, <3>3, <4>3, ExpandedBefore DEF Explored
      <4> QED
        BY <2>9, <4>3, <4>4
    <3>4. CASE u \notin X
      <4>1. Y \in SUBSET Node /\ u \in Y
        BY <2>1, <2>5
      <4> HIDE DEF Y
      <4>2. /\ after \in SearchInDist
            /\ Expanding(m, ls, src, Y, order, u, Len(p.heap), UpLinks(ls, u), after)
        BY <2>4, <3>1, <3>2, <4>1, ExpansionEnds
      <4>3. Settled(m, ls, after, Y)
        BY <4>1, <4>2, Expanded
      <4>4. Explored(m, ls, src, after, Y, order)
        BY <3>1, <4>1, <4>2, <4>3 DEF Explored, Expanding
      <4>5. Len(after.heap) <= Len(p.heap) + Cardinality(UpLinks(ls, u))
        BY <4>2 DEF Expanding
      <4>6. Cardinality(Pending(ls, Y))
              = Cardinality(Pending(ls, X)) - Cardinality(UpLinks(ls, u))
        BY <2>1, <2>5, <3>4, PendingLeft DEF Y
      <4>7. Len(after.heap) \in Nat
        BY <4>2, LenProperties DEF SearchInDist
      <4>8. Enough(ls, after, Y, k + 1)
        <5>1. \A old, popped, new, pending, left, up, max \in Nat :
                (/\ popped = old - 1 /\ new <= popped + up /\ left = pending - up
                 /\ old + pending + k <= max)
                => new + left + (k + 1) <= max
          OBVIOUS
        <5>2. Cardinality(Pending(ls, Y)) \in Nat /\ Len(s.heap) \in Nat /\ Len(p.heap) \in Nat
          BY <2>6, PendingFinite
        <5>3. Len(after.heap) + Cardinality(Pending(ls, Y)) + (k + 1) <= MaxTurns(ls)
          BY <2>6, <2>7, <2>8, <4>5, <4>6, <4>7, <5>1, <5>2
        <5> QED
          BY <5>3 DEF Enough
      <4> QED
        BY <4>4, <4>8
    <3> QED
      BY <3>3, <3>4
  <2> QED
    BY <2>11, <2>12
<1> QED
  BY <1>1, <1>2

\* The search before its first turn.
Beginning(m, src) ==
  [dist   |-> [n \in Node |-> IF n = src THEN Zero(m) ELSE Worst(m)],
   parent |-> [n \in Node |-> NoHop],
   heap   |-> << <<Zero(m), src>> >>]

LEMMA BeginningExplored ==
  ASSUME NEW m, NEW ls, Topology(ls), NEW src \in Node
  PROVE  /\ Explored(m, ls, src, Beginning(m, src), {}, [n \in Node |-> 0])
         /\ Enough(ls, Beginning(m, src), {}, 0)
<1> DEFINE s == Beginning(m, src)
           rank == [n \in Node |-> 0]
<1>1. Zero(m) \in Dist /\ Worst(m) \in Dist
  BY DistOrder
<1>2. /\ s.dist = [n \in Node |-> IF n = src THEN Zero(m) ELSE Worst(m)]
      /\ s.parent = [n \in Node |-> NoHop] /\ s.heap = << <<Zero(m), src>> >>
  BY DEF Beginning
<1>3. s \in SearchInDist
  <2>1. << <<Zero(m), src>> >> \in Seq(Dist \X Node)
    BY <1>1
  <2> QED
    BY <1>1, <2>1 DEF SearchInDist, Beginning
<1>4. s.dist[src] = Zero(m) /\ \A v \in Node \ {src} : s.dist[v] = Worst(m)
  BY <1>2
<1>5. Len(s.heap) = 1 /\ DOMAIN s.heap = {1} /\ s.heap[1] = <<Zero(m), src>>
  BY <1>2
<1> HIDE DEF s
<1>6. Frontier(m, s, {})
  <2>1. ASSUME NEW v \in Node, s.dist[v] # Worst(m)
        PROVE  \E i \in DOMAIN s.heap : s.heap[i] = <<s.dist[v], v>>
    <3>1. v = src
      BY <1>4, <2>1
    <3> QED
      BY <1>4, <1>5, <3>1
  <2> QED
    BY <2>1 DEF Frontier
<1>7. /\ Settled(m, ls, s, {}) /\ Tree(m, ls, src, s, {}, rank)
      /\ Ordered(m, ls, src, s, {}, rank)
  BY <1>4 DEF Settled, Tree, Ordered, Earliest, FirstServed
<1>8. Explored(m, ls, src, s, {}, rank)
  <2>1. rank \in [Node -> Nat]
    OBVIOUS
  <2> HIDE DEF rank
  <2> QED
    BY <1>3, <1>6, <1>7, <2>1 DEF Explored
<1>9. Enough(ls, s, {}, 0)
  <2>1. /\ Cardinality(Pending(ls, {})) <= 2 * Cardinality(DOMAIN ls)
        /\ Cardinality(Pending(ls, {})) \in Nat /\ Cardinality(DOMAIN ls) \in Nat
    BY PendingAtFirst, PendingFinite, LinksFinite
  <2> QED
    BY <1>5, <2>1 DEF Enough, MaxTurns
<1> QED
  BY <1>8, <1>9 DEF s

\* When the last turn is over, the heap is empty.
LEMMA SearchExplores ==
  ASSUME NEW m, NEW ls, Costed(m, ls), Topology(ls), NEW src \in Node
  PROVE  \E X, rank : /\ Explored(m, ls, src, BuildDijkstra(m, ls, src), X, rank)
                      /\ BuildDijkstra(m, ls, src).heap = <<>>
<1> DEFINE start == Beginning(m, src)
           turns == MaxTurns(ls)
           f == CHOOSE f : Searched(m, ls, start, turns, f)
           Good(k) == \E X, rank : Explored(m, ls, src, f[k], X, rank) /\ Enough(ls, f[k], X, k)
           Bad == {k \in 0 .. turns : ~ Good(k)}
<1>1. turns \in Nat
  BY LinksFinite DEF MaxTurns
<1>2. BuildDijkstra(m, ls, src) = f[turns]
  BY DEF BuildDijkstra, Searched, Beginning
<1> HIDE DEF start, turns
<1>3. Searched(m, ls, start, turns, f)
  BY <1>1, SearchExists
<1> HIDE DEF f
<1>4. Good(0)
  <2>1. f[0] = start
    BY <1>1, <1>3 DEF Searched
  <2> QED
    BY <2>1, BeginningExplored DEF start
<1>5. ASSUME NEW k \in 1 .. turns, Good(k - 1)
      PROVE  Good(k)
  <2>1. PICK X, rank : Explored(m, ls, src, f[k - 1], X, rank) /\ Enough(ls, f[k - 1], X, k - 1)
    BY <1>5
  <2>2. k - 1 \in Nat /\ (k - 1) + 1 = k /\ f[k] = Turn(m, ls, f[k - 1])
    BY <1>1, <1>3 DEF Searched
  <2> DEFINE before == f[k - 1]
             j == k - 1
  <2>3. /\ Explored(m, ls, src, before, X, rank) /\ Enough(ls, before, X, j)
        /\ j \in Nat /\ j + 1 = k /\ f[k] = Turn(m, ls, before)
    BY <2>1, <2>2
  <2> HIDE DEF before, j
  <2>4. \E Y, order : /\ Explored(m, ls, src, Turn(m, ls, before), Y, order)
                      /\ Enough(ls, Turn(m, ls, before), Y, j + 1)
    BY <2>3, TurnExplores
  <2> QED
    BY <2>3, <2>4
<1> HIDE DEF Good
<1>6. Bad = {}
  <2> SUFFICES ASSUME Bad # {} PROVE FALSE
    OBVIOUS
  <2>1. PICK k \in Bad : \A l \in Bad : k <= l
    <3>1. Bad \in SUBSET Nat
      BY <1>1
    <3> HIDE DEF Bad
    <3> QED
      BY <3>1, LeastNatural
  <2>2. k \in 1 .. turns /\ k - 1 \in 0 .. turns /\ ~ (k <= k - 1) /\ ~ Good(k)
    BY <1>1, <1>4, <2>1
  <2>3. Good(k - 1)
    BY <2>1, <2>2
  <2> QED
    BY <1>5, <2>2, <2>3
<1>7. PICK X, rank : Explored(m, ls, src, f[turns], X, rank) /\ Enough(ls, f[turns], X, turns)
  BY <1>1, <1>6 DEF Good
<1>8. f[turns].heap = <<>>
  <2> DEFINE heap == f[turns].heap
  <2>1. heap \in Seq(Dist \X Node) /\ Len(heap) \in Nat
    BY <1>7, LenProperties DEF Explored, SearchInDist
  <2>2. heap = <<>> \/ Len(heap) + Cardinality(Pending(ls, X)) + turns <= turns
    BY <1>7 DEF Enough, turns
  <2> HIDE DEF heap
  <2>3. Cardinality(Pending(ls, X)) \in Nat
    BY PendingFinite
  <2>4. heap = <<>> \/ Len(heap) = 0
    BY <1>1, <2>1, <2>2, <2>3
  <2>5. heap = <<>>
    BY <2>1, <2>4, EmptySeq
  <2> QED
    BY <2>5 DEF heap
<1> QED
  BY <1>2, <1>7, <1>8

\* The search is over, and D holds the best distances.
Complete(m, ls, src, s, X, rank, D) ==
  /\ Explored(m, ls, src, s, X, rank) /\ s.heap = <<>> /\ Surveyed(m, ls, D, Node)

LEMMA DistancesClosed ==
  ASSUME NEW m, NEW ls, Costed(m, ls), NEW src \in Node, NEW s, NEW X, NEW rank, NEW D,
         Complete(m, ls, src, s, X, rank, D)
  PROVE  /\ \A v \in Node : s.dist[v] # Worst(m) => v \in X
         /\ \A n \in Node : AsGood(m, s.dist[n], D[src][n])
<1>1. s \in SearchInDist /\ Frontier(m, s, X) /\ Settled(m, ls, s, X) /\ DOMAIN s.heap = {}
  BY DEF Complete, Explored
<1>2. s.dist[src] = Zero(m) /\ s.dist \in [Node -> Dist] /\ D \in [Node -> [Node -> Dist]]
  BY DEF Complete, Explored, Tree, Surveyed, SearchInDist
<1>3. \A v \in Node : s.dist[v] # Worst(m) => v \in X
  BY <1>1 DEF Frontier
<1>4. ASSUME NEW a \in Node, NEW b \in Node, NEW c \in Costs(m, ls, a, b)
      PROVE  AsGood(m, s.dist[b], Plus(m, s.dist[a], c))
  <2>1. CASE a \in X
    BY <1>1, <2>1 DEF Settled
  <2>2. CASE a \notin X
    <3>1. s.dist[a] = Worst(m) /\ c \in Dist
      BY <1>3, <2>2, CostsInDist
    <3>2. Plus(m, s.dist[a], c) = Worst(m)
      BY <3>1, PlusLaws
    <3>3. s.dist[b] \in Dist
      BY <1>2
    <3> QED
      BY <3>2, <3>3, DistOrder
  <2> QED
    BY <2>1, <2>2
<1>5. Closed(m, ls, s.dist)
  BY <1>4 DEF Closed
<1>6. ASSUME NEW n \in Node
      PROVE  AsGood(m, s.dist[n], D[src][n])
  <2>1. AsGood(m, s.dist[n], Plus(m, s.dist[src], D[src][n]))
    BY <1>2, <1>5 DEF Complete, Surveyed, Bounded
  <2>2. Plus(m, s.dist[src], D[src][n]) = D[src][n]
    BY <1>2, PlusLaws
  <2> QED
    BY <2>1, <2>2
<1> QED
  BY <1>3, <1>6

\* The k-th node on the way back from d: the way by it is best, and it was
\* expanded early enough to be a child of src in time.
OnWay(m, src, s, X, rank, D, d, n, k) ==
  /\ n \in X \ {src} /\ s.dist[n] # Worst(m)
  /\ AsGood(m, Plus(m, s.dist[n], D[n][d]), s.dist[d])
  /\ s.parent[n] = src \/ rank[n] + k <= NumNodes

LEMMA WayStarts ==
  ASSUME NEW m, NEW ls, Costed(m, ls), NEW src \in Node, NEW s, NEW X, NEW rank, NEW D,
         Complete(m, ls, src, s, X, rank, D), NEW d \in Node \ {src}, s.dist[d] # Worst(m)
  PROVE  OnWay(m, src, s, X, rank, D, d, d, 0)
<1>1. /\ d \in X /\ X \in SUBSET Node /\ rank \in [Node -> Nat] /\ rank[d] <= Cardinality(X)
      /\ s.dist[d] \in Dist /\ D[d][d] = Zero(m)
  <2>1. d \in X
    BY DistancesClosed
  <2>2. s.dist[d] \in Dist /\ D[d][d] = Zero(m)
    BY DEF Complete, Explored, SearchInDist, Surveyed
  <2> QED
    BY <2>1, <2>2 DEF Complete, Explored
<1>2. AsGood(m, Plus(m, s.dist[d], D[d][d]), s.dist[d])
  <2> DEFINE x == s.dist[d]
  <2>1. x \in Dist
    BY <1>1
  <2> HIDE DEF x
  <2>2. Plus(m, x, Zero(m)) = x /\ AsGood(m, x, x)
    BY <2>1, DistOrder, PlusLaws
  <2> QED
    BY <1>1, <2>2 DEF x
<1>3. rank[d] + 0 <= NumNodes
  <2>1. Cardinality(X) \in Nat /\ Cardinality(X) <= NumNodes
    BY <1>1, NodesFinite, FS_Subset, FS_CardinalityType
  <2>2. rank[d] \in Nat
    BY <1>1
  <2> QED
    BY <1>1, <2>1, <2>2, RoutingAssumption
<1> QED
  BY <1>1, <1>2, <1>3 DEF OnWay

LEMMA WayClimbs ==
  ASSUME NEW m, NEW ls, Costed(m, ls), NEW src \in Node, NEW s, NEW X, NEW rank, NEW D,
         Complete(m, ls, src, s, X, rank, D), NEW d \in Node, NEW n, NEW k \in Nat,
         OnWay(m, src, s, X, rank, D, d, n, k), s.parent[n] # src
  PROVE  OnWay(m, src, s, X, rank, D, d, s.parent[n], k + 1)
<1> DEFINE p == s.parent[n]
<1>1. /\ n \in X \ {src} /\ s.dist[n] # Worst(m) /\ rank[n] + k <= NumNodes
      /\ AsGood(m, Plus(m, s.dist[n], D[n][d]), s.dist[d])
  BY DEF OnWay
<1>2. /\ X \in SUBSET Node /\ rank \in [Node -> Nat] /\ s.dist \in [Node -> Dist]
      /\ D \in [Node -> [Node -> Dist]] /\ Bounded(m, ls, D) /\ Straight(m, D, Node)
      /\ Tree(m, ls, src, s, X, rank)
  BY DEF Complete, Explored, SearchInDist, Surveyed
<1>3. Reached(m, ls, s, X, rank, n)
  BY <1>1, <1>2 DEF Tree
<1>4. PICK c \in Costs(m, ls, p, n) : s.dist[n] = Plus(m, s.dist[p], c)
  BY <1>3 DEF Reached
<1>5. p \in X /\ p # src /\ rank[p] < rank[n]
  BY <1>1, <1>3 DEF Reached
<1> HIDE DEF p
<1>6. p \in Node /\ n \in Node /\ c \in Dist
  BY <1>1, <1>2, <1>5, CostsInDist
<1> DEFINE x == s.dist[p]
           y == s.dist[d]
           pd == D[p][d]
           pn == D[p][n]
           nd == D[n][d]
<1>7. /\ x \in Dist /\ y \in Dist /\ pd \in Dist /\ pn \in Dist /\ nd \in Dist
      /\ AsGood(m, pd, Plus(m, pn, nd)) /\ AsGood(m, pn, c)
      /\ AsGood(m, Plus(m, Plus(m, x, c), nd), y) /\ Plus(m, x, c) # Worst(m)
  BY <1>1, <1>2, <1>4, <1>6 DEF Bounded, Straight
<1> HIDE DEF x, y, pd, pn, nd
<1>8. x # Worst(m)
  BY <1>6, <1>7, PlusLaws
<1>9. AsGood(m, Plus(m, x, pd), y)
  <2>1. AsGood(m, nd, nd)
    BY <1>7, DistOrder
  <2>2. AsGood(m, pd, Plus(m, c, nd))
    BY <1>6, <1>7, <2>1, PlusBelow
  <2>3. Plus(m, c, nd) \in Dist
    BY <1>6, <1>7, PlusLaws
  <2>4. AsGood(m, Plus(m, x, pd), Plus(m, x, Plus(m, c, nd)))
    BY <1>7, <2>2, <2>3, PlusMonotone
  <2>5. Plus(m, Plus(m, x, c), nd) = Plus(m, x, Plus(m, c, nd))
    BY <1>6, <1>7, PlusAssociative
  <2>6. Plus(m, x, pd) \in Dist /\ Plus(m, x, Plus(m, c, nd)) \in Dist
    BY <1>7, <2>3, PlusLaws
  <2> QED
    BY <1>7, <2>4, <2>5, <2>6, AsGoodChain
<1>10. rank[p] + (k + 1) <= NumNodes
  <2>1. rank[p] \in Nat /\ rank[n] \in Nat
    BY <1>2, <1>6
  <2> QED
    BY <1>1, <1>5, <2>1, RoutingAssumption
<1> QED
  BY <1>5, <1>8, <1>9, <1>10 DEF OnWay, p, x, y, pd

\* FirstHop leads to a neighbour of src from which the rest of the way is best.
LEMMA FirstHopBest ==
  ASSUME NEW m, NEW ls, Costed(m, ls), NEW src \in Node, NEW s, NEW X, NEW rank, NEW D,
         Complete(m, ls, src, s, X, rank, D), NEW d \in Node \ {src}, s.dist[d] # Worst(m)
  PROVE  LET hop == FirstHop(s.parent, src, d)
         IN  /\ hop \in Node /\ s.parent[hop] = src
             /\ \E c \in Costs(m, ls, src, hop) : AsGood(m, Plus(m, c, D[hop][d]), s.dist[d])
<1> DEFINE Good(n, k) == OnWay(m, src, s, X, rank, D, d, n, k)
<1>1. PICK h : /\ Climbed(s.parent, src, d, h, NumNodes)
               /\ FirstHop(s.parent, src, d) = h[NumNodes]
  BY ClimbExists
<1>2. X \in SUBSET Node /\ rank \in [Node -> Nat] /\ \A v \in X : 1 <= rank[v]
  BY DEF Complete, Explored
<1>3. Good(h[0], 0)
  <2>1. h[0] = d
    BY <1>1, RoutingAssumption DEF Climbed
  <2> QED
    BY <2>1, WayStarts
<1>4. ASSUME NEW k \in 1 .. NumNodes, Good(h[k - 1], k - 1)
      PROVE  Good(h[k], k)
  <2> DEFINE n == h[k - 1]
             j == k - 1
  <2>1. /\ j \in Nat /\ j + 1 = k
        /\ h[k] = IF n = NoHop \/ s.parent[n] = src THEN n ELSE s.parent[n]
    BY <1>1, RoutingAssumption DEF Climbed
  <2>2. Good(n, j)
    BY <1>4
  <2> HIDE DEF n, j
  <2>3. n \in X \ {src} /\ n # NoHop
    <3>1. n \in X \ {src}
      BY <2>2 DEF OnWay
    <3> QED
      BY <1>2, <3>1, RoutingAssumption DEF Node, NoHop
  <2>4. CASE s.parent[n] = src
    <3>1. h[k] = n
      BY <2>1, <2>4
    <3> QED
      BY <2>2, <2>4, <3>1 DEF OnWay
  <2>5. CASE s.parent[n] # src
    <3>1. h[k] = s.parent[n]
      BY <2>1, <2>3, <2>5
    <3>2. OnWay(m, src, s, X, rank, D, d, s.parent[n], j + 1)
      BY <2>1, <2>2, <2>5, WayClimbs
    <3> HIDE DEF Good
    <3>3. Good(s.parent[n], j + 1)
      BY <3>2 DEF Good
    <3> QED
      BY <2>1, <3>1, <3>3
  <2> QED
    BY <2>4, <2>5
<1> DEFINE Bad == {k \in 0 .. NumNodes : ~ Good(h[k], k)}
<1> HIDE DEF Good
<1>5. Bad = {}
  <2> SUFFICES ASSUME Bad # {} PROVE FALSE
    OBVIOUS
  <2>1. PICK k \in Bad : \A l \in Bad : k <= l
    <3>1. Bad \in SUBSET Nat
      BY RoutingAssumption
    <3> HIDE DEF Bad
    <3> QED
      BY <3>1, LeastNatural
  <2>2. /\ k \in 1 .. NumNodes /\ k - 1 \in 0 .. NumNodes /\ ~ (k <= k - 1)
        /\ ~ Good(h[k], k)
    BY <1>3, <2>1, RoutingAssumption
  <2>3. Good(h[k - 1], k - 1)
    BY <2>1, <2>2
  <2> QED
    BY <1>4, <2>2, <2>3
<1> DEFINE hop == h[NumNodes]
<1>6. Good(hop, NumNodes)
  BY <1>5, RoutingAssumption
<1> HIDE DEF hop
<1>7. /\ hop \in X \ {src} /\ s.dist[hop] # Worst(m)
      /\ AsGood(m, Plus(m, s.dist[hop], D[hop][d]), s.dist[d])
      /\ s.parent[hop] = src \/ rank[hop] + NumNodes <= NumNodes
  BY <1>6 DEF Good, OnWay
<1>8. s.parent[hop] = src
  <2>1. rank[hop] \in Nat /\ 1 <= rank[hop]
    BY <1>2, <1>7
  <2> QED
    BY <1>7, <2>1, RoutingAssumption
<1>9. PICK c \in Costs(m, ls, src, hop) : s.dist[hop] = Plus(m, s.dist[src], c)
  BY <1>2, <1>7, <1>8 DEF Complete, Explored, Tree, Reached
<1>10. s.dist[hop] = c
  <2>1. s.dist[src] = Zero(m) /\ c \in Dist
    BY CostsInDist DEF Complete, Explored, Tree
  <2> QED
    BY <1>9, <2>1, PlusLaws
<1> QED
  BY <1>1, <1>2, <1>7, <1>8, <1>10 DEF hop

\* What the tables of a topology hold.
BestTables(m, ls, t) ==
  LET best == BestDistances(m, ls) IN
  \A src, d \in Node : src # d =>
    LET hop == t[src][d] IN
    IF best[src][d] = Worst(m)
      THEN hop = NoHop
      ELSE \E c \in Costs(m, ls, src, hop) : Combine(m, c, best[hop][d]) = best[src][d]

LEMMA TablesBest ==
  ASSUME NEW m, NEW ls, Costed(m, ls), Topology(ls)
  PROVE  BestTables(m, ls, RoutingTables(m, ls))
<1> DEFINE D == BestDistances(m, ls)
           t == RoutingTables(m, ls)
<1>1. Surveyed(m, ls, D, Node)
  BY BestDistancesSurveyed
<1> HIDE DEF D
<1>2. D \in [Node -> [Node -> Dist]] /\ Bounded(m, ls, D) /\ Straight(m, D, Node)
  BY <1>1 DEF Surveyed
<1>3. ASSUME NEW src \in Node, NEW d \in Node, src # d
      PROVE  IF D[src][d] = Worst(m)
               THEN t[src][d] = NoHop
               ELSE \E c \in Costs(m, ls, src, t[src][d]) :
                      Combine(m, c, D[t[src][d]][d]) = D[src][d]
  <2> DEFINE s == BuildDijkstra(m, ls, src)
             hop == FirstHop(s.parent, src, d)
  <2>1. PICK X, rank : Explored(m, ls, src, s, X, rank) /\ s.heap = <<>>
    BY SearchExplores
  <2>2. t[src][d] = IF s.dist[d] = Worst(m) THEN NoHop ELSE hop
    BY <1>3 DEF RoutingTables, BuildRoutingTable
  <2> HIDE DEF s, t
  <2>3. Complete(m, ls, src, s, X, rank, D)
    BY <1>1, <2>1 DEF Complete
  <2>4. s.dist[d] \in Dist /\ D[src][d] \in Dist /\ AsGood(m, s.dist[d], D[src][d])
    BY <1>2, <2>1, <2>3, DistancesClosed DEF Explored, SearchInDist
  <2>5. CASE s.dist[d] = Worst(m)
    <3>1. AsGood(m, D[src][d], Worst(m)) /\ AsGood(m, Worst(m), D[src][d])
      BY <2>4, <2>5, DistOrder
    <3>2. D[src][d] = Worst(m)
      BY <2>4, <3>1, DistOrder
    <3> QED
      BY <2>2, <2>5, <3>2
  <2>6. CASE s.dist[d] # Worst(m)
    <3>1. d \in Node \ {src}
      BY <1>3
    <3>2. /\ hop \in Node
          /\ \E c \in Costs(m, ls, src, hop) : AsGood(m, Plus(m, c, D[hop][d]), s.dist[d])
      BY <2>3, <2>6, <3>1, FirstHopBest
    <3> HIDE DEF hop
    <3>3. PICK c \in Costs(m, ls, src, hop) : AsGood(m, Plus(m, c, D[hop][d]), s.dist[d])
      BY <3>2
    <3> DEFINE x == s.dist[d]
               best == D[src][d]
               first == D[src][hop]
               rest == D[hop][d]
    <3>4. /\ x \in Dist /\ best \in Dist /\ first \in Dist /\ rest \in Dist /\ c \in Dist
          /\ AsGood(m, x, best) /\ AsGood(m, Plus(m, c, rest), x)
          /\ AsGood(m, best, Plus(m, first, rest)) /\ AsGood(m, first, c)
      BY <1>2, <2>4, <3>2, <3>3, CostsInDist DEF Bounded, Straight
    <3>5. s.dist[d] = x /\ D[src][d] = best /\ D[hop][d] = rest
      OBVIOUS
    <3> HIDE DEF x, best, first, rest
    <3>6. AsGood(m, best, Plus(m, c, rest))
      <4>1. AsGood(m, rest, rest)
        BY <3>4, DistOrder
      <4> QED
        BY <3>4, <4>1, PlusBelow
    <3> DEFINE way == Plus(m, c, rest)
    <3>7. way \in Dist /\ AsGood(m, best, way) /\ AsGood(m, way, x)
      BY <3>4, <3>6, PlusLaws
    <3> HIDE DEF way
    <3>8. way = best /\ best = x
      <4>1. AsGood(m, best, x) /\ AsGood(m, way, best)
        BY <3>4, <3>7, AsGoodChain
      <4> QED
        BY <3>4, <3>7, <4>1, DistOrder
    <3>9. best # Worst(m) /\ Combine(m, c, rest) = best
      BY <2>6, <3>4, <3>5, <3>8, CombineIsPlus DEF way
    <3> QED
      BY <2>2, <2>6, <3>5, <3>9
  <2> QED
    BY <2>5, <2>6
<1> HIDE DEF t
<1>4. ASSUME NEW src \in Node, NEW d \in Node, src # d
      PROVE  LET hop == t[src][d]
             IN  IF D[src][d] = Worst(m)
                   THEN hop = NoHop
                   ELSE \E c \in Costs(m, ls, src, hop) : Combine(m, c, D[hop][d]) = D[src][d]
  BY <1>3, <1>4
<1> QED
  BY <1>4 DEF BestTables, D, t

-----------------------------------------------------------------------------
(* The tables in force.  Packets on their way do not change what the       *)
(* tables depend on, and every other change rebuilds them.                 *)

\* What the best distances depend on.
SameWire(k, l) ==
  k.a = l.a /\ k.b = l.b /\ k.up = l.up /\ k.delay = l.delay /\ k.bandwidth = l.bandwidth

SameWires(ks, ls) ==
  DOMAIN ks = DOMAIN ls /\ \A id \in DOMAIN ls : SameWire(ks[id], ls[id])

\* The best distances over the ways that lead directly from node to node.
BestOf(m, ways) ==
  (CHOOSE f : f = [inner \in SUBSET Node |->
     IF inner = {} THEN ways
     ELSE Mended(m, f[inner \ {CHOOSE n \in inner : TRUE}], CHOOSE n \in inner : TRUE)])[Node]

LEMMA BestOfDirect ==
  ASSUME NEW m, NEW ls
  PROVE  BestDistances(m, ls) = BestOf(m, [a \in Node |-> [b \in Node |-> Direct(m, ls, a, b)]])
BY DEF BestDistances, BestOf, Mended, Direct, Least, Costs

LEMMA SameCosts ==
  ASSUME NEW m, NEW ks, NEW ls, SameWires(ks, ls)
  PROVE  /\ \A id \in DOMAIN ls : LinkCost(m, ks[id]) = LinkCost(m, ls[id])
         /\ \A a, b : Costs(m, ks, a, b) = Costs(m, ls, a, b)
<1>1. \A id \in DOMAIN ls : LinkCost(m, ks[id]) = LinkCost(m, ls[id])
  BY DEF SameWires, SameWire, LinkCost
<1>2. /\ DOMAIN ks = DOMAIN ls
      /\ \A id \in DOMAIN ls : /\ ks[id].up = ls[id].up
                               /\ \A a, b : Joins(ks[id], a, b) <=> Joins(ls[id], a, b)
  BY DEF SameWires, SameWire, Joins
<1>3. ASSUME NEW a, NEW b
      PROVE  Costs(m, ks, a, b) = Costs(m, ls, a, b)
  BY <1>1, <1>2 DEF Costs
<1> QED
  BY <1>1, <1>3

LEMMA SameBest ==
  ASSUME NEW m, NEW ks, NEW ls, SameWires(ks, ls), NEW t, BestTables(m, ls, t)
  PROVE  BestTables(m, ks, t)
<1>1. \A a, b : Costs(m, ks, a, b) = Costs(m, ls, a, b)
  BY SameCosts
<1>2. \A a, b : Direct(m, ks, a, b) = Direct(m, ls, a, b)
  BY <1>1 DEF Direct
<1>3. [a \in Node |-> [b \in Node |-> Direct(m, ks, a, b)]]
        = [a \in Node |-> [b \in Node |-> Direct(m, ls, a, b)]]
  BY <1>2
<1>4. BestDistances(m, ks) = BestDistances(m, ls)
  BY <1>3, BestOfDirect
<1> QED
  BY <1>1, <1>4 DEF BestTables

\* BestTables is what RoutesBest asks of the tables.
LEMMA BestTablesInForce == BestTables(metric, links, tables) => RoutesBest
<1> SUFFICES ASSUME BestTables(metric, links, tables) PROVE RoutesBest
  OBVIOUS
<1> DEFINE best == BestDistances(metric, links)
<1>1. ASSUME NEW src \in Node, NEW d \in Node, src # d, NEW hop, hop = tables[src][d]
      PROVE  IF best[src][d] = Worst(metric)
               THEN hop = NoHop
               ELSE \E id \in DOMAIN links :
                      /\ links[id].up /\ Joins(links[id], src, hop)
                      /\ Combine(metric, LinkCost(metric, links[id]), best[hop][d])
                           = best[src][d]
  <2> HIDE DEF best
  <2>1. CASE best[src][d] = Worst(metric)
    BY <1>1, <2>1 DEF BestTables, best
  <2>2. CASE best[src][d] # Worst(metric)
    <3>1. PICK c \in Costs(metric, links, src, hop) :
            Combine(metric, c, best[hop][d]) = best[src][d]
      BY <1>1, <2>2 DEF BestTables, best
    <3> QED
      BY <2>2, <3>1 DEF Costs
  <2> QED
    BY <2>1, <2>2
<1> HIDE DEF best
<1>2. ASSUME NEW src \in Node, NEW d \in Node, src # d
      PROVE  LET hop == tables[src][d]
             IN  IF best[src][d] = Worst(metric)
                   THEN hop = NoHop
                   ELSE \E id \in DOMAIN links :
                          /\ links[id].up /\ Joins(links[id], src, hop)
                          /\ Combine(metric, LinkCost(metric, links[id]), best[hop][d])
                               = best[src][d]
  BY <1>1, <1>2
<1> QED
  BY <1>2 DEF RoutesBest, best

RoutesInv ==
  /\ \A id \in DOMAIN links : FiniteCosts(links[id])
  /\ BestTables(metric, links, tables)

\* A change of the topology or of the metric ends with new tables.
LEMMA RebuiltBest ==
  ASSUME NEW m \in RoutingMetric, NEW ls, Topology(ls),
         \A id \in DOMAIN ls : FiniteCosts(ls[id])
  PROVE  BestTables(m, ls, RoutingTables(m, ls))
<1>1. \A id \in DOMAIN ls : LinkCost(m, ls[id]) \in Nat
  BY LinkCostNat DEF Topology
<1>2. Costed(m, ls)
  BY <1>1, RoutingAssumption DEF Costed, FiniteCosts, Dist
<1> QED
  BY <1>2, TablesBest

LEMMA InitRoutesInv == Init => RoutesInv
<1> SUFFICES ASSUME Init PROVE RoutesInv
  OBVIOUS
<1>1. metric \in RoutingMetric /\ Topology(links)
  BY InitNetInv, TopologyKnown, NetworkAssumption DEF Init
<1>2. \A id \in DOMAIN links : FiniteCosts(links[id])
  <2>1. PICK t \in Topologies : links = [id \in DOMAIN t |-> t[id]]
    BY DEF Init
  <2> QED
    BY <2>1, LinksAssumption
<1>3. BestTables(metric, links, RoutingTables(metric, links))
  BY <1>1, <1>2, RebuiltBest
<1> QED
  BY <1>2, <1>3 DEF Init, RoutesInv

LEMMA SendKeepsWires ==
  ASSUME NEW ls, \A id \in DOMAIN ls : ls[id] \in LinkRecord, NEW p, NEW t,
         NEW o \in SendOutcomes(ls, p, t)
  PROVE  SameWires(o.links, ls)
<1>1. SameWires(ls, ls)
  BY DEF SameWires, SameWire
<1>2. ASSUME NEW id \in DOMAIN ls, SentOver(ls, id, p, t, o)
      PROVE  SameWires(o.links, ls)
  <2> DEFINE l == ls[id]
             mv == Moved(l, id, p, t)
             r == ReserveTransmission(l, p.current, mv.departure)
             k == EnqueueTransmission(r, Transmission(mv))
  <2>1. \/ o = Sending([ls EXCEPT ![id] = k], <<mv>>, FirstHopCount(p), 0)
        \/ o = Sending([ls EXCEPT ![id] = r], <<>>, FirstHopCount(p), 1)
    BY <1>2 DEF SentOver
  <2>2. SameWire(r, l)
    BY DEF ReserveTransmission, SameWire, LinkRecord, LinkRecords
  <2>3. SameWire(k, r)
    BY DEF ReserveTransmission, EnqueueTransmission, SameWire, LinkRecord, LinkRecords
  <2>4. SameWire(k, l)
    BY <2>2, <2>3 DEF SameWire
  <2> HIDE DEF l, mv, r, k
  <2>5. \A j \in DOMAIN ls : SameWire(ls[j], ls[j])
    BY DEF SameWire
  <2>6. o.links = [ls EXCEPT ![id] = k] \/ o.links = [ls EXCEPT ![id] = r]
    <3>1. \A ks, moved, sent, lost : Sending(ks, moved, sent, lost).links = ks
      BY DEF Sending
    <3> QED
      BY <2>1, <3>1
  <2> QED
    BY <2>2, <2>4, <2>5, <2>6 DEF SameWires, l
<1> QED
  BY <1>1, <1>2, OutcomeCases DEF Sending

LEMMA ReleaseKeepsWires ==
  ASSUME NetInv, NEW p
  PROVE  SameWires(Released(p), links)
<1>1. \A id \in DOMAIN links : links[id] \in LinkRecord
  BY DEF NetInv, GoodLinks, GoodLink
<1>2. ASSUME NEW l \in LinkRecord, NEW e
      PROVE  SameWire(DequeueTransmission(l, e), l)
  BY DEF DequeueTransmission, SameWire, LinkRecord, LinkRecords
<1>3. /\ DOMAIN Released(p) = DOMAIN links
      /\ \A id \in DOMAIN links :
           \/ Released(p)[id] = DequeueTransmission(links[id], Transmission(p))
           \/ Released(p)[id] = links[id]
  BY DEF Released
<1>4. \A id \in DOMAIN links : SameWire(links[id], links[id])
  BY DEF SameWire
<1> QED
  BY <1>1, <1>2, <1>3, <1>4 DEF SameWires

\* The queues are no concern of the tables.
LEMMA WiresKeepRoutes ==
  ASSUME RoutesInv, SameWires(links', links), metric' = metric, tables' = tables
  PROVE  RoutesInv'
<1>1. \A id \in DOMAIN links' : FiniteCosts(links'[id])
  <2>1. \A m : \A id \in DOMAIN links : LinkCost(m, links'[id]) = LinkCost(m, links[id])
    BY SameCosts
  <2> QED
    BY <2>1 DEF RoutesInv, FiniteCosts, SameWires
<1>2. BestTables(metric, links', tables)
  BY SameBest DEF RoutesInv
<1> QED
  BY <1>1, <1>2 DEF RoutesInv

LEMMA PacketsKeepRoutes ==
  ASSUME NetInv, RoutesInv,
         \/ \E f, t : Send(f[1], f[2], t)
         \/ RunArrival
  PROVE  RoutesInv'
<1>1. \A id \in DOMAIN links : links[id] \in LinkRecord
  BY DEF NetInv, GoodLinks, GoodLink
<1>2. ASSUME NEW f, NEW t, Send(f[1], f[2], t)
      PROVE  RoutesInv'
  <2>1. PICK o \in SendOutcomes(links, NewPacket(f[1], f[2]), t) : links' = o.links
    BY <1>2 DEF Send
  <2>2. SameWires(links', links)
    BY <1>1, <2>1, SendKeepsWires
  <2> QED
    BY <1>2, <2>2, WiresKeepRoutes DEF Send
<1>3. ASSUME NEW i \in DOMAIN arrivals, Deliver(i)
      PROVE  RoutesInv'
  <2>1. SameWires(links', links)
    BY <1>3, ReleaseKeepsWires DEF Deliver
  <2> QED
    BY <1>3, <2>1, WiresKeepRoutes DEF Deliver
<1>4. ASSUME NEW i \in DOMAIN arrivals, Forward(i)
      PROVE  RoutesInv'
  <2> DEFINE p == arrivals[i]
             ls == Released(p)
  <2>1. PICK o \in SendOutcomes(ls, p, p.arrival) : links' = o.links
    BY <1>4 DEF Forward
  <2>2. \A id \in DOMAIN ls : ls[id] \in LinkRecord
    <3>1. GoodLinks(ls)
      BY <1>4, ReleasedSound DEF NetInv, Forward
    <3> QED
      BY <3>1 DEF GoodLinks, GoodLink
  <2>3. SameWires(ls, links)
    BY ReleaseKeepsWires
  <2> HIDE DEF p, ls
  <2>4. SameWires(links', ls)
    BY <2>1, <2>2, SendKeepsWires
  <2>5. SameWires(links', links)
    BY <2>3, <2>4 DEF SameWires, SameWire
  <2> QED
    BY <1>4, <2>5, WiresKeepRoutes DEF Forward
<1> QED
  BY <1>2, <1>3, <1>4 DEF RunArrival

LEMMA ChangeKeepsRoutes ==
  ASSUME NetInv, NetInv', TypeInv, RoutesInv, NEW t, ChangeTopology(t)
  PROVE  RoutesInv'
<1>1. metric' \in Metrics /\ tables' = RoutingTables(metric', links')
  BY DEF ChangeTopology, ToggleLinkUp, DeleteLink, DeleteNode, CreateLink,
         SetRoutingMetric, Rebuilt, TypeInv
<1>2. Topology(links')
  <2>1. Topology(links)'
    BY TopologyKnown, PTL
  <2> QED
    BY <2>1
<1>3. \A id \in DOMAIN links : FiniteCosts(links[id]) /\ links[id] \in LinkRecord
  BY DEF RoutesInv, NetInv, GoodLinks, GoodLink
<1>4. \A id \in DOMAIN links' : FiniteCosts(links'[id])
  <2>1. ASSUME NEW a, NEW b, NEW up, ToggleLinkUp(a, b, up, t)
        PROVE  \A id \in DOMAIN links' : FiniteCosts(links'[id])
    <3>1. ASSUME NEW l \in LinkRecord, FiniteCosts(l)
          PROVE  FiniteCosts([l EXCEPT !.up = up])
      <4>1. /\ [l EXCEPT !.up = up].delay = l.delay
            /\ [l EXCEPT !.up = up].bandwidth = l.bandwidth
        BY DEF LinkRecord, LinkRecords
      <4> QED
        BY <3>1, <4>1 DEF FiniteCosts, LinkCost
    <3>2. /\ DOMAIN links' = DOMAIN links
          /\ \A id \in DOMAIN links :
               links'[id] = links[id] \/ links'[id] = [links[id] EXCEPT !.up = up]
      BY <2>1 DEF ToggleLinkUp
    <3> QED
      BY <1>3, <3>1, <3>2
  <2>2. ASSUME NEW ids \in SUBSET DOMAIN links, links' = Keep(ids)
        PROVE  \A id \in DOMAIN links' : FiniteCosts(links'[id])
    BY <1>3, <2>2 DEF Keep
  <2>3. ASSUME NEW l \in NewLinks, CreateLink(l, t)
        PROVE  \A id \in DOMAIN links' : FiniteCosts(links'[id])
    BY <1>3, <2>3, LinksAssumption DEF CreateLink
  <2>4. ASSUME NEW a, NEW b, DeleteLink(a, b, t)
        PROVE  \A id \in DOMAIN links' : FiniteCosts(links'[id])
    BY <2>2, <2>4 DEF DeleteLink
  <2>5. ASSUME NEW n, DeleteNode(n, t)
        PROVE  \A id \in DOMAIN links' : FiniteCosts(links'[id])
    BY <2>2, <2>5 DEF DeleteNode
  <2>6. ASSUME NEW m, SetRoutingMetric(m, t)
        PROVE  \A id \in DOMAIN links' : FiniteCosts(links'[id])
    BY <1>3, <2>6 DEF SetRoutingMetric
  <2> QED
    BY <2>1, <2>3, <2>4, <2>5, <2>6 DEF ChangeTopology
<1>5. metric' \in RoutingMetric
  BY <1>1, NetworkAssumption
<1>6. BestTables(metric', links', RoutingTables(metric', links'))
  BY <1>2, <1>4, <1>5, RebuiltBest
<1> QED
  BY <1>1, <1>4, <1>6 DEF RoutesInv

LEMMA StepKeepsRoutes ==
  NetInv /\ NetInv' /\ TypeInv /\ RoutesInv /\ [Next]_vars => RoutesInv'
<1> SUFFICES ASSUME NetInv, NetInv', TypeInv, RoutesInv, [Next]_vars
             PROVE  RoutesInv'
  OBVIOUS
<1>1. CASE UNCHANGED vars
  BY <1>1 DEF vars, topologyVars, RoutesInv
<1>2. CASE Next
  BY <1>2, PacketsKeepRoutes, ChangeKeepsRoutes DEF Next
<1> QED
  BY <1>1, <1>2

(***************************************************************************)
(* Whatever links fail, go or come and whatever metric is chosen, and for  *)
(* topologies of any size: the tables in force lead from every node to     *)
(* every other over a link that is up and is the first of a best way, the  *)
(* one the reference definition finds, and to nowhere when there is no way *)
(* (buildDijkstra, buildRoutingTable, rebuildRoutingTables).               *)
(***************************************************************************)
THEOREM RoutesAreBest == Spec => []RoutesBest
<1>1. Spec => [](NetInv /\ TypeInv /\ RoutesInv)
  BY NetInvariance, InitTypeInv, StepKeepsTypes, InitRoutesInv, StepKeepsRoutes, PTL DEF Spec
<1>2. RoutesInv => RoutesBest
  BY BestTablesInForce DEF RoutesInv
<1> QED
  BY <1>1, <1>2, PTL

-----------------------------------------------------------------------------
(* The ways that the parents of a search show.                             *)

\* The nodes other than src that the search reaches.
Found(m, src, s) == {v \in Node \ {src} : s.dist[v] # Worst(m)}

LEMMA FoundByParent ==
  ASSUME NEW m, NEW ls, Costed(m, ls), NEW src \in Node, NEW s, NEW X, NEW rank, NEW D,
         Complete(m, ls, src, s, X, rank, D)
  PROVE  /\ src \in X /\ X \in SUBSET Node /\ rank \in [Node -> Nat]
         /\ s.dist \in [Node -> Dist] /\ s.dist[src] = Zero(m)
         /\ \A v \in Found(m, src, s) :
              /\ v \in X /\ s.parent[v] \in X /\ rank[s.parent[v]] < rank[v]
              /\ s.parent[v] # src => s.parent[v] \in Found(m, src, s)
              /\ \E c \in Costs(m, ls, s.parent[v], v) :
                   c \in Dist /\ s.dist[v] = Plus(m, s.dist[s.parent[v]], c)
<1>1. /\ X \in SUBSET Node /\ rank \in [Node -> Nat] /\ s.dist \in [Node -> Dist]
      /\ Tree(m, ls, src, s, X, rank) /\ s.dist[src] = Zero(m)
  BY DEF Complete, Explored, SearchInDist, Tree
<1>2. \A v \in Node : s.dist[v] # Worst(m) => v \in X
  BY DistancesClosed
<1>3. src \in X
  BY <1>1, <1>2, DistOrder
<1>4. ASSUME NEW v \in Found(m, src, s)
      PROVE  /\ v \in X /\ s.parent[v] \in X /\ rank[s.parent[v]] < rank[v]
             /\ s.parent[v] # src => s.parent[v] \in Found(m, src, s)
             /\ \E c \in Costs(m, ls, s.parent[v], v) :
                  c \in Dist /\ s.dist[v] = Plus(m, s.dist[s.parent[v]], c)
  <2> DEFINE p == s.parent[v]
  <2>1. v \in Node \ {src} /\ s.dist[v] # Worst(m) /\ v \in X
    BY <1>2 DEF Found
  <2>2. Reached(m, ls, s, X, rank, v)
    BY <1>1, <2>1 DEF Tree
  <2>3. PICK c \in Costs(m, ls, p, v) : s.dist[v] = Plus(m, s.dist[p], c)
    BY <2>2 DEF Reached
  <2>4. p \in X /\ rank[p] < rank[v]
    BY <2>1, <2>2 DEF Reached
  <2> HIDE DEF p
  <2>5. c \in Dist /\ p \in Node
    BY <1>1, <2>4, CostsInDist
  <2>6. s.dist[p] # Worst(m)
    BY <2>1, <2>3, <2>5, PlusLaws
  <2> QED
    BY <2>1, <2>3, <2>4, <2>5, <2>6 DEF Found, p
<1> QED
  BY <1>1, <1>3, <1>4

\* No node is expanded before the source.
LEMMA SourceFirst ==
  ASSUME NEW m, NEW ls, Costed(m, ls), NEW src \in Node, NEW s, NEW X, NEW rank, NEW D,
         Complete(m, ls, src, s, X, rank, D), NEW v \in Found(m, src, s)
  PROVE  rank[src] < rank[v]
<1>1. /\ rank \in [Node -> Nat] /\ Found(m, src, s) \in SUBSET Node
      /\ \A w \in Found(m, src, s) :
           /\ s.parent[w] \in Node /\ rank[s.parent[w]] < rank[w]
           /\ s.parent[w] # src => s.parent[w] \in Found(m, src, s)
  BY FoundByParent DEF Found
<1> DEFINE Early == {k \in Nat : \E w \in Found(m, src, s) : rank[w] = k /\ k <= rank[src]}
<1>2. Early = {}
  <2> SUFFICES ASSUME Early # {} PROVE FALSE
    OBVIOUS
  <2>1. PICK k \in Early : \A l \in Early : k <= l
    BY LeastNatural
  <2>2. PICK w \in Found(m, src, s) : rank[w] = k /\ k <= rank[src]
    BY <2>1
  <2>3. /\ s.parent[w] \in Node /\ rank[s.parent[w]] < k /\ rank[s.parent[w]] \in Nat
        /\ rank[src] \in Nat
    BY <1>1, <2>2
  <2>4. s.parent[w] # src
    BY <2>2, <2>3
  <2>5. rank[s.parent[w]] \in Early
    BY <1>1, <2>2, <2>3, <2>4
  <2> QED
    BY <2>1, <2>3, <2>5
<1> QED
  BY <1>1, <1>2

\* The first hop towards a node is the one towards its parent, as long as
\* that is not the source.
LEMMA HopClimbs ==
  ASSUME NEW m, NEW ls, Costed(m, ls), NEW src \in Node, NEW s, NEW X, NEW rank, NEW D,
         Complete(m, ls, src, s, X, rank, D), NEW v \in Found(m, src, s)
  PROVE  FirstHop(s.parent, src, v)
           = IF s.parent[v] = src THEN v ELSE FirstHop(s.parent, src, s.parent[v])
<1> DEFINE par == s.parent
           p == par[v]
           Up(a) == IF a = NoHop \/ par[a] = src THEN a ELSE par[a]
<1>1. PICK h : Climbed(par, src, v, h, NumNodes) /\ FirstHop(par, src, v) = h[NumNodes]
  BY ClimbExists
<1>2. /\ v \in Node /\ v # NoHop /\ NumNodes \in Nat /\ NumNodes # 0
      /\ p # src => p \in Found(m, src, s)
  <2>1. p # src => p \in Found(m, src, s)
    BY FoundByParent
  <2>2. v \in Node
    BY DEF Found
  <2> QED
    BY <2>1, <2>2, RoutingAssumption DEF Node, NoHop
<1>3. h[0] = v /\ \A k \in 1 .. NumNodes : h[k] = Up(h[k - 1])
  <2>1. 0 \in 0 .. NumNodes /\ \A k \in 1 .. NumNodes : k \in 0 .. NumNodes /\ k # 0
    BY <1>2
  <2>2. h[0] = v
    BY <1>1, <2>1 DEF Climbed
  <2>3. ASSUME NEW k \in 1 .. NumNodes
        PROVE  h[k] = Up(h[k - 1])
    BY <1>1, <2>1 DEF Climbed
  <2> QED
    BY <2>2, <2>3
<1>4. par[h[NumNodes]] = src
  <2>1. v \in Node \ {src} /\ s.dist[v] # Worst(m)
    BY DEF Found
  <2> QED
    BY <1>1, <2>1, FirstHopBest
<1>5. CASE p = src
  <2> DEFINE Bad == {k \in 0 .. NumNodes : h[k] # v}
  <2>1. Bad = {}
    <3> SUFFICES ASSUME Bad # {} PROVE FALSE
      OBVIOUS
    <3>1. PICK k \in Bad : \A l \in Bad : k <= l
      <4>1. Bad \in SUBSET Nat
        BY <1>2
      <4> HIDE DEF Bad
      <4> QED
        BY <4>1, LeastNatural
    <3>2. k \in 1 .. NumNodes /\ k - 1 \in 0 .. NumNodes /\ ~ (k <= k - 1) /\ h[k] # v
      BY <1>2, <1>3, <3>1
    <3>3. h[k - 1] = v
      BY <3>1, <3>2
    <3>4. h[k] = Up(v) /\ Up(v) = v
      BY <1>3, <1>5, <3>2, <3>3
    <3> HIDE DEF Up
    <3> QED
      BY <3>2, <3>4
  <2> QED
    BY <1>1, <1>2, <1>5, <2>1
<1>6. CASE p # src
  <2>1. PICK g : Climbed(par, src, p, g, NumNodes) /\ FirstHop(par, src, p) = g[NumNodes]
    BY ClimbExists
  <2>2. g[0] = p /\ \A k \in 1 .. NumNodes : g[k] = Up(g[k - 1])
    BY <1>2, <2>1 DEF Climbed
  <2> DEFINE Bad == {k \in 1 .. NumNodes : h[k] # g[k - 1]}
  <2>3. Bad = {}
    <3> SUFFICES ASSUME Bad # {} PROVE FALSE
      OBVIOUS
    <3>1. PICK k \in Bad : \A l \in Bad : k <= l
      <4>1. Bad \in SUBSET Nat
        BY <1>2
      <4> HIDE DEF Bad
      <4> QED
        BY <4>1, LeastNatural
    <3>2. k \in 1 .. NumNodes /\ h[k] # g[k - 1]
      OBVIOUS
    <3>3. CASE k = 1
      <4>1. k - 1 = 0
        BY <3>3
      <4> QED
        BY <1>2, <1>3, <1>6, <2>2, <3>2, <4>1
    <3>4. CASE k # 1
      <4>1. k - 1 \in 1 .. NumNodes /\ ~ (k <= k - 1)
        BY <1>2, <3>2, <3>4
      <4>2. h[k - 1] = g[(k - 1) - 1]
        BY <3>1, <4>1
      <4> HIDE DEF Up
      <4> QED
        BY <1>3, <2>2, <3>2, <4>1, <4>2
    <3> QED
      BY <3>3, <3>4
  <2>4. NumNodes \in 1 .. NumNodes
    BY <1>2
  <2>5. g[NumNodes] = h[NumNodes]
    BY <1>4, <2>2, <2>3, <2>4
  <2> QED
    BY <1>1, <1>6, <2>1, <2>5
<1> QED
  BY <1>5, <1>6

\* The nodes on the way from src to d that the parents show, without src.
Way(parent, src, d) ==
  {v \in Node :
     \A B \in SUBSET Node :
       d \in B /\ (\A k \in B : parent[k] = src \/ parent[k] \in B) => v \in B}

LEMMA WayFacts ==
  ASSUME NEW m, NEW ls, Costed(m, ls), NEW src \in Node, NEW s, NEW X, NEW rank, NEW D,
         Complete(m, ls, src, s, X, rank, D), NEW d \in Found(m, src, s)
  PROVE  LET W == Way(s.parent, src, d)
             hop == FirstHop(s.parent, src, d)
         IN  /\ d \in W /\ hop \in W /\ s.parent[hop] = src /\ W \in SUBSET Found(m, src, s)
             /\ \A v \in W : /\ FirstHop(s.parent, src, v) = hop
                             /\ v # hop => s.parent[v] \in W
                             /\ v # d => rank[v] <= rank[s.parent[d]]
<1> DEFINE par == s.parent
           W == Way(par, src, d)
           hop == FirstHop(par, src, d)
           F == Found(m, src, s)
<1>1. /\ rank \in [Node -> Nat] /\ F \in SUBSET Node /\ d \in F
      /\ \A v \in F : /\ par[v] \in Node /\ rank[par[v]] < rank[v]
                      /\ par[v] # src => par[v] \in F
                      /\ FirstHop(par, src, v)
                           = IF par[v] = src THEN v ELSE FirstHop(par, src, par[v])
  BY FoundByParent, HopClimbs DEF Found
<1> HIDE DEF F, par
<1>2. ASSUME NEW B \in SUBSET Node, d \in B,
             \A k \in B : par[k] = src \/ par[k] \in B
      PROVE  W \in SUBSET B
  BY <1>2 DEF Way
<1>3. d \in W /\ \A v \in W : par[v] # src /\ par[v] \in Node => par[v] \in W
  BY <1>1 DEF Way
<1> HIDE DEF W
<1>4. W \in SUBSET {v \in F : FirstHop(par, src, v) = hop}
  <2> DEFINE B == {v \in F : FirstHop(par, src, v) = hop}
  <2>1. B \in SUBSET Node /\ d \in B
    BY <1>1
  <2>2. \A k \in B : par[k] = src \/ par[k] \in B
    BY <1>1
  <2> HIDE DEF B
  <2>3. W \in SUBSET B
    BY <1>2, <2>1, <2>2
  <2> QED
    BY <2>3 DEF B
<1>5. \A v \in W : v # hop => par[v] \in W
  BY <1>1, <1>3, <1>4
<1>6. ASSUME NEW v \in W, v # d
      PROVE  rank[v] <= rank[par[d]]
  <2> DEFINE B == {d} \union {w \in F : rank[w] <= rank[par[d]]}
  <2>1. B \in SUBSET Node /\ d \in B
    BY <1>1
  <2>2. ASSUME NEW k \in B, par[k] # src
        PROVE  par[k] \in B
    <3>1. k \in F /\ par[k] \in F /\ rank[par[k]] < rank[k]
      BY <1>1, <2>2
    <3>2. rank[par[k]] \in Nat /\ rank[k] \in Nat /\ rank[par[d]] \in Nat
      BY <1>1, <3>1
    <3>3. rank[par[k]] <= rank[par[d]]
      BY <3>1, <3>2
    <3> QED
      BY <3>1, <3>3
  <2> HIDE DEF B
  <2>3. W \in SUBSET B
    BY <1>2, <2>1, <2>2
  <2> QED
    BY <1>6, <2>3 DEF B
<1>7. hop \in W /\ par[hop] = src
  <2> DEFINE K == {k \in Nat : \E v \in W : rank[v] = k}
  <2>1. K # {}
    BY <1>1, <1>3
  <2>2. PICK k \in K : \A l \in K : k <= l
    BY <2>1, LeastNatural
  <2>3. PICK v \in W : rank[v] = k
    BY <2>2
  <2>4. v \in F /\ FirstHop(par, src, v) = hop /\ k \in Nat
    BY <1>4, <2>3
  <2>5. par[v] = src
    <3> SUFFICES ASSUME par[v] # src PROVE FALSE
      OBVIOUS
    <3>1. par[v] \in W /\ rank[par[v]] \in Nat /\ rank[par[v]] < k
      BY <1>1, <1>3, <2>3, <2>4
    <3>2. rank[par[v]] \in K
      BY <3>1
    <3> QED
      BY <2>2, <2>4, <3>1, <3>2
  <2>6. v = hop
    BY <1>1, <2>4, <2>5
  <2> QED
    BY <2>3, <2>5, <2>6
<1> HIDE DEF hop
<1>8. /\ d \in W /\ hop \in W /\ par[hop] = src /\ W \in SUBSET F
      /\ \A v \in W : /\ FirstHop(par, src, v) = hop
                      /\ v # hop => par[v] \in W
                      /\ v # d => rank[v] <= rank[par[d]]
  BY <1>3, <1>4, <1>5, <1>6, <1>7
<1> QED
  BY <1>8 DEF W, hop, F, par

-----------------------------------------------------------------------------
(* The farthest node of a way.                                             *)

LEMMA LexLeast ==
  ASSUME NEW K, K # {}, NEW f \in [K -> Nat], NEW g \in [K -> Nat]
  PROVE  \E e \in K : \A x \in K : f[e] < f[x] \/ (f[e] = f[x] /\ g[e] <= g[x])
<1> DEFINE I == {i \in Nat : \E x \in K : f[x] = i}
<1>1. PICK i \in I : \A j \in I : i <= j
  <2>1. I # {}
    OBVIOUS
  <2> QED
    BY <2>1, LeastNatural
<1> DEFINE J == {j \in Nat : \E x \in K : f[x] = i /\ g[x] = j}
<1>2. PICK j \in J : \A k \in J : j <= k
  <2>1. J # {}
    BY <1>1
  <2> QED
    BY <2>1, LeastNatural
<1>3. PICK e \in K : f[e] = i /\ g[e] = j
  BY <1>2
<1>4. ASSUME NEW x \in K
      PROVE  f[e] < f[x] \/ (f[e] = f[x] /\ g[e] <= g[x])
  <2>1. f[x] \in I /\ i <= f[x] /\ i \in Nat /\ f[x] \in Nat
    BY <1>1
  <2>2. f[x] = i => j <= g[x]
    BY <1>2
  <2> QED
    BY <1>3, <2>1, <2>2
<1> QED
  BY <1>3, <1>4

LEMMA PrecedesOrder ==
  ASSUME NEW m
  PROVE  \A e, f, g \in Dist \X Node :
           /\ Precedes(m, e, f) \/ Precedes(m, f, e)
           /\ Precedes(m, e, f) /\ Precedes(m, f, g) => Precedes(m, e, g)
           /\ Precedes(m, e, f) /\ Precedes(m, f, e) => e = f
<1>1. \A e \in Dist \X Node : e[1] \in Nat /\ e[2] \in Nat /\ e = <<e[1], e[2]>>
  BY RoutingAssumption DEF Dist, Node
<1> QED
  BY <1>1 DEF Precedes, Better

LEMMA LeastKey ==
  ASSUME NEW m, NEW K, K # {}, NEW key \in [K -> Dist \X Node]
  PROVE  \E e \in K : \A x \in K : Precedes(m, key[e], key[x])
<1> DEFINE f == [x \in K |-> IF Maximise(m) THEN Infinity - key[x][1] ELSE key[x][1]]
           g == [x \in K |-> key[x][2]]
<1>1. \A x \in K : /\ key[x][1] \in Nat /\ key[x][1] <= Infinity /\ key[x][2] \in Nat
                   /\ Infinity - key[x][1] \in Nat
  BY RoutingAssumption DEF Dist, Node
<1>2. f \in [K -> Nat] /\ g \in [K -> Nat]
  BY <1>1
<1>3. PICK e \in K : \A x \in K : f[e] < f[x] \/ (f[e] = f[x] /\ g[e] <= g[x])
  <2> HIDE DEF f, g
  <2> QED
    BY <1>2, LexLeast
<1>4. ASSUME NEW x \in K
      PROVE  Precedes(m, key[e], key[x])
  <2>1. f[e] < f[x] \/ (f[e] = f[x] /\ g[e] <= g[x])
    BY <1>3
  <2>2. g[e] = key[e][2] /\ g[x] = key[x][2]
    OBVIOUS
  <2>3. Infinity \in Nat
    BY RoutingAssumption
  <2>4. CASE Maximise(m)
    <3>1. f[e] = Infinity - key[e][1] /\ f[x] = Infinity - key[x][1]
      BY <2>4
    <3> HIDE DEF f, g
    <3> QED
      BY <1>1, <2>1, <2>2, <2>3, <2>4, <3>1 DEF Precedes, Better
  <2>5. CASE ~ Maximise(m)
    <3>1. f[e] = key[e][1] /\ f[x] = key[x][1]
      BY <2>5
    <3> HIDE DEF f, g
    <3> QED
      BY <1>1, <2>1, <2>2, <2>5, <3>1 DEF Precedes, Better
  <2> QED
    BY <2>4, <2>5
<1> QED
  BY <1>4

LEMMA GreatestKey ==
  ASSUME NEW m, NEW K, K # {}, NEW key \in [K -> Dist \X Node]
  PROVE  \E e \in K : \A x \in K : Precedes(m, key[x], key[e])
<1> DEFINE f == [x \in K |-> IF Maximise(m) THEN key[x][1] ELSE Infinity - key[x][1]]
           g == [x \in K |-> NumNodes - key[x][2]]
<1>1. \A x \in K : /\ key[x][1] \in Nat /\ key[x][1] <= Infinity /\ key[x][2] \in Nat
                   /\ Infinity - key[x][1] \in Nat /\ NumNodes - key[x][2] \in Nat
  BY RoutingAssumption DEF Dist, Node
<1>2. f \in [K -> Nat] /\ g \in [K -> Nat]
  BY <1>1
<1>3. PICK e \in K : \A x \in K : f[e] < f[x] \/ (f[e] = f[x] /\ g[e] <= g[x])
  <2> HIDE DEF f, g
  <2> QED
    BY <1>2, LexLeast
<1>4. ASSUME NEW x \in K
      PROVE  Precedes(m, key[x], key[e])
  <2>1. f[e] < f[x] \/ (f[e] = f[x] /\ g[e] <= g[x])
    BY <1>3
  <2>2. g[e] = NumNodes - key[e][2] /\ g[x] = NumNodes - key[x][2]
    OBVIOUS
  <2>3. Infinity \in Nat /\ NumNodes \in Nat
    BY RoutingAssumption
  <2>4. CASE Maximise(m)
    <3>1. f[e] = key[e][1] /\ f[x] = key[x][1]
      BY <2>4
    <3> HIDE DEF f, g
    <3> QED
      BY <1>1, <2>1, <2>2, <2>3, <2>4, <3>1 DEF Precedes, Better
  <2>5. CASE ~ Maximise(m)
    <3>1. f[e] = Infinity - key[e][1] /\ f[x] = Infinity - key[x][1]
      BY <2>5
    <3> HIDE DEF f, g
    <3>2. /\ key[e][1] \in Nat /\ key[x][1] \in Nat /\ key[e][2] \in Nat /\ key[x][2] \in Nat
      BY <1>1
    <3>3. key[x][1] < key[e][1] \/ (key[x][1] = key[e][1] /\ key[x][2] <= key[e][2])
      BY <2>1, <2>2, <2>3, <3>1, <3>2
    <3> QED
      BY SMT, <2>5, <3>3 DEF Precedes, Better
  <2> QED
    BY <2>4, <2>5
<1> QED
  BY <1>4

\* Of the nodes between src and d, the one that is expanded last by rights.
Peak(m, src, s, d, t) ==
  /\ t \in Way(s.parent, src, d) \ {d}
  /\ \A v \in Way(s.parent, src, d) \ {d} : Precedes(m, <<s.dist[v], v>>, <<s.dist[t], t>>)

LEMMA PeakExists ==
  ASSUME NEW m, NEW ls, Costed(m, ls), NEW src \in Node, NEW s, NEW X, NEW rank, NEW D,
         Complete(m, ls, src, s, X, rank, D), NEW d \in Found(m, src, s),
         FirstHop(s.parent, src, d) # d
  PROVE  \E t : Peak(m, src, s, d, t)
<1> DEFINE K == Way(s.parent, src, d) \ {d}
           key == [v \in K |-> <<s.dist[v], v>>]
<1>1. K # {} /\ K \in SUBSET Node
  BY WayFacts DEF Found
<1>2. s.dist \in [Node -> Dist]
  BY FoundByParent
<1>3. key \in [K -> Dist \X Node]
  <2> HIDE DEF K
  <2> QED
    BY <1>1, <1>2
<1>4. \E t \in K : \A v \in K : Precedes(m, key[v], key[t])
  <2> HIDE DEF K, key
  <2> QED
    BY <1>1, <1>3, GreatestKey
<1>5. PICK t \in K : \A v \in K : Precedes(m, key[v], key[t])
  BY <1>4
<1>6. \A v \in K : key[v] = <<s.dist[v], v>>
  OBVIOUS
<1> HIDE DEF key
<1> QED
  BY <1>5, <1>6 DEF Peak

\* The first hop is as near to the nodes of the way as its source.
LEMMA HopAsNear ==
  ASSUME NEW m, NEW ls, Costed(m, ls), NEW D,
         NEW n \in Node, NEW s, NEW X, NEW rank, Complete(m, ls, n, s, X, rank, D),
         NEW h \in Node, NEW z, NEW Z, NEW order, Complete(m, ls, h, z, Z, order, D),
         NEW d \in Found(m, n, s), h = FirstHop(s.parent, n, d),
         NEW v \in Way(s.parent, n, d)
  PROVE  AsGood(m, z.dist[v], s.dist[v])
<1>1. v \in Found(m, n, s) /\ FirstHop(s.parent, n, v) = h
  BY WayFacts
<1>2. v \in Node \ {n} /\ s.dist[v] # Worst(m)
  BY <1>1 DEF Found
<1>3. PICK c \in Costs(m, ls, n, h) : AsGood(m, Plus(m, c, D[h][v]), s.dist[v])
  BY <1>1, <1>2, FirstHopBest
<1>4. AsGood(m, z.dist[v], D[h][v])
  BY <1>2, DistancesClosed
<1> DEFINE x == z.dist[v]
           y == s.dist[v]
           w == D[h][v]
<1>5. x \in Dist /\ y \in Dist /\ w \in Dist /\ c \in Dist
  BY <1>2, FoundByParent, CostsInDist DEF Complete, Surveyed
<1>6. AsGood(m, x, w) /\ AsGood(m, Plus(m, c, w), y)
  BY <1>3, <1>4
<1> HIDE DEF x, y, w
<1>7. AsGood(m, w, Plus(m, c, w)) /\ Plus(m, c, w) \in Dist
  BY <1>5, PlusLaws
<1>8. AsGood(m, x, Plus(m, c, w))
  BY <1>5, <1>6, <1>7, AsGoodChain
<1>9. AsGood(m, x, y)
  BY <1>5, <1>6, <1>7, <1>8, AsGoodChain
<1> QED
  BY <1>9 DEF x, y

\* The farthest node between the first hop and d is no farther than the one
\* between its source and d.
LEMMA PeakDescends ==
  ASSUME NEW m, NEW ls, Costed(m, ls), NEW D,
         NEW n \in Node, NEW s, NEW X, NEW rank, Complete(m, ls, n, s, X, rank, D),
         NEW h \in Node, NEW z, NEW Z, NEW order, Complete(m, ls, h, z, Z, order, D),
         NEW d \in Found(m, n, s), h = FirstHop(s.parent, n, d), d \in Found(m, h, z),
         s.dist[d] = z.dist[d],
         NEW t, Peak(m, n, s, d, t), NEW far, Peak(m, h, z, d, far)
  PROVE  Precedes(m, <<z.dist[far], far>>, <<s.dist[t], t>>)
<1> DEFINE Q == Way(s.parent, n, d)
           In == {v \in Q : v \in Z /\ order[v] < order[far]}
<1>1. /\ d \in Q /\ h \in Q /\ Q \in SUBSET Found(m, n, s)
      /\ \A v \in Q \ {h} : s.parent[v] \in Q
  BY WayFacts
<1>2. /\ Z \in SUBSET Node /\ order \in [Node -> Nat] /\ h \in Z
      /\ rank \in [Node -> Nat] /\ z.dist \in [Node -> Dist] /\ s.dist \in [Node -> Dist]
      /\ z.parent[d] \in Z /\ d \in Z /\ order[z.parent[d]] < order[d]
  BY FoundByParent
<1>3. Settled(m, ls, z, Z) /\ Earliest(m, ls, h, z, Z, order) /\ FirstServed(m, ls, z, Z, order)
  BY DEF Complete, Explored, Ordered
<1>4. \A v \in Q : AsGood(m, z.dist[v], s.dist[v])
  BY HopAsNear
<1>5. /\ far \in Found(m, h, z) /\ far \in Z /\ far \in Node /\ far # d
      /\ order[far] <= order[z.parent[d]]
  <2>1. far \in Way(z.parent, h, d) \ {d}
    BY DEF Peak
  <2>2. far \in Found(m, h, z) /\ order[far] <= order[z.parent[d]]
    BY <2>1, WayFacts
  <2> QED
    BY <2>1, <2>2, FoundByParent DEF Found
<1>6. h \in In
  BY <1>1, <1>2, <1>5, SourceFirst
<1>7. d \notin In
  BY <1>2, <1>5
<1>8. t \in Q /\ \A v \in Q \ {d} : Precedes(m, <<s.dist[v], v>>, <<s.dist[t], t>>)
  BY DEF Peak
<1> HIDE DEF Q
\* The first node of the way that the first hop expands no earlier than far.
<1>9. \E w \in Q \ In : \A v \in Q \ In : rank[w] <= rank[v]
  <2> DEFINE K == {k \in Nat : \E v \in Q \ In : rank[v] = k}
  <2>1. \A v \in Q \ In : rank[v] \in Nat
    BY <1>1, <1>2 DEF Found
  <2>2. K # {}
    BY <1>1, <1>7, <2>1
  <2>3. PICK k \in K : \A l \in K : k <= l
    BY <2>2, LeastNatural
  <2>4. PICK w \in Q \ In : rank[w] = k
    BY <2>3
  <2>5. \A v \in Q \ In : rank[v] \in K
    BY <2>1
  <2> QED
    BY <2>3, <2>4, <2>5
<1>10. PICK w \in Q \ In : \A v \in Q \ In : rank[w] <= rank[v]
  BY <1>9
<1> DEFINE q == s.parent[w]
<1>11. /\ w \in Node /\ w # h /\ s.dist[w] # Worst(m)
       /\ w \notin Z \/ order[far] <= order[w]
       /\ q \in Q
  <2>1. w \in Q \ {h} /\ w \in Found(m, n, s)
    BY <1>1, <1>6
  <2>2. w \in Z => order[w] \in Nat /\ order[far] \in Nat /\ ~ (order[w] < order[far])
    BY <1>2, <1>5, <1>10
  <2> QED
    BY <1>1, <2>1, <2>2 DEF Found
<1>12. PICK c \in Costs(m, ls, q, w) : c \in Dist /\ s.dist[w] = Plus(m, s.dist[q], c)
  BY <1>1, FoundByParent
<1>13. q \in Z /\ q \in Node /\ order[q] < order[far]
  <2>1. q \in Node /\ rank[q] < rank[w]
    BY <1>1, FoundByParent
  <2>2. q \in In
    BY <1>2, <1>10, <1>11, <2>1
  <2> QED
    BY <2>1, <2>2
<1> DEFINE offer == Plus(m, z.dist[q], c)
           x == z.dist[w]
           y == s.dist[w]
<1>14. x \in Dist /\ y \in Dist /\ offer \in Dist /\ AsGood(m, x, offer) /\ AsGood(m, offer, y)
  <2>1. z.dist[q] \in Dist /\ s.dist[q] \in Dist /\ AsGood(m, z.dist[q], s.dist[q])
    BY <1>2, <1>4, <1>11, <1>13
  <2>2. AsGood(m, offer, y)
    BY <1>12, <2>1, PlusMonotone
  <2>3. AsGood(m, x, offer)
    BY <1>3, <1>11, <1>12, <1>13 DEF Settled
  <2> QED
    BY <1>2, <1>11, <1>12, <2>1, <2>2, <2>3, PlusLaws
<1> HIDE DEF In, q
<1>15. w # d
  <2> SUFFICES ASSUME w = d PROVE FALSE
    OBVIOUS
  <2>1. x = y
    OBVIOUS
  <2>2. x = offer
    <3> HIDE DEF x, y, offer
    <3> QED
      BY <1>14, <2>1, DistOrder
  <2>3. d \in Node \ {h} /\ z.dist[d] # Worst(m)
    BY DEF Found
  <2>4. z.parent[d] = q \/ order[z.parent[d]] < order[q]
    BY <1>3, <1>12, <1>13, <2>2, <2>3 DEF Earliest
  <2>5. order[q] \in Nat /\ order[far] \in Nat /\ order[z.parent[d]] \in Nat
    BY <1>2, <1>5, <1>13
  <2> QED
    BY <1>5, <1>13, <2>4, <2>5
<1>16. offer # Worst(m)
  <2>1. y # Worst(m)
    BY <1>11
  <2> HIDE DEF x, y, offer
  <2>2. AsGood(m, y, Worst(m)) /\ Worst(m) \in Dist
    BY <1>14, DistOrder
  <2> QED
    BY <1>14, <2>1, <2>2, DistOrder
<1>17. Precedes(m, <<z.dist[far], far>>, <<offer, w>>)
  BY <1>3, <1>5, <1>11, <1>12, <1>13, <1>16 DEF FirstServed
<1>18. Precedes(m, <<offer, w>>, <<y, w>>)
  <2>1. offer \in Nat /\ y \in Nat /\ w \in Nat
    BY <1>11, <1>14, RoutingAssumption DEF Dist, Node
  <2> HIDE DEF offer, y
  <2> QED
    BY <1>14, <2>1 DEF Precedes, AsGood, Better
<1>19. Precedes(m, <<y, w>>, <<s.dist[t], t>>)
  BY <1>8, <1>15
<1>20. /\ <<z.dist[far], far>> \in Dist \X Node /\ <<offer, w>> \in Dist \X Node
       /\ <<y, w>> \in Dist \X Node /\ <<s.dist[t], t>> \in Dist \X Node
  <2>1. t \in Node
    BY <1>1, <1>8 DEF Found
  <2> QED
    BY <1>2, <1>5, <1>11, <1>14, <2>1
<1> HIDE DEF offer, y
<1> QED
  BY <1>17, <1>18, <1>19, <1>20, PrecedesOrder

-----------------------------------------------------------------------------
(* No loops.  S, X and R hold for every node the search from it, the nodes *)
(* it expanded and their ranks.                                            *)

AllComplete(m, ls, S, X, R, D) ==
  \A n \in Node : Complete(m, ls, n, S[n], X[n], R[n], D)

\* First hops towards d that never leave L, all as far from d.
Loop(m, S, L, d) ==
  /\ L \in SUBSET Node /\ L # {}
  /\ \A n \in L : d \in Found(m, n, S[n]) /\ FirstHop(S[n].parent, n, d) \in L
  /\ \A n, k \in L : S[n].dist[d] = S[k].dist[d]

\* The nodes of a loop that are nearest to d.
LEMMA NearestLoop ==
  ASSUME NEW m, NEW ls, Costed(m, ls), NEW S, NEW X, NEW R, NEW D,
         AllComplete(m, ls, S, X, R, D), NEW d, NEW L \in SUBSET Node, L # {},
         \A n \in L : d \in Found(m, n, S[n]) /\ FirstHop(S[n].parent, n, d) \in L
  PROVE  \E E : Loop(m, S, E, d)
<1> DEFINE far == [n \in L |-> S[n].dist[d]]
           key == [n \in L |-> <<far[n], d>>]
<1>1. \A n \in Node : Complete(m, ls, n, S[n], X[n], R[n], D)
  BY DEF AllComplete
<1>2. d \in Node
  BY DEF Found
<1>3. \A n \in L : S[n].dist[d] \in Dist
  BY <1>1, <1>2, FoundByParent
<1>4. far \in [L -> Dist] /\ \A n \in L : far[n] = S[n].dist[d]
  BY <1>3
<1> HIDE DEF far
<1>5. key \in [L -> Dist \X Node] /\ \A n \in L : key[n] = <<far[n], d>>
  BY <1>2, <1>4
<1> HIDE DEF key
<1>6. PICK e \in L : \A n \in L : Precedes(m, key[e], key[n])
  BY <1>5, LeastKey
<1>7. \A n \in L : AsGood(m, far[e], far[n])
  <2> SUFFICES ASSUME NEW n \in L PROVE AsGood(m, far[e], far[n])
    OBVIOUS
  <2>1. Precedes(m, <<far[e], d>>, <<far[n], d>>)
    BY <1>5, <1>6
  <2>2. far[e] \in Nat /\ far[n] \in Nat
    BY <1>4, RoutingAssumption DEF Dist
  <2> QED
    BY <2>1, <2>2 DEF Precedes, AsGood, Better
<1> DEFINE E == {n \in L : far[n] = far[e]}
<1>8. ASSUME NEW n \in E
      PROVE  FirstHop(S[n].parent, n, d) \in E
  <2> DEFINE h == FirstHop(S[n].parent, n, d)
  <2>1. h \in L /\ h \in Node /\ n \in Node /\ d \in Found(m, n, S[n])
    OBVIOUS
  <2>2. d \in Way(S[n].parent, n, d)
    BY <1>1, <2>1, WayFacts
  <2>3. AsGood(m, S[h].dist[d], S[n].dist[d])
    <3>1. Complete(m, ls, n, S[n], X[n], R[n], D) /\ Complete(m, ls, h, S[h], X[h], R[h], D)
      BY <1>1, <2>1
    <3>2. h = FirstHop(S[n].parent, n, d)
      OBVIOUS
    <3> HIDE DEF h
    <3> QED
      BY <2>1, <2>2, <3>1, <3>2, HopAsNear
  <2> HIDE DEF h
  <2>4. AsGood(m, far[h], far[e]) /\ AsGood(m, far[e], far[h])
    BY <1>4, <1>7, <2>1, <2>3
  <2>5. far[h] \in Dist /\ far[e] \in Dist
    BY <1>4, <2>1
  <2>6. far[h] = far[e]
    BY <2>4, <2>5, DistOrder
  <2> QED
    BY <2>1, <2>6 DEF h
<1>9. Loop(m, S, E, d)
  BY <1>4, <1>8 DEF Loop
<1> QED
  BY <1>9

\* The farthest nodes on the ways of a loop that come first are the
\* destination of a loop, closer to each of its nodes.
LEMMA LoopWithin ==
  ASSUME NEW m, NEW ls, Costed(m, ls), NEW S, NEW X, NEW R, NEW D,
         AllComplete(m, ls, S, X, R, D), NEW d, NEW L, Loop(m, S, L, d)
  PROVE  \E E, t : Loop(m, S, E, t) /\ \A n \in E : n \in L /\ R[n][t] < R[n][d]
<1> DEFINE Hop(n) == FirstHop(S[n].parent, n, d)
           far == [n \in L |-> CHOOSE t : Peak(m, n, S[n], d, t)]
           key == [n \in L |-> <<S[n].dist[far[n]], far[n]>>]
<1>1. \A n \in Node : Complete(m, ls, n, S[n], X[n], R[n], D)
  BY DEF AllComplete
<1>2. /\ L \in SUBSET Node /\ L # {}
      /\ \A n \in L : d \in Found(m, n, S[n]) /\ Hop(n) \in L
      /\ \A n, k \in L : S[n].dist[d] = S[k].dist[d]
  BY DEF Loop
<1>3. ASSUME NEW n \in L
      PROVE  Peak(m, n, S[n], d, far[n])
  <2>1. d \in Found(m, n, S[n]) /\ Hop(n) \in L /\ d \in Found(m, Hop(n), S[Hop(n)])
    BY <1>2
  <2>2. Hop(n) # d
    BY <2>1 DEF Found
  <2>3. \E t : Peak(m, n, S[n], d, t)
    BY <1>1, <1>2, <2>1, <2>2, PeakExists
  <2> QED
    BY <2>3
<1> HIDE DEF far
<1>4. ASSUME NEW n \in L
      PROVE  /\ far[n] \in Found(m, n, S[n]) /\ S[n].dist[far[n]] \in Dist
             /\ FirstHop(S[n].parent, n, far[n]) = Hop(n) /\ R[n][far[n]] < R[n][d]
  <2>1. n \in Node /\ d \in Found(m, n, S[n]) /\ Complete(m, ls, n, S[n], X[n], R[n], D)
    BY <1>1, <1>2
  <2>2. far[n] \in Way(S[n].parent, n, d) \ {d}
    BY <1>3 DEF Peak
  <2>3. /\ far[n] \in Found(m, n, S[n]) /\ FirstHop(S[n].parent, n, far[n]) = Hop(n)
        /\ R[n][far[n]] <= R[n][S[n].parent[d]]
    BY <2>1, <2>2, WayFacts
  <2>4. /\ R[n] \in [Node -> Nat] /\ S[n].dist \in [Node -> Dist]
        /\ S[n].parent[d] \in Node /\ R[n][S[n].parent[d]] < R[n][d]
    BY <2>1, FoundByParent
  <2>5. far[n] \in Node /\ d \in Node
    BY <2>1, <2>3 DEF Found
  <2>6. R[n][far[n]] \in Nat /\ R[n][d] \in Nat /\ R[n][S[n].parent[d]] \in Nat
    BY <2>4, <2>5
  <2> QED
    BY <2>3, <2>4, <2>5, <2>6
<1>5. key \in [L -> Dist \X Node] /\ \A n \in L : key[n] = <<S[n].dist[far[n]], far[n]>>
  BY <1>4 DEF Found
<1> HIDE DEF key
<1>6. PICK e \in L : \A n \in L : Precedes(m, key[e], key[n])
  BY <1>2, <1>5, LeastKey
<1> DEFINE t == far[e]
           E == {n \in L : key[n] = key[e]}
<1>7. ASSUME NEW n \in L
      PROVE  Precedes(m, key[Hop(n)], key[n])
  <2> DEFINE h == Hop(n)
  <2>1. /\ n \in Node /\ h \in L /\ h \in Node /\ d \in Found(m, n, S[n])
        /\ d \in Found(m, h, S[h]) /\ S[n].dist[d] = S[h].dist[d]
    BY <1>2
  <2>2. Complete(m, ls, n, S[n], X[n], R[n], D) /\ Complete(m, ls, h, S[h], X[h], R[h], D)
    BY <1>1, <2>1
  <2>3. h = FirstHop(S[n].parent, n, d)
    OBVIOUS
  <2> HIDE DEF h
  <2>4. Precedes(m, <<S[h].dist[far[h]], far[h]>>, <<S[n].dist[far[n]], far[n]>>)
    BY <1>3, <2>1, <2>2, <2>3, PeakDescends
  <2> QED
    BY <1>5, <2>1, <2>4 DEF h
<1>8. ASSUME NEW n \in E
      PROVE  /\ t \in Found(m, n, S[n]) /\ FirstHop(S[n].parent, n, t) \in E
             /\ S[n].dist[t] = S[e].dist[t] /\ n \in L /\ R[n][t] < R[n][d]
  <2>1. n \in L /\ key[n] = key[e] /\ Hop(n) \in L
    BY <1>2
  <2>2. far[n] = t /\ S[n].dist[t] = S[e].dist[t]
    <3>1. <<S[n].dist[far[n]], far[n]>> = <<S[e].dist[far[e]], far[e]>>
      BY <1>5, <2>1
    <3> QED
      BY <3>1
  <2>3. key[Hop(n)] = key[e]
    <3>1. Precedes(m, key[Hop(n)], key[e]) /\ Precedes(m, key[e], key[Hop(n)])
      BY <1>6, <1>7, <2>1
    <3>2. key[Hop(n)] \in Dist \X Node /\ key[e] \in Dist \X Node
      BY <1>5, <2>1
    <3> QED
      BY <3>1, <3>2, PrecedesOrder
  <2> QED
    BY <1>4, <2>1, <2>2, <2>3
<1> HIDE DEF t
<1>9. E \in SUBSET Node /\ E # {}
  BY <1>2
<1> HIDE DEF E, Hop
<1>10. Loop(m, S, E, t)
  <2>1. \A n, k \in E : S[n].dist[t] = S[k].dist[t]
    BY <1>8
  <2> QED
    BY <1>8, <1>9, <2>1 DEF Loop
<1> QED
  BY <1>8, <1>10

LEMMA NoLoop ==
  ASSUME NEW m, NEW ls, Costed(m, ls), NEW S, NEW X, NEW R, NEW D,
         AllComplete(m, ls, S, X, R, D), NEW d, NEW L
  PROVE  ~ Loop(m, S, L, d)
<1> SUFFICES ASSUME Loop(m, S, L, d) PROVE FALSE
  OBVIOUS
<1> DEFINE Within(E, t, k) == Loop(m, S, E, t) /\ \A n \in E : R[n][t] <= k
           K == {k \in Nat : \E E, t : Within(E, t, k)}
<1>1. ASSUME NEW E, NEW t, Loop(m, S, E, t)
      PROVE  \A n \in E : R[n][t] \in Nat /\ R[n][t] <= NumNodes
  <2> SUFFICES ASSUME NEW n \in E PROVE R[n][t] \in Nat /\ R[n][t] <= NumNodes
    OBVIOUS
  <2>1. n \in Node /\ t \in Found(m, n, S[n]) /\ Complete(m, ls, n, S[n], X[n], R[n], D)
    BY <1>1 DEF Loop, AllComplete
  <2>2. t \in X[n] /\ X[n] \in SUBSET Node /\ R[n] \in [Node -> Nat]
    BY <2>1, FoundByParent
  <2>3. R[n][t] <= Cardinality(X[n])
    BY <2>1, <2>2 DEF Complete, Explored
  <2>4. Cardinality(X[n]) \in Nat /\ Cardinality(X[n]) <= NumNodes
    BY <2>2, NodesFinite, FS_Subset, FS_CardinalityType
  <2>5. R[n][t] \in Nat
    BY <2>2
  <2> QED
    BY <2>3, <2>4, <2>5, RoutingAssumption
<1>2. Within(L, d, NumNodes)
  BY <1>1
<1>3. NumNodes \in K
  BY <1>2, RoutingAssumption
<1>4. PICK k \in K : \A l \in K : k <= l
  <2>1. K \in SUBSET Nat /\ K # {}
    BY <1>3
  <2> HIDE DEF K
  <2> QED
    BY <2>1, LeastNatural
<1>5. PICK E, t : Within(E, t, k)
  OBVIOUS
<1>6. PICK F, u : Loop(m, S, F, u) /\ \A n \in F : n \in E /\ R[n][u] < R[n][t]
  BY <1>5, LoopWithin
<1>7. \A n \in F : R[n][u] \in Nat /\ R[n][u] < k
  <2>1. \A n \in F : R[n][u] \in Nat
    BY <1>1, <1>6
  <2>2. \A n \in E : R[n][t] \in Nat /\ R[n][t] <= k
    BY <1>1, <1>5
  <2> QED
    BY <1>6, <2>1, <2>2
<1>8. k \in Nat /\ k - 1 \in Nat /\ \A n \in F : R[n][u] <= k - 1
  <2>1. F # {}
    BY <1>6 DEF Loop
  <2>2. k \in Nat
    OBVIOUS
  <2> QED
    BY <1>7, <2>1, <2>2
<1>9. k - 1 \in K
  BY <1>6, <1>8
<1> HIDE DEF K
<1>10. ~ (k <= k - 1)
  BY <1>8
<1> QED
  BY <1>4, <1>9, <1>10

\* Every set of nodes has one whose next hop towards d is outside the set.
LoopFree(t) ==
  \A d \in Node : \A L \in (SUBSET Node) \ {{}} : \E n \in L : t[n][d] \notin L

LEMMA TablesLoopFree ==
  ASSUME NEW m, NEW ls, Costed(m, ls), Topology(ls)
  PROVE  LoopFree(RoutingTables(m, ls))
<1> DEFINE t == RoutingTables(m, ls)
           D == BestDistances(m, ls)
           S == [n \in Node |-> BuildDijkstra(m, ls, n)]
           Ends(n, x) == Complete(m, ls, n, S[n], x[1], x[2], D)
           x == [n \in Node |-> CHOOSE e : Ends(n, e)]
           X == [n \in Node |-> x[n][1]]
           R == [n \in Node |-> x[n][2]]
<1>1. Surveyed(m, ls, D, Node)
  BY BestDistancesSurveyed
<1> HIDE DEF D
<1>2. ASSUME NEW n \in Node
      PROVE  Ends(n, x[n])
  <2>1. PICK Y, rank : Explored(m, ls, n, BuildDijkstra(m, ls, n), Y, rank)
                       /\ BuildDijkstra(m, ls, n).heap = <<>>
    BY SearchExplores
  <2>2. Complete(m, ls, n, S[n], Y, rank, D)
    BY <1>1, <2>1 DEF Complete
  <2>3. Ends(n, <<Y, rank>>)
    BY <2>2
  <2> HIDE DEF Ends
  <2> QED
    BY <2>3
<1>3. AllComplete(m, ls, S, X, R, D)
  <2>1. \A n \in Node : X[n] = x[n][1] /\ R[n] = x[n][2]
    OBVIOUS
  <2> HIDE DEF x, X, R, S
  <2> QED
    BY <1>2, <2>1 DEF AllComplete
<1>4. \A n, d \in Node : t[n][d] = IF d = n \/ S[n].dist[d] = Worst(m) THEN NoHop
                                   ELSE FirstHop(S[n].parent, n, d)
  BY DEF RoutingTables, BuildRoutingTable
<1> HIDE DEF t, S, X, R
<1>5. ASSUME NEW d \in Node, NEW L \in SUBSET Node, L # {}, \A n \in L : t[n][d] \in L
      PROVE  FALSE
  <2>1. NoHop \notin Node
    BY RoutingAssumption DEF Node, NoHop
  <2>2. \A n \in L : d \in Found(m, n, S[n]) /\ FirstHop(S[n].parent, n, d) \in L
    BY <1>4, <1>5, <2>1 DEF Found
  <2>3. \E E : Loop(m, S, E, d)
    BY <1>3, <1>5, <2>2, NearestLoop
  <2> QED
    BY <1>3, <2>3, NoLoop
<1> QED
  BY <1>5 DEF LoopFree, t

-----------------------------------------------------------------------------
(* The nodes ahead of a packet.                                            *)

\* The nodes a packet at n that is sent to d may still come to, n included.
Ahead(t, n, d) ==
  {k \in Node :
     \A B \in SUBSET Node :
       n \in B /\ (\A j \in B : t[j][d] = NoHop \/ t[j][d] \in B) => k \in B}

\* A packet that is passed on leaves its node behind for good.
LEMMA HopLeavesBehind ==
  ASSUME NEW t \in [Node -> [Node -> Node \union {NoHop}]], LoopFree(t),
         NEW n \in Node, NEW d \in Node, t[n][d] \in Node
  PROVE  Ahead(t, t[n][d], d) \in SUBSET (Ahead(t, n, d) \ {n})
<1> DEFINE h == t[n][d]
           From(k) == Ahead(t, k, d)
<1>1. ASSUME NEW k \in Node, NEW B \in SUBSET Node, k \in B,
             \A j \in B : t[j][d] = NoHop \/ t[j][d] \in B
      PROVE  From(k) \in SUBSET B
  BY <1>1 DEF Ahead
<1>2. ASSUME NEW k \in Node
      PROVE  /\ k \in From(k) /\ From(k) \in SUBSET Node
             /\ \A j \in From(k) : t[j][d] = NoHop \/ t[j][d] \in From(k)
  <2>1. \A j \in Node : t[j][d] \in Node \/ t[j][d] = NoHop
    OBVIOUS
  <2> QED
    BY <2>1 DEF Ahead
<1> HIDE DEF From
<1>3. From(h) \in SUBSET From(n)
  <2>1. h \in From(n)
    <3>1. h # NoHop
      BY RoutingAssumption DEF Node, NoHop
    <3> QED
      BY <1>2, <3>1
  <2> QED
    BY <1>1, <1>2, <2>1
<1>4. n \notin From(h)
  <2> SUFFICES ASSUME n \in From(h) PROVE FALSE
    OBVIOUS
  <2> DEFINE L == {k \in From(h) : n \in From(k)}
  <2>1. L \in SUBSET Node /\ h \in L
    BY <1>2
  <2>2. ASSUME NEW k \in L
        PROVE  t[k][d] \in L
    <3> DEFINE j == t[k][d]
    <3>1. k \in Node /\ k \in From(h) /\ n \in From(k) /\ (j \in Node \/ j = NoHop)
      BY <2>1
    <3>2. CASE k = n
      <4>1. j = h
        BY <3>2
      <4> QED
        BY <2>1, <4>1
    <3>3. CASE k # n /\ j = NoHop
      <4>1. From(k) \in SUBSET {k}
        BY <1>1, <3>1, <3>3
      <4> QED
        BY <3>1, <3>3, <4>1
    <3>4. CASE k # n /\ j \in Node
      <4>1. j \in From(h)
        <5>1. j # NoHop
          BY <3>4, RoutingAssumption DEF Node, NoHop
        <5> QED
          BY <1>2, <3>1, <5>1
      <4>2. From(k) \in SUBSET ({k} \union From(j))
        <5> DEFINE B == {k} \union From(j)
        <5>1. B \in SUBSET Node /\ k \in B /\ j \in B
          BY <1>2, <3>1, <3>4
        <5>2. \A i \in B : t[i][d] = NoHop \/ t[i][d] \in B
          BY <1>2, <3>4, <5>1
        <5> HIDE DEF B
        <5>3. From(k) \in SUBSET B
          BY <1>1, <3>1, <5>1, <5>2
        <5> QED
          BY <5>3 DEF B
      <4> QED
        BY <3>1, <3>4, <4>1, <4>2
    <3> QED
      BY <3>1, <3>2, <3>3, <3>4
  <2> HIDE DEF L
  <2>3. \E k \in L : t[k][d] \notin L
    BY <2>1 DEF LoopFree
  <2> QED
    BY <2>2, <2>3
<1> QED
  BY <1>3, <1>4 DEF From

\* As many hops as the packet may take yet, and one.
HopsLeft(t, n, d) == Cardinality(Ahead(t, n, d))

LEMMA HopsLeftBounds ==
  ASSUME NEW t, NEW n \in Node, NEW d
  PROVE  HopsLeft(t, n, d) \in 1 .. NumNodes
<1> DEFINE A == Ahead(t, n, d)
<1>1. A \in SUBSET Node /\ n \in A
  BY DEF Ahead
<1> HIDE DEF A
<1>2. IsFiniteSet(A) /\ Cardinality(A) \in Nat /\ Cardinality(A) <= NumNodes
  BY <1>1, NodesFinite, FS_Subset, FS_CardinalityType
<1>3. Cardinality(A) # 0
  BY <1>1, <1>2, FS_EmptySet
<1> QED
  BY <1>2, <1>3, RoutingAssumption DEF HopsLeft, A

LEMMA HopCounts ==
  ASSUME NEW t \in [Node -> [Node -> Node \union {NoHop}]], LoopFree(t),
         NEW n \in Node, NEW d \in Node, t[n][d] \in Node
  PROVE  HopsLeft(t, t[n][d], d) <= HopsLeft(t, n, d) - 1
<1> DEFINE A == Ahead(t, n, d)
           B == Ahead(t, t[n][d], d)
<1>1. B \in SUBSET (A \ {n}) /\ A \in SUBSET Node /\ n \in A
  BY HopLeavesBehind DEF Ahead
<1> HIDE DEF A, B
<1>2. IsFiniteSet(A)
  BY <1>1, NodesFinite, FS_Subset
<1>3. IsFiniteSet(A \ {n}) /\ Cardinality(A \ {n}) = Cardinality(A) - 1
  BY <1>1, <1>2, FS_RemoveElement
<1>4. Cardinality(B) <= Cardinality(A \ {n})
  BY <1>1, <1>3, FS_Subset
<1> QED
  BY <1>3, <1>4 DEF HopsLeft, A, B

\* A packet that is sent goes to the next hop of its node.
LEMMA MovesToNextHop ==
  ASSUME NEW ls, \A id \in DOMAIN ls : GoodLink(ls[id]), DOMAIN ls \subseteq Nat,
         NEW p \in Sendable, NEW t \in Nat,
         NEW o \in SendOutcomes(ls, p, t), LoopFree(tables)
  PROVE  \/ o.moved = <<>>
         \/ \E mv \in Packet :
              /\ o.moved = <<mv>> /\ mv.destination = p.destination /\ mv.hops = p.hops + 1
              /\ mv.current = tables[p.current][p.destination]
<1> DEFINE next == tables[p.current][p.destination]
<1>1. CASE UsableLinks(ls, p) = {}
  BY <1>1 DEF SendOutcomes, Sending
<1>2. CASE UsableLinks(ls, p) # {}
  <2>1. PICK id \in SelectedLink(ls, p) : o \in OutcomesOn(ls, id, p, t)
    BY <1>2 DEF SendOutcomes
  <2> DEFINE l == ls[id]
             mv == Moved(l, id, p, t)
  <2>2. id \in DOMAIN ls /\ id \in Nat /\ GoodLink(l) /\ Joins(l, p.current, next)
    BY DEF SelectedLink, UsableLinks
  <2>3. next # p.current
    <3>1. p.current \in Node /\ p.destination \in Node
      BY DEF Sendable
    <3>2. {p.current} \in (SUBSET Node) \ {{}}
      BY <3>1
    <3>3. \E n \in {p.current} : tables[n][p.destination] \notin {p.current}
      BY <3>1, <3>2 DEF LoopFree
    <3> QED
      BY <3>3
  <2>4. OtherNode(l, p.current) = next
    BY <2>2, <2>3 DEF Joins, OtherNode
  <2>5. mv \in Packet
    BY <2>2, MovedPacket
  <2>6. /\ mv.current = next /\ mv.destination = p.destination /\ mv.hops = p.hops + 1
    BY <2>4 DEF Moved, Sendable
  <2>7. o.moved = <<>> \/ o.moved = <<mv>>
    BY <2>1 DEF OutcomesOn, Sending
  <2> HIDE DEF mv
  <2> QED
    BY <2>5, <2>6, <2>7
<1> QED
  BY <1>1, <1>2

-----------------------------------------------------------------------------
(* The hops of the packets on their way. *)

Allowed(c) == (c + 1) * (NumNodes - 1)

\* The hops a packet made and those it may take yet are allowed.
Fits(t, c, p) == p.hops + HopsLeft(t, p.current, p.destination) <= Allowed(c) + 1

AllFit(t, c, ps) == \A i \in DOMAIN ps : Fits(t, c, ps[i])

HopsInv == LoopFree(tables) /\ AllFit(tables, changes, arrivals)

LEMMA AllowedGrows ==
  ASSUME NEW c \in Nat, NumNodes # 0
  PROVE  /\ Allowed(c) \in Nat /\ NumNodes - 1 <= Allowed(c)
         /\ Allowed(c + 1) = Allowed(c) + (NumNodes - 1)
<1> DEFINE n == NumNodes - 1
<1>1. n \in Nat
  BY RoutingAssumption
<1>2. Allowed(c) = c * n + n /\ Allowed(c + 1) = (c * n + n) + n
  <2>1. \A k, l \in Nat : (k + 1) * l = k * l + l /\ ((k + 1) + 1) * l = (k * l + l) + l
    OBVIOUS
  <2>2. Allowed(c) = (c + 1) * n /\ Allowed(c + 1) = ((c + 1) + 1) * n
    BY DEF Allowed
  <2> HIDE DEF n
  <2> QED
    BY <1>1, <2>1, <2>2
<1>3. c * n \in Nat
  <2> HIDE DEF n
  <2> QED
    BY <1>1
<1> QED
  BY <1>1, <1>2, <1>3

LEMMA FitsOnward ==
  ASSUME NEW ls, GoodLinks(ls), DOMAIN ls \subseteq Nat, NEW p \in Sendable, NEW t \in Nat,
         NEW o \in SendOutcomes(ls, p, t), LoopFree(tables),
         tables \in [Node -> [Node -> Node \union {NoHop}]],
         NEW c \in Nat, Fits(tables, c, p)
  PROVE  o.moved \in Seq(Packet) /\ AllFit(tables, c, o.moved)
<1>1. CASE o.moved = <<>>
  <2>1. DOMAIN o.moved = {} /\ o.moved \in Seq(Packet)
    BY <1>1
  <2> QED
    BY <2>1 DEF AllFit
<1>2. CASE o.moved # <<>>
  <2>1. PICK mv \in Packet :
          /\ o.moved = <<mv>> /\ mv.destination = p.destination /\ mv.hops = p.hops + 1
          /\ mv.current = tables[p.current][p.destination]
    BY <1>2, MovesToNextHop DEF GoodLinks
  <2>2. p.current \in Node /\ p.destination \in Node /\ p.hops \in Nat /\ mv.current \in Node
    BY DEF Sendable, Packet
  <2> DEFINE before == HopsLeft(tables, p.current, p.destination)
             after == HopsLeft(tables, mv.current, mv.destination)
  <2>3. after <= before - 1
    BY <2>1, <2>2, HopCounts
  <2>4. before \in Nat /\ after \in Nat
    BY <2>2, HopsLeftBounds, RoutingAssumption
  <2>5. Allowed(c) \in Nat
    BY <2>2, AllowedGrows, RoutingAssumption DEF Node
  <2>6. p.hops + before <= Allowed(c) + 1
    BY DEF Fits
  <2> HIDE DEF before, after
  <2>7. mv.hops + after <= Allowed(c) + 1
    BY <2>1, <2>2, <2>3, <2>4, <2>5, <2>6
  <2>8. Fits(tables, c, mv)
    BY <2>7 DEF Fits, after
  <2>9. o.moved \in Seq(Packet) /\ DOMAIN o.moved = {1} /\ o.moved[1] = mv
    BY <2>1
  <2> QED
    BY <2>8, <2>9 DEF AllFit
<1> QED
  BY <1>1, <1>2

LEMMA AllFitTogether ==
  ASSUME NEW t, NEW c, NEW ps \in Seq(Packet), AllFit(t, c, ps),
         NEW qs \in Seq(Packet), AllFit(t, c, qs)
  PROVE  AllFit(t, c, ps \o qs)
<1> SUFFICES ASSUME NEW i \in DOMAIN (ps \o qs) PROVE Fits(t, c, (ps \o qs)[i])
  BY DEF AllFit
<1>1. /\ Len(ps) \in Nat /\ Len(qs) \in Nat
      /\ DOMAIN ps = 1 .. Len(ps) /\ DOMAIN qs = 1 .. Len(qs)
  BY LenProperties
<1>2. /\ i \in 1 .. Len(ps) + Len(qs)
      /\ (ps \o qs)[i] = IF i <= Len(ps) THEN ps[i] ELSE qs[i - Len(ps)]
  <2>1. DOMAIN (ps \o qs) = 1 .. Len(ps) + Len(qs)
    BY ConcatProperties, LenProperties
  <2> QED
    BY <2>1, ConcatProperties
<1>3. CASE i <= Len(ps)
  BY <1>1, <1>2, <1>3 DEF AllFit
<1>4. CASE ~ (i <= Len(ps))
  <2>1. i - Len(ps) \in 1 .. Len(qs)
    BY <1>1, <1>2, <1>4
  <2> QED
    BY <1>1, <1>2, <1>4, <2>1 DEF AllFit
<1> QED
  BY <1>3, <1>4

LEMMA AllFitWithout ==
  ASSUME NEW t, NEW c, NEW ps \in Seq(Packet), AllFit(t, c, ps), NEW i \in DOMAIN ps
  PROVE  RemoveAt(ps, i) \in Seq(Packet) /\ AllFit(t, c, RemoveAt(ps, i))
<1>1. Len(ps) \in Nat /\ DOMAIN ps = 1 .. Len(ps) /\ i \in 1 .. Len(ps)
  BY LenProperties
<1>2. /\ RemoveAt(ps, i) \in Seq(Packet) /\ DOMAIN RemoveAt(ps, i) = 1 .. Len(ps) - 1
      /\ \A k \in 1 .. Len(ps) - 1 : RemoveAt(ps, i)[k] = ps[IF k < i THEN k ELSE k + 1]
  BY <1>1, Removed
<1>3. \A k \in 1 .. Len(ps) - 1 : (IF k < i THEN k ELSE k + 1) \in DOMAIN ps
  BY <1>1
<1> QED
  BY <1>2, <1>3 DEF AllFit

LEMMA RebuiltLoopFree ==
  ASSUME NEW m \in RoutingMetric, NEW ls, Topology(ls),
         \A id \in DOMAIN ls : FiniteCosts(ls[id])
  PROVE  LoopFree(RoutingTables(m, ls))
<1>1. \A id \in DOMAIN ls : LinkCost(m, ls[id]) \in Nat
  BY LinkCostNat DEF Topology
<1>2. Costed(m, ls)
  BY <1>1, RoutingAssumption DEF Costed, FiniteCosts, Dist
<1> QED
  BY <1>2, TablesLoopFree

LEMMA InitHopsInv == Init => HopsInv
<1> SUFFICES ASSUME Init PROVE HopsInv
  OBVIOUS
<1>1. metric \in RoutingMetric /\ Topology(links)
  BY InitNetInv, TopologyKnown, NetworkAssumption DEF Init
<1>2. \A id \in DOMAIN links : FiniteCosts(links[id])
  BY InitRoutesInv DEF RoutesInv
<1>3. LoopFree(RoutingTables(metric, links))
  BY <1>1, <1>2, RebuiltLoopFree
<1>4. DOMAIN arrivals = {}
  BY DEF Init
<1> QED
  BY <1>3, <1>4 DEF Init, HopsInv, AllFit

LEMMA SendKeepsHops ==
  ASSUME NetInv, TypeInv, HopsInv, NEW f \in Flows, NEW t \in Instants, Send(f[1], f[2], t)
  PROVE  HopsInv'
<1> DEFINE p == NewPacket(f[1], f[2])
<1>1. p \in Sendable /\ p.hops = 0 /\ p.current \in Node
  <2>1. f[1] \in Node /\ f[2] \in Node
    BY NetworkAssumption
  <2> QED
    BY <2>1 DEF NewPacket, Sendable
<1>2. PICK o \in SendOutcomes(links, p, t) : arrivals' = arrivals \o o.moved
  BY DEF Send
<1> HIDE DEF p
<1>3. t \in Nat
  <2>1. t \in now .. MaxTime /\ now \in Nat
    BY DEF Instants, NetInv
  <2> QED
    BY <2>1, NetworkAssumption
<1>4. Fits(tables, changes, p)
  <2> DEFINE left == HopsLeft(tables, p.current, p.destination)
  <2>1. left \in 1 .. NumNodes
    BY <1>1, HopsLeftBounds
  <2>2. NumNodes - 1 <= Allowed(changes) /\ Allowed(changes) \in Nat
    BY <2>1, AllowedGrows, NetworkAssumption, RoutingAssumption DEF TypeInv
  <2> HIDE DEF left
  <2>3. p.hops + left <= Allowed(changes) + 1
    BY <1>1, <2>1, <2>2, RoutingAssumption
  <2> QED
    BY <2>3 DEF Fits, left
<1>5. /\ GoodLinks(links) /\ DOMAIN links \subseteq Nat /\ arrivals \in Seq(Packet)
      /\ tables \in [Node -> [Node -> Node \union {NoHop}]] /\ changes \in Nat
      /\ LoopFree(tables) /\ AllFit(tables, changes, arrivals)
  BY NetworkAssumption DEF NetInv, TypeInv, HopsInv
<1>6. o.moved \in Seq(Packet) /\ AllFit(tables, changes, o.moved)
  BY <1>1, <1>3, <1>4, <1>5, FitsOnward
<1>7. AllFit(tables, changes, arrivals')
  BY <1>2, <1>5, <1>6, AllFitTogether
<1>8. tables' = tables /\ changes' = changes
  BY DEF Send
<1> QED
  BY <1>5, <1>7, <1>8 DEF HopsInv

LEMMA ArrivalKeepsHops ==
  ASSUME NetInv, TypeInv, HopsInv, NEW i \in DOMAIN arrivals, Deliver(i) \/ Forward(i)
  PROVE  HopsInv'
<1> DEFINE p == arrivals[i]
           ls == Released(p)
           rest == RemoveAt(arrivals, i)
<1>1. /\ arrivals \in Seq(Packet) /\ tables \in [Node -> [Node -> Node \union {NoHop}]]
      /\ changes \in Nat /\ LoopFree(tables) /\ AllFit(tables, changes, arrivals)
  BY NetworkAssumption DEF NetInv, TypeInv, HopsInv
<1>2. tables' = tables /\ changes' = changes /\ IsNext(i)
  BY DEF Deliver, Forward
<1>3. rest \in Seq(Packet) /\ AllFit(tables, changes, rest)
  BY <1>1, AllFitWithout
<1>4. CASE Deliver(i)
  <2>1. arrivals' = rest
    BY <1>4 DEF Deliver
  <2> HIDE DEF rest
  <2> QED
    BY <1>1, <1>2, <1>3, <2>1 DEF HopsInv
<1>5. CASE Forward(i)
  <2>1. PICK o \in SendOutcomes(ls, p, p.arrival) : arrivals' = rest \o o.moved
    BY <1>5 DEF Forward
  <2>2. /\ p \in Sendable /\ p.arrival \in Nat /\ GoodLinks(ls) /\ DOMAIN ls = DOMAIN links
    BY <1>2, ArrivalKeepsPackets
  <2>3. DOMAIN links \subseteq Nat /\ Fits(tables, changes, p)
    BY <1>1 DEF NetInv, AllFit
  <2> HIDE DEF p, ls, rest
  <2>4. o.moved \in Seq(Packet) /\ AllFit(tables, changes, o.moved)
    BY <1>1, <2>2, <2>3, FitsOnward
  <2>5. AllFit(tables, changes, arrivals')
    BY <1>3, <2>1, <2>4, AllFitTogether
  <2> QED
    BY <1>1, <1>2, <2>5 DEF HopsInv
<1> QED
  BY <1>4, <1>5

LEMMA ChangeKeepsHops ==
  ASSUME NetInv, NetInv', TypeInv, RoutesInv', HopsInv, NEW t, ChangeTopology(t)
  PROVE  HopsInv'
<1>1. /\ metric' \in Metrics /\ tables' = RoutingTables(metric', links')
      /\ changes' = changes + 1 /\ arrivals' = arrivals
  BY DEF ChangeTopology, ToggleLinkUp, DeleteLink, DeleteNode, CreateLink,
         SetRoutingMetric, Rebuilt, TypeInv, Change, packetVars
<1>2. Topology(links')
  <2>1. Topology(links)'
    BY TopologyKnown, PTL
  <2> QED
    BY <2>1
<1>3. LoopFree(tables')
  <2>1. metric' \in RoutingMetric
    BY <1>1, NetworkAssumption
  <2>2. \A id \in DOMAIN links' : FiniteCosts(links'[id])
    BY DEF RoutesInv
  <2> QED
    BY <1>1, <1>2, <2>1, <2>2, RebuiltLoopFree
<1>4. changes \in Nat /\ arrivals \in Seq(Packet) /\ AllFit(tables, changes, arrivals)
  BY NetworkAssumption DEF TypeInv, NetInv, HopsInv
<1>5. ASSUME NEW i \in DOMAIN arrivals
      PROVE  Fits(tables', changes + 1, arrivals[i])
  <2> DEFINE p == arrivals[i]
             before == HopsLeft(tables, p.current, p.destination)
             after == HopsLeft(tables', p.current, p.destination)
  <2>1. p \in Packet
    BY <1>4, ElementOfSeq, LenProperties
  <2>2. p.current \in Node /\ p.hops \in Nat
    BY <2>1 DEF Packet
  <2>3. before \in 1 .. NumNodes /\ after \in 1 .. NumNodes
    BY <2>2, HopsLeftBounds
  <2>4. p.hops + before <= Allowed(changes) + 1
    BY <1>4 DEF AllFit, Fits
  <2> HIDE DEF p, before, after
  <2>5. Allowed(changes) \in Nat /\ Allowed(changes + 1) = Allowed(changes) + (NumNodes - 1)
    BY <1>4, <2>3, AllowedGrows, RoutingAssumption
  <2>6. p.hops + after <= Allowed(changes + 1) + 1
    BY <2>2, <2>3, <2>4, <2>5, RoutingAssumption
  <2> QED
    BY <2>6 DEF Fits, p, after
<1> QED
  BY <1>1, <1>3, <1>5 DEF HopsInv, AllFit

LEMMA StepKeepsHops ==
  NetInv /\ NetInv' /\ TypeInv /\ RoutesInv' /\ HopsInv /\ [Next]_vars => HopsInv'
<1> SUFFICES ASSUME NetInv, NetInv', TypeInv, RoutesInv', HopsInv, [Next]_vars
             PROVE  HopsInv'
  OBVIOUS
<1>1. CASE UNCHANGED vars
  BY <1>1 DEF vars, topologyVars, packetVars, HopsInv
<1>2. CASE Next
  BY <1>2, SendKeepsHops, ArrivalKeepsHops, ChangeKeepsHops DEF Next, RunArrival
<1> QED
  BY <1>1, <1>2

LEMMA HopsInvariance == Spec => [](NetInv /\ TypeInv /\ HopsInv)
<1>1. Spec => [](NetInv /\ TypeInv /\ RoutesInv)
  BY NetInvariance, InitTypeInv, StepKeepsTypes, InitRoutesInv, StepKeepsRoutes, PTL DEF Spec
<1> QED
  BY <1>1, InitHopsInv, StepKeepsHops, PTL DEF Spec

(***************************************************************************)
(* For topologies of any size and any sequence of changes, the tables of   *)
(* different nodes agree: next hops towards a destination lead round in no *)
(* circle, although every node computes a tree of its own and distances    *)
(* may tie (buildDijkstra; the order of the heap, distance and then node,  *)
(* is what makes them agree).                                              *)
(***************************************************************************)
THEOREM TablesAgree == Spec => []NoRoutingLoops
<1>1. HopsInv => NoRoutingLoops
  BY DEF HopsInv, LoopFree, NoRoutingLoops
<1> QED
  BY <1>1, HopsInvariance, PTL

(***************************************************************************)
(* No packet makes more hops than the number of other nodes for every set  *)
(* of tables it meets, whatever changes while it is on its way             *)
(* (PacketReceivedEvent::execute, which has no limit of hops).             *)
(***************************************************************************)
THEOREM HopsAreBounded == Spec => []HopsBounded
<1>1. NetInv /\ TypeInv /\ HopsInv => HopsBounded
  <2> SUFFICES ASSUME NetInv, TypeInv, HopsInv, NEW i \in DOMAIN arrivals
               PROVE  arrivals[i].hops <= Allowed(changes)
    BY DEF HopsBounded, Allowed
  <2> DEFINE p == arrivals[i]
             left == HopsLeft(tables, p.current, p.destination)
  <2>1. p \in Packet
    BY ElementOfSeq, LenProperties DEF NetInv
  <2>2. p.current \in Node /\ p.hops \in Nat
    BY <2>1 DEF Packet
  <2>3. left \in 1 .. NumNodes
    BY <2>2, HopsLeftBounds
  <2>4. p.hops + left <= Allowed(changes) + 1
    BY DEF HopsInv, AllFit, Fits
  <2>5. Allowed(changes) \in Nat
    BY <2>3, AllowedGrows, NetworkAssumption, RoutingAssumption DEF TypeInv
  <2> HIDE DEF left
  <2> QED
    BY <2>2, <2>3, <2>4, <2>5, RoutingAssumption
<1> QED
  BY <1>1, HopsInvariance, PTL

=============================================================================
