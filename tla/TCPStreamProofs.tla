-------------------------- MODULE TCPStreamProofs --------------------------
(***************************************************************************)
(* What a session does to its data, for every value of the constants: the  *)
(* acknowledgements are sound (AckSoundness) and what the server accepts   *)
(* is the stream, each segment once (DeliveredExactly), with packets lost, *)
(* refused, sent again and overtaken.                                      *)
(*                                                                         *)
(* Numbers that wrap are replaced by positions: how far a number lies      *)
(* behind the first one of the stream.  The stream is shorter than a turn  *)
(* of the sequence space (StreamAssumption), so positions are ordered as   *)
(* the segments were sent.                                                 *)
(***************************************************************************)
EXTENDS TCPSessionProofs, TCPStream, WellFoundedInduction

\* How far n lies behind first.
Offset(first, n) == (n - first) % SeqSize

Position(n) == Offset(FirstNumber, n)

\* The numbers of the stream that begins with first, up to n.
Before(first, n) == {k \in SeqNumber : Offset(first, k) < Offset(first, n)}

-----------------------------------------------------------------------------
(* Sequences of packets: what arrives or is lost is taken out, what is sent *)
(* is put at the end.                                                       *)

AtMostOne(q, type) ==
  \A i, j \in DOMAIN q : q[i].type = type /\ q[j].type = type => i = j

Without(q, type) == \A p \in Range(q) : p.type # type

\* r has no more segments of this type than q, as far as none or one goes.
NoMore(q, r, type) ==
  /\ Without(q, type) => Without(r, type)
  /\ AtMostOne(q, type) => AtMostOne(r, type)

LEMMA RemoveAtProperties ==
  ASSUME NEW q \in Seq(Segment), NEW i \in DOMAIN q
  PROVE  /\ RemoveAt(q, i) \in Seq(Segment)
         /\ Len(RemoveAt(q, i)) = Len(q) - 1
         /\ DOMAIN RemoveAt(q, i) = 1 .. Len(q) - 1
         /\ \A k \in 1 .. Len(q) - 1 :
              RemoveAt(q, i)[k] = q[IF k < i THEN k ELSE k + 1]
<1> DEFINE front == SubSeq(q, 1, i - 1)
           back == SubSeq(q, i + 1, Len(q))
<1>1. i \in 1 .. Len(q) /\ Len(q) \in Nat /\ DOMAIN q = 1 .. Len(q)
  BY LenProperties
<1>2. \A k \in 1 .. Len(q) : q[k] \in Segment
  BY ElementOfSeq
<1>3. /\ front \in Seq(Segment) /\ Len(front) = i - 1
      /\ \A k \in 1 .. i - 1 : front[k] = q[k]
  <2>1. \A k \in 1 .. i - 1 : q[k] \in Segment
    BY <1>1, <1>2
  <2>2. /\ front \in Seq(Segment)
        /\ Len(front) = IF 1 <= i - 1 THEN i - 1 - 1 + 1 ELSE 0
        /\ \A k \in 1 .. i - 1 - 1 + 1 : front[k] = q[1 + k - 1]
    BY <1>1, <2>1, SubSeqProperties
  <2> HIDE DEF front
  <2> QED
    BY <1>1, <2>2
<1>4. /\ back \in Seq(Segment) /\ Len(back) = Len(q) - i
      /\ \A k \in 1 .. Len(q) - i : back[k] = q[i + k]
  <2>1. \A k \in i + 1 .. Len(q) : q[k] \in Segment
    BY <1>1, <1>2
  <2>2. /\ back \in Seq(Segment)
        /\ Len(back) = IF i + 1 <= Len(q) THEN Len(q) - (i + 1) + 1 ELSE 0
        /\ \A k \in 1 .. Len(q) - (i + 1) + 1 : back[k] = q[i + 1 + k - 1]
    BY <1>1, <2>1, SubSeqProperties
  <2> HIDE DEF back
  <2>3. Len(back) = Len(q) - i
    BY <1>1, <2>2
  <2>4. ASSUME NEW k \in 1 .. Len(q) - i
        PROVE  back[k] = q[i + k]
    <3>1. k \in 1 .. Len(q) - (i + 1) + 1 /\ i + 1 + k - 1 = i + k
      BY <1>1
    <3> QED
      BY <2>2, <3>1
  <2> QED
    BY <2>2, <2>3, <2>4
<1> HIDE DEF front, back
<1>5. /\ front \o back \in Seq(Segment)
      /\ Len(front \o back) = Len(q) - 1
      /\ \A k \in 1 .. Len(q) - 1 :
           (front \o back)[k] = IF k <= i - 1 THEN front[k] ELSE back[k - (i - 1)]
  <2>1. /\ front \o back \in Seq(Segment)
        /\ Len(front \o back) = Len(front) + Len(back)
        /\ \A k \in 1 .. Len(front) + Len(back) :
             (front \o back)[k] = IF k <= Len(front) THEN front[k]
                                                    ELSE back[k - Len(front)]
    BY <1>3, <1>4, ConcatProperties
  <2>2. Len(front) + Len(back) = Len(q) - 1
    BY <1>1, <1>3, <1>4
  <2> QED
    BY <1>3, <2>1, <2>2
<1>6. ASSUME NEW k \in 1 .. Len(q) - 1
      PROVE  (front \o back)[k] = q[IF k < i THEN k ELSE k + 1]
  <2>1. CASE k < i
    BY <1>1, <1>3, <1>5, <2>1
  <2>2. CASE ~ (k < i)
    <3>1. ~ (k <= i - 1) /\ k - (i - 1) \in 1 .. Len(q) - i /\ i + (k - (i - 1)) = k + 1
      BY <1>1, <2>2
    <3> QED
      BY <1>4, <1>5, <2>2, <3>1
  <2> QED
    BY <2>1, <2>2
<1>7. RemoveAt(q, i) = front \o back
  BY DEF RemoveAt, front, back
<1>8. DOMAIN RemoveAt(q, i) = 1 .. Len(q) - 1
  BY <1>5, <1>7, LenProperties
<1> QED
  BY <1>5, <1>6, <1>7, <1>8

LEMMA RemoveAtPackets ==
  ASSUME NEW q \in Seq(Segment), NEW i \in DOMAIN q
  PROVE  /\ Range(RemoveAt(q, i)) \subseteq Range(q)
         /\ \A type : NoMore(q, RemoveAt(q, i), type)
         /\ \A type : AtMostOne(q, type) /\ q[i].type = type
                        => Without(RemoveAt(q, i), type)
<1> DEFINE r == RemoveAt(q, i)
           was(k) == IF k < i THEN k ELSE k + 1
<1>1. i \in 1 .. Len(q) /\ Len(q) \in Nat /\ DOMAIN q = 1 .. Len(q)
  BY LenProperties
<1>2. DOMAIN r = 1 .. Len(q) - 1 /\ \A k \in DOMAIN r : r[k] = q[was(k)]
  BY RemoveAtProperties
<1>3. /\ \A k \in DOMAIN r : was(k) \in DOMAIN q /\ was(k) # i
      /\ \A k, l \in DOMAIN r : was(k) = was(l) => k = l
  BY <1>1, <1>2
<1> HIDE DEF r, was
<1>4. Range(r) \subseteq Range(q)
  BY <1>2, <1>3 DEF Range
<1>5. ASSUME NEW type PROVE NoMore(q, r, type)
  BY <1>2, <1>3, <1>4 DEF NoMore, Without, AtMostOne
<1>6. ASSUME NEW type, AtMostOne(q, type), q[i].type = type
      PROVE  Without(r, type)
  <2>1. \A k \in DOMAIN r : r[k].type # type
    BY <1>2, <1>3, <1>6 DEF AtMostOne
  <2> QED
    BY <2>1 DEF Without, Range
<1> QED
  BY <1>4, <1>5, <1>6 DEF r

LEMMA ConcatPackets ==
  ASSUME NEW q \in Seq(Segment), NEW r \in Seq(Segment)
  PROVE  /\ Range(q \o r) = Range(q) \union Range(r)
         /\ \A type : Without(r, type) => NoMore(q, q \o r, type)
         /\ \A type : Without(q, type) => NoMore(r, q \o r, type)
<1> DEFINE s == q \o r
<1>1. /\ s \in Seq(Segment) /\ Len(s) = Len(q) + Len(r)
      /\ \A k \in 1 .. Len(q) + Len(r) :
           s[k] = IF k <= Len(q) THEN q[k] ELSE r[k - Len(q)]
      /\ Len(q) \in Nat /\ Len(r) \in Nat
      /\ DOMAIN q = 1 .. Len(q) /\ DOMAIN r = 1 .. Len(r)
  BY ConcatProperties, LenProperties
<1>2. DOMAIN s = 1 .. Len(q) + Len(r)
  BY <1>1, LenProperties
<1> HIDE DEF s
<1>3. /\ \A k \in DOMAIN q : k \in DOMAIN s /\ s[k] = q[k]
      /\ \A k \in DOMAIN r : k + Len(q) \in DOMAIN s /\ s[k + Len(q)] = r[k]
      /\ \A k \in DOMAIN s : \/ k \in DOMAIN q /\ s[k] = q[k]
                             \/ k - Len(q) \in DOMAIN r /\ s[k] = r[k - Len(q)]
  <2>1. ASSUME NEW k \in DOMAIN r
        PROVE  k + Len(q) \in DOMAIN s /\ s[k + Len(q)] = r[k]
    <3>1. k + Len(q) \in 1 .. Len(q) + Len(r) /\ ~ (k + Len(q) <= Len(q))
          /\ k + Len(q) - Len(q) = k
      BY <1>1
    <3> QED
      BY <1>1, <1>2, <3>1
  <2> QED
    BY <1>1, <1>2, <2>1
<1>4. Range(s) = Range(q) \union Range(r)
  BY <1>3 DEF Range
<1>5. ASSUME NEW type, Without(r, type)
      PROVE  NoMore(q, s, type)
  <2>1. \A k \in DOMAIN s : s[k].type = type => k \in DOMAIN q /\ s[k] = q[k]
    BY <1>3, <1>5 DEF Without, Range
  <2> QED
    BY <1>4, <1>5, <2>1 DEF NoMore, Without, AtMostOne
<1>6. ASSUME NEW type, Without(q, type)
      PROVE  NoMore(r, s, type)
  <2>1. \A k \in DOMAIN s : s[k].type = type
          => k - Len(q) \in DOMAIN r /\ s[k] = r[k - Len(q)]
    BY <1>3, <1>6 DEF Without, Range
  <2>2. \A k, l \in DOMAIN s : k - Len(q) = l - Len(q) => k = l
    BY <1>1, <1>2
  <2> QED
    BY <1>4, <1>6, <2>1, <2>2 DEF NoMore, Without, AtMostOne
<1> QED
  BY <1>4, <1>5, <1>6 DEF s

\* The segment the first hop took, or nothing.
LEMMA TakenPackets ==
  ASSUME NEW segment \in Segment, NEW ok \in BOOLEAN
  PROVE  /\ Taken(segment, ok) \in Seq(Segment)
         /\ Range(Taken(segment, ok)) \subseteq {segment}
         /\ \A type : AtMostOne(Taken(segment, ok), type)
         /\ \A type : segment.type # type => Without(Taken(segment, ok), type)
<1> DEFINE t == Taken(segment, ok)
<1>1. t \in Seq(Segment) /\ Len(t) \in {0, 1} /\ (Len(t) = 1 => t[1] = segment)
  BY DEF Taken
<1>2. DOMAIN t = 1 .. Len(t)
  BY <1>1, LenProperties
<1> HIDE DEF t
<1>3. \A k \in DOMAIN t : k = 1 /\ t[k] = segment
  BY <1>1, <1>2
<1> QED
  BY <1>1, <1>3 DEF Range, AtMostOne, Without, t

-----------------------------------------------------------------------------
(* Positions in the stream. *)

LEMMA OffsetType ==
  ASSUME NEW first \in SeqNumber, NEW n \in SeqNumber
  PROVE  /\ Offset(first, n) \in SeqNumber
         /\ Offset(first, n) \in Nat /\ Offset(first, n) < SeqSize
         /\ Offset(first, n) = IF n >= first THEN n - first ELSE n - first + SeqSize
         /\ Offset(first, first) = 0
<1>1. Offset(first, n) = IF n >= first THEN n - first ELSE n - first + SeqSize
  BY Distance DEF Offset
<1>2. Offset(first, first) = IF first >= first THEN first - first
                                               ELSE first - first + SeqSize
  BY Distance DEF Offset
<1> QED
  BY <1>1, <1>2, SeqSizeAssumption DEF SeqNumber

LEMMA OffsetInjective ==
  ASSUME NEW first \in SeqNumber, NEW a \in SeqNumber, NEW b \in SeqNumber
  PROVE  Offset(first, a) = Offset(first, b) => a = b
<1> DEFINE x == Offset(first, a)
           y == Offset(first, b)
<1>1. x = IF a >= first THEN a - first ELSE a - first + SeqSize
  BY OffsetType
<1>2. y = IF b >= first THEN b - first ELSE b - first + SeqSize
  BY OffsetType
<1> HIDE DEF x, y
<1>3. ASSUME x = y PROVE a = b
  BY <1>1, <1>2, <1>3, SeqSizeAssumption DEF SeqNumber
<1> QED
  BY <1>3 DEF x, y

\* Counting on from a, as long as the stream does not come round.
LEMMA OffsetStep ==
  ASSUME NEW first \in SeqNumber, NEW a \in SeqNumber, NEW k \in Nat,
         Offset(first, a) + k < SeqSize
  PROVE  /\ (a + k) % SeqSize \in SeqNumber
         /\ Offset(first, (a + k) % SeqSize) = Offset(first, a) + k
<1> DEFINE b == (a + k) % SeqSize
<1>1. /\ Offset(first, a) = IF a >= first THEN a - first ELSE a - first + SeqSize
      /\ Offset(first, a) \in Nat
  BY OffsetType
<1>2. k \in SeqNumber
  BY <1>1, SeqSizeAssumption DEF SeqNumber
<1>3. b = IF a + k < SeqSize THEN a + k ELSE a + k - SeqSize
  BY <1>2, Around
<1>4. b \in SeqNumber
  BY <1>2, <1>3, SeqSizeAssumption DEF SeqNumber
<1> HIDE DEF b
<1>5. Offset(first, b) = IF b >= first THEN b - first ELSE b - first + SeqSize
  BY <1>4, OffsetType
<1>6. Offset(first, b) = Offset(first, a) + k
  BY <1>1, <1>2, <1>3, <1>4, <1>5, SeqSizeAssumption DEF SeqNumber
<1> QED
  BY <1>4, <1>6 DEF b

LEMMA OffsetBetween ==
  ASSUME NEW first \in SeqNumber, NEW a \in SeqNumber, NEW b \in SeqNumber,
         Offset(first, a) <= Offset(first, b)
  PROVE  (b - a) % SeqSize = Offset(first, b) - Offset(first, a)
<1>1. /\ Offset(first, a) = IF a >= first THEN a - first ELSE a - first + SeqSize
      /\ Offset(first, b) = IF b >= first THEN b - first ELSE b - first + SeqSize
  BY OffsetType
<1>2. (b - a) % SeqSize = IF b >= a THEN b - a ELSE b - a + SeqSize
  BY Distance
<1> QED
  BY <1>1, <1>2, SeqSizeAssumption DEF SeqNumber

\* A stream of n numbers that ends before last begins where counting back n
\* numbers leads, and one more number makes no difference to that.
LEMMA FirstOfStream ==
  ASSUME NEW last \in SeqNumber, NEW n \in SeqNumber
  PROVE  LET first == (last - n) % SeqSize
         IN  /\ first \in SeqNumber
             /\ Offset(first, last) = n
             /\ n + 1 < SeqSize => (SeqAfter(last) - (n + 1)) % SeqSize = first
<1> DEFINE first == (last - n) % SeqSize
<1>1. first = IF last >= n THEN last - n ELSE last - n + SeqSize
  BY Distance
<1>2. first \in SeqNumber
  BY <1>1, SeqSizeAssumption DEF SeqNumber
<1> HIDE DEF first
<1>3. Offset(first, last) = n
  <2>1. Offset(first, last) = IF last >= first THEN last - first
                                               ELSE last - first + SeqSize
    BY <1>2, OffsetType
  <2> QED
    BY <1>1, <2>1, SeqSizeAssumption DEF SeqNumber
<1>4. ASSUME n + 1 < SeqSize
      PROVE  (SeqAfter(last) - (n + 1)) % SeqSize = first
  <2>1. n + 1 \in SeqNumber /\ 1 \in SeqNumber
    BY <1>4, SeqSizeAssumption DEF SeqNumber
  <2>2. SeqAfter(last) = IF last + 1 < SeqSize THEN last + 1 ELSE last + 1 - SeqSize
    BY <2>1, Around DEF SeqAfter
  <2>3. SeqAfter(last) \in SeqNumber
    BY SeqArithmetic
  <2>4. (SeqAfter(last) - (n + 1)) % SeqSize
          = IF SeqAfter(last) >= n + 1 THEN SeqAfter(last) - (n + 1)
                                       ELSE SeqAfter(last) - (n + 1) + SeqSize
    BY <2>1, <2>3, Distance
  <2> QED
    BY <1>1, <2>2, <2>4, SeqSizeAssumption DEF SeqNumber
<1> QED
  BY <1>2, <1>3, <1>4 DEF first

-----------------------------------------------------------------------------
(* The receive buffer. *)

\* The least number from next on that is not buffered.
LEMMA FirstHole ==
  ASSUME NEW buf \in SUBSET SeqNumber, NEW next \in SeqNumber
  PROVE  \E hole \in next .. SeqSize :
           /\ hole \notin buf
           /\ \A x \in next .. hole - 1 : x \in buf
<1> DEFINE holes == {x \in next .. SeqSize : x \notin buf}
<1>1. next \in Nat /\ SeqSize \in Nat /\ next <= SeqSize
  BY SeqSizeAssumption DEF SeqNumber
<1>2. SeqSize \in holes
  BY <1>1 DEF SeqNumber
<1>3. holes \subseteq Nat /\ holes # {}
  BY <1>1, <1>2
<1>4. PICK hole \in holes : \A y \in holes : ~ (<<y, hole>> \in OpToRel(<, Nat))
  <2> HIDE DEF holes
  <2> QED
    BY <1>3, NatLessThanWellFounded, WFMin
<1>5. \A y \in holes : ~ (y < hole)
  BY <1>3, <1>4 DEF OpToRel
<1>6. ASSUME NEW x \in next .. hole - 1
      PROVE  x \in buf
  <2>1. x \in next .. SeqSize /\ x < hole
    BY <1>1
  <2> QED
    BY <1>5, <2>1
<1> QED
  BY <1>6

\* consumeContiguous stops at the first hole.
LEMMA NextSequenceIsHole ==
  ASSUME NEW buf \in SUBSET SeqNumber, NEW next \in SeqNumber,
         \A x \in buf : x >= next
  PROVE  LET n == NextSequence(buf, next)
         IN  /\ n \in next .. SeqSize
             /\ n \notin buf
             /\ \A x \in next .. n - 1 : x \in buf
<1> DEFINE run == {s \in buf : next .. s \subseteq buf}
<1>1. next \in Nat /\ SeqSize \in Nat /\ next <= SeqSize
  BY SeqSizeAssumption DEF SeqNumber
<1>2. PICK hole \in next .. SeqSize :
        hole \notin buf /\ \A x \in next .. hole - 1 : x \in buf
  BY FirstHole
<1>3. run = next .. hole - 1
  <2>1. ASSUME NEW s \in run
        PROVE  s \in next .. hole - 1
    <3>1. s \in SeqNumber /\ s >= next /\ next .. s \subseteq buf
      OBVIOUS
    <3>2. ~ (hole <= s)
      BY <1>1, <1>2, <3>1 DEF SeqNumber
    <3> QED
      BY <1>1, <1>2, <3>1, <3>2 DEF SeqNumber
  <2>2. ASSUME NEW s \in next .. hole - 1
        PROVE  s \in run
    <3>1. next .. s \subseteq next .. hole - 1
      BY <1>1
    <3> QED
      BY <1>2, <3>1
  <2> QED
    BY <2>1, <2>2
<1> HIDE DEF run
<1>4. Cardinality(run) = hole - next
  <2>1. Cardinality(next .. hole - 1)
          = IF next > hole - 1 THEN 0 ELSE hole - 1 - next + 1
    BY <1>1, FS_Interval
  <2> QED
    BY <1>1, <1>3, <2>1
<1>5. ~ (\E s \in buf : s < next)
  BY <1>1 DEF SeqNumber
<1>6. NextSequence(buf, next) = hole
  BY <1>1, <1>4, <1>5 DEF NextSequence, run
<1> QED
  BY <1>2, <1>6

\* What the server takes of a stream of which so many segments were sent.
Received(first, sent, c, got) ==
  /\ Offset(first, c.expected) <= sent
  /\ \A x \in c.rcvBuf : x > c.expected /\ Offset(first, x) < sent
  /\ got = Before(first, c.expected) \union c.rcvBuf

\* A segment of the stream that receive_data accepts is added to what was
\* received, and nothing else is: RCV.NXT moves over the segments that were
\* buffered behind it, and stops at the end of the stream at the latest.
LEMMA ReceiveDataReceived ==
  ASSUME NEW first \in SeqNumber, NEW sent \in Nat, sent < SeqSize,
         NEW c \in Connection, NEW s \in SeqNumber,
         NEW got \in SUBSET SeqNumber,
         Received(first, sent, c, got),
         AcceptsData(c, s), Offset(first, s) < sent
  PROVE  LET r == ReceiveData(c, s)
         IN  /\ Received(first, sent, r, got \union {s})
             /\ Offset(first, c.expected) <= Offset(first, r.expected)
             /\ s = c.expected => Offset(first, c.expected) < Offset(first, r.expected)
<1> DEFINE e == c.expected
           buf == c.rcvBuf \union {s}
           hole == NextSequence(buf, e)
           r == ReceiveData(c, s)
           d == hole - e
<1>1. /\ e \in SeqNumber /\ buf \subseteq SeqNumber /\ s >= e /\ s \notin c.rcvBuf
      /\ \A x \in buf : x >= e /\ Offset(first, x) < sent
      /\ s \in buf /\ c.rcvBuf \subseteq buf
      /\ e \in Nat /\ SeqSize \in Nat /\ e < SeqSize
  BY SeqSizeAssumption DEF Received, Connection, SeqNumber, AcceptsData
<1>2. /\ hole \in e .. SeqSize /\ hole \notin buf
      /\ \A x \in e .. hole - 1 : x \in buf
  BY <1>1, NextSequenceIsHole
<1>3. r.expected = hole % SeqSize /\ r.rcvBuf = {x \in buf : x >= hole \/ x < e}
  BY DEF ReceiveData, Connection
<1>4. Offset(first, e) \in Nat /\ Offset(first, e) <= sent
  BY <1>1, OffsetType DEF Received
<1>5. d \in Nat /\ hole = e + d
  BY <1>1, <1>2
<1>6. got = Before(first, e) \union c.rcvBuf
  BY DEF Received
<1> HIDE DEF e, buf, hole, r, d
<1>7. Offset(first, e) + d <= sent
  <2>1. SUFFICES ASSUME ~ (Offset(first, e) + d <= sent) PROVE FALSE
    OBVIOUS
  <2> DEFINE k == sent - Offset(first, e)
  <2>2. k \in Nat /\ k < d /\ Offset(first, e) + k = sent
    BY <1>4, <1>5, <2>1
  <2> HIDE DEF k
  <2>3. e + k \in buf
    BY <1>1, <1>2, <1>5, <2>2
  <2>4. (e + k) % SeqSize = e + k
    BY <1>1, <2>2, <2>3 DEF SeqNumber
  <2>5. Offset(first, (e + k) % SeqSize) = Offset(first, e) + k
    BY <1>1, <2>2, OffsetStep
  <2>6. Offset(first, e + k) = sent
    BY <2>2, <2>4, <2>5
  <2> QED
    BY <1>1, <1>4, <2>2, <2>3, <2>6
<1>8. r.expected \in SeqNumber /\ Offset(first, r.expected) = Offset(first, e) + d
  <2>1. /\ (e + d) % SeqSize \in SeqNumber
        /\ Offset(first, (e + d) % SeqSize) = Offset(first, e) + d
    <3>1. Offset(first, e) + d < SeqSize
      BY <1>1, <1>4, <1>5, <1>7
    <3> QED
      BY <1>1, <1>5, <3>1, OffsetStep
  <2> QED
    BY <1>3, <1>5, <2>1
<1>9. ASSUME NEW j \in Nat, j < d
      PROVE  /\ e + j \in SeqNumber /\ e + j \in buf
             /\ Offset(first, e + j) = Offset(first, e) + j
  <2>1. e + j \in buf
    BY <1>1, <1>2, <1>5, <1>9
  <2>2. (e + j) % SeqSize = e + j
    BY <1>1, <2>1 DEF SeqNumber
  <2>3. Offset(first, e) + j < SeqSize
    BY <1>1, <1>4, <1>5, <1>7, <1>9
  <2> QED
    BY <1>1, <2>1, <2>2, <2>3, OffsetStep
<1>10. ASSUME NEW x \in r.rcvBuf
       PROVE  x \in buf /\ x > r.expected
  <2>1. x \in buf /\ x >= hole /\ x # hole /\ x \in SeqNumber
    <3>1. x \in buf /\ (x >= hole \/ x < e)
      BY <1>3
    <3>2. x \in SeqNumber /\ x >= e /\ x # hole
      BY <1>1, <1>2, <3>1
    <3>3. x >= hole
      BY <1>1, <3>1, <3>2 DEF SeqNumber
    <3> QED
      BY <3>1, <3>2, <3>3
  <2>2. hole % SeqSize = hole
    BY <1>1, <1>2, <2>1 DEF SeqNumber
  <2> QED
    BY <1>1, <1>2, <1>3, <2>1, <2>2 DEF SeqNumber
<1>11. ASSUME NEW k \in got \union {s}
       PROVE  k \in Before(first, r.expected) \union r.rcvBuf
  <2>1. CASE k \in Before(first, e)
    <3>1. k \in SeqNumber /\ Offset(first, k) < Offset(first, e)
      BY <2>1 DEF Before
    <3>2. Offset(first, k) \in Nat
      BY <3>1, OffsetType
    <3>3. Offset(first, k) < Offset(first, r.expected)
      BY <1>4, <1>5, <1>8, <3>1, <3>2
    <3> QED
      BY <3>1, <3>3 DEF Before
  <2>2. CASE k \in buf /\ k < hole
    <3> DEFINE j == k - e
    <3>1. k \in SeqNumber /\ k >= e
      BY <1>1, <2>2
    <3>2. j \in Nat /\ j < d /\ e + j = k
      BY <1>1, <1>2, <1>5, <2>2, <3>1 DEF SeqNumber
    <3> HIDE DEF j
    <3>3. Offset(first, k) = Offset(first, e) + j
      BY <1>9, <3>2
    <3>4. Offset(first, k) < Offset(first, r.expected)
      BY <1>4, <1>5, <1>8, <3>2, <3>3
    <3> QED
      BY <3>1, <3>4 DEF Before
  <2>3. CASE k \in buf /\ ~ (k < hole)
    <3>1. k >= hole
      BY <1>1, <1>2, <2>3 DEF SeqNumber
    <3> QED
      BY <1>3, <2>3, <3>1
  <2> QED
    BY <1>6, <2>1, <2>2, <2>3 DEF buf
<1>12. ASSUME NEW k \in Before(first, r.expected)
       PROVE  k \in got \union {s}
  <2>1. k \in SeqNumber /\ Offset(first, k) < Offset(first, e) + d
    BY <1>8 DEF Before
  <2>2. Offset(first, k) \in Nat
    BY <2>1, OffsetType
  <2>3. CASE Offset(first, k) < Offset(first, e)
    BY <1>6, <2>1, <2>3 DEF Before
  <2>4. CASE ~ (Offset(first, k) < Offset(first, e))
    <3> DEFINE j == Offset(first, k) - Offset(first, e)
    <3>1. j \in Nat /\ j < d /\ Offset(first, e) + j = Offset(first, k)
      BY <1>4, <1>5, <2>1, <2>2, <2>4
    <3> HIDE DEF j
    <3>2. e + j \in SeqNumber /\ e + j \in buf /\ Offset(first, e + j) = Offset(first, k)
      BY <1>9, <3>1
    <3>3. e + j = k
      BY <2>1, <3>2, OffsetInjective
    <3> QED
      BY <1>6, <3>2, <3>3 DEF buf
  <2> QED
    BY <2>3, <2>4
<1>13. got \union {s} = Before(first, r.expected) \union r.rcvBuf
  <2>1. r.rcvBuf \subseteq got \union {s}
    BY <1>6, <1>10 DEF buf
  <2> QED
    BY <1>11, <1>12, <2>1
<1>14. Received(first, sent, r, got \union {s})
  BY <1>1, <1>7, <1>8, <1>10, <1>13 DEF Received
<1>15. Offset(first, e) <= Offset(first, r.expected)
  BY <1>4, <1>5, <1>8
<1>16. s = e => Offset(first, e) < Offset(first, r.expected)
  <2>1. s = e => hole # e
    BY <1>1, <1>2
  <2> QED
    BY <1>1, <1>4, <1>5, <1>8, <2>1
<1> QED
  BY <1>14, <1>15, <1>16 DEF e, r

-----------------------------------------------------------------------------
(* The inductive invariant. *)

HandshakeDone == \A i \in DOMAIN due : due[i].type # "handshake"

(***************************************************************************)
(* Until the traffic starts only the handshake is under way.  The client   *)
(* has sent nothing but SYNs and, once established, one ACK; the server    *)
(* expects the number the client will begin its stream with.               *)
(***************************************************************************)
Opening ==
  LET client == conn["client"]
      server == conn["server"]
  IN
  /\ packetsSent = 0
  /\ client.una = client.seq
  /\ client.state \in {"CLOSED", "SYN_SENT", "ESTABLISHED"}
  /\ server.state \in {"CLOSED", "SYN_RECEIVED"}
  /\ server.rcvBuf = {} /\ arrived = {}
  /\ \A i \in DOMAIN due : due[i].type = "handshake"
  /\ \A p \in Range(net["server"]) :
       \/ p.type = "SYN" /\ (client.state = "SYN_SENT" => p.seq = client.seq)
       \/ p.type = "ACK" /\ IsEstablished(client)
  /\ AtMostOne(net["server"], "ACK")
  /\ \A p \in Range(net["client"]) :
       p.type = "SYN_ACK" /\ server.state = "SYN_RECEIVED"
  /\ client.state = "CLOSED" => server.state = "CLOSED" /\ Range(net["server"]) = {}
  /\ client.state = "SYN_SENT" /\ server.state = "SYN_RECEIVED"
       => server.expected = SeqAfter(client.seq)
  /\ IsEstablished(client) =>
       server.state = "SYN_RECEIVED" /\ server.expected = client.seq

\* The server has sent its FIN and waits for the last ACK: the FIN is on its
\* way, or the ACK that answers it, but not both.
Closing ==
  IF conn["server"].state = "LAST_ACK"
    THEN /\ AtMostOne(net["server"], "ACK") /\ AtMostOne(net["client"], "FIN")
         /\ Without(net["server"], "ACK") \/ Without(net["client"], "FIN")
    ELSE Without(net["server"], "ACK") /\ Without(net["client"], "FIN")

(***************************************************************************)
(* From then on SND.UNA, RCV.NXT and SND.NXT come in this order, the DATA  *)
(* on its way is of the stream, no acknowledgement runs ahead of RCV.NXT,  *)
(* and what the server has accepted is the stream before RCV.NXT and its   *)
(* buffer.  The server stays established for as long as the client does.   *)
(***************************************************************************)
Flow ==
  LET client == conn["client"]
      server == conn["server"]
  IN
  /\ HandshakeDone
  /\ client.state \in {"ESTABLISHED", "FIN_WAIT_1", "FIN_WAIT_2", "CLOSING",
                       "TIME_WAIT", "CLOSED"}
  /\ server.state \in {"ESTABLISHED", "LAST_ACK", "CLOSED", "SYN_RECEIVED"}
  /\ \A p \in Range(net["server"]) :
       p.type = "DATA" => Position(p.seq) < packetsSent
  /\ IsEstablished(client) =>
       /\ IsEstablished(server)
       /\ Without(net["server"], "FIN")
       /\ \A p \in Range(net["client"]) :
            p.type = "ACK" => Position(p.ack) <= Position(server.expected)
  /\ IsEstablished(server) =>
       /\ Position(client.una) <= Position(server.expected)
       /\ Received(FirstNumber, packetsSent, server, arrived)
  /\ Closing

StreamInv == IF generated THEN Flow ELSE Opening

-----------------------------------------------------------------------------
(* What a step leaves as it was. *)

LEMMA PositionType ==
  ASSUME TypeOK
  PROVE  /\ FirstNumber \in SeqNumber
         /\ packetsSent \in SeqNumber /\ packetsSent \in Nat
         /\ packetsSent < SeqSize /\ PacketsPerRoute < SeqSize
         /\ \A n \in SeqNumber : Position(n) \in Nat /\ Position(n) < SeqSize
         /\ Position(conn["client"].seq) = packetsSent
<1>1. /\ packetsSent \in Nat /\ packetsSent <= PacketsPerRoute
      /\ PacketsPerRoute \in Nat /\ SeqSize \in Nat
  BY SessionAssumption, SeqSizeAssumption DEF TypeOK
<1>2. packetsSent \in SeqNumber /\ conn["client"].seq \in SeqNumber
  <2>1. packetsSent \in SeqNumber
    BY <1>1, StreamAssumption DEF SeqNumber
  <2>2. conn["client"].seq \in SeqNumber
    BY DEF TypeOK, Endpoint, Connection
  <2> QED
    BY <2>1, <2>2
<1>3. FirstNumber \in SeqNumber /\ Position(conn["client"].seq) = packetsSent
  BY <1>2, FirstOfStream DEF FirstNumber, Position
<1>4. \A n \in SeqNumber : Position(n) \in Nat /\ Position(n) < SeqSize
  BY <1>3, OffsetType DEF Position
<1> QED
  BY <1>1, <1>2, <1>3, <1>4, StreamAssumption

LEMMA PacketType ==
  ASSUME TypeOK, NEW e \in Endpoint, NEW p \in Range(net[e])
  PROVE  p \in Segment /\ p.seq \in SeqNumber /\ p.ack \in SeqNumber
<1>1. PICK i \in DOMAIN net[e] : net[e][i] = p
  BY DEF Range
<1>2. net[e] \in Seq(Segment)
  BY DEF TypeOK
<1>3. net[e][i] \in Segment
  BY <1>2, ElementOfSeq, LenProperties
<1> QED
  BY <1>1, <1>3 DEF Segment

\* A segment that leaves for e.
LEMMA TransmitPackets ==
  ASSUME TypeOK, NEW e \in Endpoint, NEW segment \in Segment, NEW ok \in BOOLEAN,
         Transmit(e, segment, ok)
  PROVE  /\ net'[Peer(e)] = net[Peer(e)]
         /\ Range(net'[e]) \subseteq Range(net[e]) \union {segment}
         /\ \A type : segment.type # type => NoMore(net[e], net'[e], type)
         /\ \A type : Without(net[e], type) => AtMostOne(net'[e], type)
<1> DEFINE t == Taken(segment, ok)
<1>1. net[e] \in Seq(Segment) /\ t \in Seq(Segment)
  BY TakenPackets DEF TypeOK
<1>2. net'[e] = net[e] \o t /\ net'[Peer(e)] = net[Peer(e)]
  BY DEF Transmit, TypeOK, Peer, Endpoint
<1>3. /\ Range(t) \subseteq {segment}
      /\ \A type : AtMostOne(t, type)
      /\ \A type : segment.type # type => Without(t, type)
  BY TakenPackets
<1> HIDE DEF t
<1> QED
  BY <1>1, <1>2, <1>3, ConcatPackets DEF NoMore

\* The i-th packet to e arrives, and replies leave for the other endpoint.
LEMMA ConsumePackets ==
  ASSUME TypeOK, NEW e \in Endpoint, NEW i \in DOMAIN net[e],
         NEW replies \in Seq(Segment), Consume(e, i, replies)
  PROVE  /\ Range(net'[e]) \subseteq Range(net[e])
         /\ \A type : NoMore(net[e], net'[e], type)
         /\ \A type : AtMostOne(net[e], type) /\ net[e][i].type = type
                        => Without(net'[e], type)
         /\ net[e][i] \in Range(net[e])
         /\ net'[Peer(e)] = net[Peer(e)] \o replies
         /\ Range(net'[Peer(e)]) = Range(net[Peer(e)]) \union Range(replies)
         /\ \A type : Without(replies, type)
                        => NoMore(net[Peer(e)], net'[Peer(e)], type)
         /\ \A type : Without(net[Peer(e)], type)
                        => NoMore(replies, net'[Peer(e)], type)
<1>1. Peer(e) \in Endpoint /\ Peer(e) # e
  BY DEF Peer, Endpoint
<1>2. net[e] \in Seq(Segment) /\ net[Peer(e)] \in Seq(Segment)
  BY <1>1 DEF TypeOK
<1>3. net'[e] = RemoveAt(net[e], i) /\ net'[Peer(e)] = net[Peer(e)] \o replies
  BY <1>1 DEF Consume, TypeOK
<1>4. net[e][i] \in Range(net[e])
  BY DEF Range
<1> QED
  BY <1>2, <1>3, <1>4, RemoveAtPackets, ConcatPackets

LEMMA ClosingKept ==
  ASSUME Closing,
         (conn["server"].state = "LAST_ACK") <=> (conn'["server"].state = "LAST_ACK"),
         NoMore(net["server"], net'["server"], "ACK"),
         NoMore(net["client"], net'["client"], "FIN")
  PROVE  Closing'
BY DEF Closing, NoMore

LEMMA SameNet ==
  ASSUME NEW e, net'[e] = net[e]
  PROVE  /\ Range(net'[e]) \subseteq Range(net[e])
         /\ \A type : NoMore(net[e], net'[e], type)
BY DEF NoMore

\* A packet lost, or one that arrives and is not answered.
LEMMA LosePackets ==
  ASSUME TypeOK, NEW e \in Endpoint, NEW i \in DOMAIN net[e],
         net' = [net EXCEPT ![e] = RemoveAt(@, i)]
  PROVE  \A d \in Endpoint : /\ Range(net'[d]) \subseteq Range(net[d])
                             /\ \A type : NoMore(net[d], net'[d], type)
<1>1. net[e] \in Seq(Segment)
  BY DEF TypeOK
<1>2. /\ net'[e] = RemoveAt(net[e], i)
      /\ \A d \in Endpoint : d # e => net'[d] = net[d]
  BY DEF TypeOK
<1>3. /\ Range(net'[e]) \subseteq Range(net[e])
      /\ \A type : NoMore(net[e], net'[e], type)
  BY <1>1, <1>2, RemoveAtPackets
<1> QED
  BY <1>2, <1>3, SameNet

LEMMA DropPackets ==
  ASSUME TypeOK, NEW e \in Endpoint, NEW i \in DOMAIN net[e], Consume(e, i, <<>>)
  PROVE  /\ net'[Peer(e)] = net[Peer(e)]
         /\ \A d \in Endpoint : /\ Range(net'[d]) \subseteq Range(net[d])
                                /\ \A type : NoMore(net[d], net'[d], type)
<1>1. Peer(e) \in Endpoint /\ Peer(e) # e /\ \A d \in Endpoint : d # e => d = Peer(e)
  BY DEF Peer, Endpoint
<1>2. net[e] \in Seq(Segment) /\ net[Peer(e)] \in Seq(Segment)
  BY <1>1 DEF TypeOK
<1>3. net'[Peer(e)] = net[Peer(e)]
  BY <1>1, <1>2, ConcatEmptySeq DEF Consume, TypeOK
<1>4. /\ Range(net'[e]) \subseteq Range(net[e])
      /\ \A type : NoMore(net[e], net'[e], type)
  BY <1>2, ConsumePackets, EmptySeq
<1> QED
  BY <1>1, <1>3, <1>4, SameNet

\* The stream as it is after a step: what was on its way may still be.
LEMMA FlowAfter ==
  ASSUME TypeOK, TypeOK', Flow, HandshakeDone',
         FirstNumber' = FirstNumber, packetsSent' >= packetsSent,
         conn'["client"].state \in {"ESTABLISHED", "FIN_WAIT_1", "FIN_WAIT_2",
                                    "CLOSING", "TIME_WAIT", "CLOSED"},
         conn'["server"].state \in {"ESTABLISHED", "LAST_ACK", "CLOSED",
                                    "SYN_RECEIVED"},
         IsEstablished(conn'["client"]) => IsEstablished(conn["client"]),
         IsEstablished(conn'["client"]) =>
           /\ IsEstablished(conn'["server"])
           /\ Position(conn["server"].expected) <= Position(conn'["server"].expected),
         \A p \in Range(net'["server"]) :
           \/ p \in Range(net["server"])
           \/ p.type = "DATA" /\ Position(p.seq) < packetsSent'
           \/ p.type = "FIN" /\ ~ IsEstablished(conn'["client"])
           \/ p.type \notin {"DATA", "FIN"},
         \A p \in Range(net'["client"]) :
           \/ p \in Range(net["client"])
           \/ p.type = "ACK" /\ Position(p.ack) <= Position(conn'["server"].expected)
           \/ p.type # "ACK" \/ ~ IsEstablished(conn'["client"]),
         IsEstablished(conn'["server"]) =>
           /\ Position(conn'["client"].una) <= Position(conn'["server"].expected)
           /\ Received(FirstNumber, packetsSent', conn'["server"], arrived'),
         Closing'
  PROVE  Flow'
<1>1. "client" \in Endpoint /\ "server" \in Endpoint
  BY DEF Endpoint
<1>2. /\ packetsSent \in Nat /\ packetsSent' \in Nat
      /\ \A n \in SeqNumber : Position(n) \in Nat
  BY PositionType, SessionAssumption DEF TypeOK
<1>3. \A n : Position(n)' = Position(n)
  BY DEF Position
<1>4. ASSUME NEW p \in Range(net'["server"]), p.type = "DATA"
      PROVE  Position(p.seq) < packetsSent'
  <2>1. CASE p \in Range(net["server"])
    <3>1. Position(p.seq) \in Nat /\ Position(p.seq) < packetsSent
      BY <1>1, <1>2, <1>4, <2>1, PacketType DEF Flow
    <3> QED
      BY <1>2, <3>1
  <2> QED
    BY <1>4, <2>1
<1>5. ASSUME IsEstablished(conn'["client"])
      PROVE  Without(net'["server"], "FIN")
  BY <1>5 DEF Without, Flow
<1>6. ASSUME NEW p \in Range(net'["client"]), p.type = "ACK",
             IsEstablished(conn'["client"])
      PROVE  Position(p.ack) <= Position(conn'["server"].expected)
  <2>1. CASE p \in Range(net["client"])
    <3>1. Position(p.ack) \in Nat /\ Position(p.ack) <= Position(conn["server"].expected)
      BY <1>1, <1>2, <1>6, <2>1, PacketType DEF Flow
    <3>2. conn["server"].expected \in SeqNumber /\ conn'["server"].expected \in SeqNumber
      BY <1>1 DEF TypeOK, Connection
    <3> QED
      BY <1>2, <1>6, <3>1, <3>2
  <2> QED
    BY <1>6, <2>1
<1> QED
  BY <1>3, <1>4, <1>5, <1>6 DEF Flow

\* A step that leaves the server as it is and acknowledges nothing.
LEMMA FlowKept ==
  ASSUME TypeOK, TypeOK', Flow, HandshakeDone',
         conn'["server"].state = conn["server"].state,
         conn'["server"].expected = conn["server"].expected,
         conn'["server"].rcvBuf = conn["server"].rcvBuf,
         conn'["client"].seq = conn["client"].seq,
         conn'["client"].una = conn["client"].una,
         packetsSent' = packetsSent, arrived' = arrived,
         conn'["client"].state \in {"ESTABLISHED", "FIN_WAIT_1", "FIN_WAIT_2",
                                    "CLOSING", "TIME_WAIT", "CLOSED"},
         IsEstablished(conn'["client"]) => IsEstablished(conn["client"]),
         \A p \in Range(net'["server"]) :
           \/ p \in Range(net["server"])
           \/ p.type = "DATA" /\ Position(p.seq) < packetsSent
           \/ p.type = "FIN" /\ ~ IsEstablished(conn'["client"]),
         \A p \in Range(net'["client"]) :
           \/ p \in Range(net["client"])
           \/ p.type = "ACK" /\ p.ack = conn["server"].expected,
         NoMore(net["server"], net'["server"], "ACK"),
         NoMore(net["client"], net'["client"], "FIN")
  PROVE  Flow'
<1>1. FirstNumber' = FirstNumber
  BY DEF FirstNumber
<1>2. Closing'
  BY ClosingKept DEF Flow
<1>3. conn["server"].expected \in SeqNumber
  BY DEF TypeOK, Connection, Endpoint
<1>4. Position(conn["server"].expected) \in Nat
  BY <1>3, PositionType
<1>5. packetsSent \in Nat
  BY PositionType
<1>6. IsEstablished(conn'["client"]) => IsEstablished(conn'["server"])
  BY DEF Flow, IsEstablished
<1>7. IsEstablished(conn'["server"]) =>
        /\ Position(conn'["client"].una) <= Position(conn'["server"].expected)
        /\ Received(FirstNumber, packetsSent', conn'["server"], arrived')
  BY DEF Flow, IsEstablished, Received
<1>8. conn'["server"].state \in {"ESTABLISHED", "LAST_ACK", "CLOSED", "SYN_RECEIVED"}
  BY DEF Flow
<1>9. \A p \in Range(net'["server"]) :
           \/ p \in Range(net["server"])
           \/ p.type = "DATA" /\ Position(p.seq) < packetsSent'
           \/ p.type = "FIN" /\ ~ IsEstablished(conn'["client"])
           \/ p.type \notin {"DATA", "FIN"}
  OBVIOUS
<1>10. \A p \in Range(net'["client"]) :
           \/ p \in Range(net["client"])
           \/ p.type = "ACK" /\ Position(p.ack) <= Position(conn'["server"].expected)
           \/ p.type # "ACK" \/ ~ IsEstablished(conn'["client"])
  BY <1>4
<1>11. packetsSent' >= packetsSent
       /\ Position(conn["server"].expected) <= Position(conn'["server"].expected)
  BY <1>4, <1>5
<1> QED
  BY <1>1, <1>2, <1>6, <1>7, <1>8, <1>9, <1>10, <1>11, FlowAfter

LEMMA NoHandshakeAppended ==
  ASSUME NEW q \in Seq(DueEvent), \A i \in DOMAIN q : q[i].type # "handshake",
         NEW event \in DueEvent, event.type # "handshake"
  PROVE  /\ Append(q, event) \in Seq(DueEvent)
         /\ \A i \in DOMAIN Append(q, event) : Append(q, event)[i].type # "handshake"
<1> DEFINE r == Append(q, event)
<1>1. /\ r \in Seq(DueEvent)
      /\ \A i \in DOMAIN r : r[i].type = "handshake" => i \in DOMAIN q /\ r[i] = q[i]
  BY AppendEventType
<1> HIDE DEF r
<1>2. ASSUME NEW i \in DOMAIN r PROVE r[i].type # "handshake"
  BY <1>1
<1> QED
  BY <1>1, <1>2 DEF r

LEMMA NoHandshakeAdded ==
  ASSUME NEW q \in Seq(DueEvent), \A i \in DOMAIN q : q[i].type # "handshake",
         NEW event \in DueEvent, event.type # "handshake",
         NEW x \in {<<>>, <<event>>}
  PROVE  /\ q \o x \in Seq(DueEvent)
         /\ \A i \in DOMAIN (q \o x) : (q \o x)[i].type # "handshake"
<1> DEFINE r == q \o x
<1>1. /\ r \in Seq(DueEvent)
      /\ \A i \in DOMAIN r : r[i].type = "handshake" => i \in DOMAIN q /\ r[i] = q[i]
  BY MaybeEventType
<1> HIDE DEF r
<1>2. ASSUME NEW i \in DOMAIN r PROVE r[i].type # "handshake"
  BY <1>1
<1> QED
  BY <1>1, <1>2 DEF r

\* Once the handshake event has been run nothing schedules another.
LEMMA HandshakeStaysDone ==
  ASSUME TypeInv, HandshakeDone, [Next]_vars
  PROVE  HandshakeDone'
<1> USE DEF sessionVars, historyVars, timerVars
<1>1. TypeOK /\ HandshakeOnce /\ due \in Seq(DueEvent)
  BY DEF TypeInv, TypeOK
<1>2. CASE due' = due
  BY <1>2 DEF HandshakeDone
<1>3. ASSUME NEW type, Due(type), due' = Tail(due)
      PROVE  HandshakeDone'
  BY <1>1, <1>3, TailType DEF HandshakeDone
<1>4. CASE PacketGeneration
  <2>1. /\ Tail(due) \in Seq(DueEvent)
        /\ \A i \in DOMAIN Tail(due) : Tail(due)[i].type # "handshake"
    BY <1>1, <1>4, TailType DEF PacketGeneration
  <2>2. Event("generate") \in DueEvent /\ Event("generate").type # "handshake"
    BY EventType DEF Event
  <2>3. due' \in {Tail(due), Append(Tail(due), Event("generate"))}
    BY <1>4 DEF PacketGeneration
  <2> QED
    BY <2>1, <2>2, <2>3, NoHandshakeAppended DEF HandshakeDone
<1>5. ASSUME NEW s \in SeqNumber, Timeout(s)
      PROVE  HandshakeDone'
  <2>1. /\ EventFor("retransmit", s) \in DueEvent
        /\ EventFor("retransmit", s).type # "handshake"
    BY EventType DEF EventFor
  <2>2. due' \in {due, Append(due, EventFor("retransmit", s))}
    BY <1>5 DEF Timeout
  <2> QED
    BY <1>1, <2>1, <2>2, NoHandshakeAppended DEF HandshakeDone
<1>6. ASSUME NEW e, NEW i, ReceiveAckPacket(e, i)
      PROVE  HandshakeDone'
  <2>1. PICK a \in {<<>>, <<Event("fastRetransmit")>>},
             b \in {<<>>, <<Event("generate")>>},
             c \in {<<>>, <<Event("close")>>} : due' = due \o a \o b \o c
    BY <1>6 DEF ReceiveAckPacket
  <2> DEFINE q1 == due \o a
             q2 == q1 \o b
  <2>2. /\ Event("fastRetransmit").type # "handshake"
        /\ Event("generate").type # "handshake"
        /\ Event("close").type # "handshake"
    BY DEF Event
  <2>3. q1 \in Seq(DueEvent) /\ \A j \in DOMAIN q1 : q1[j].type # "handshake"
    BY <1>1, <2>2, NoHandshakeAdded, EventType DEF HandshakeDone
  <2> HIDE DEF q1
  <2>4. q2 \in Seq(DueEvent) /\ \A j \in DOMAIN q2 : q2[j].type # "handshake"
    BY <2>2, <2>3, NoHandshakeAdded, EventType
  <2> HIDE DEF q2
  <2>5. \A j \in DOMAIN (q2 \o c) : (q2 \o c)[j].type # "handshake"
    BY <2>2, <2>4, NoHandshakeAdded, EventType
  <2> QED
    BY SMTT(40), <2>1, <2>5 DEF HandshakeDone, q1, q2
<1>7. CASE RunDueEvent
  <2>1. CASE PacketGeneration
    BY <1>4, <2>1
  <2>2. CASE ~ PacketGeneration
    <3>1. \E type \in {"handshake", "generate", "retransmit", "fastRetransmit", "close"} :
            Due(type) /\ due' = Tail(due)
      BY <1>7, <2>2 DEF RunDueEvent, HandshakeEvent, GenerationEnds, Retransmission,
                        FastRetransmit, ConnectionClose
    <3> QED
      BY <1>3, <3>1
  <2> QED
    BY <2>1, <2>2
<1>8. CASE ReceiveAtServer \/ ReceiveAtClient
  <2>1. \/ due' = due
        \/ \E e \in Endpoint : \E i : ReceiveAckPacket(e, i)
    BY <1>8
       DEF ReceiveAtServer, ReceiveAtClient, ReceiveSynPacket, ReceiveSynAckPacket,
           ReceiveDataRejected, ReceiveDataAcked, ReceiveDataDelayed,
           ReceiveFinPacket, Endpoint
  <2> QED
    BY <1>2, <1>6, <2>1
<1>9. CASE FireTimer
  <2>1. due' = due \/ \E s \in SeqNumber : Timeout(s)
    BY <1>9
       DEF FireTimer, HandshakeTimeoutIgnored, HandshakeTimeout, TimeWaitTimeout,
           DelayedAckIgnored, DelayedAckObsolete, DelayedAckSent
  <2> QED
    BY <1>2, <1>5, <2>1
<1>10. CASE Lose \/ UNCHANGED vars
  <2>1. due' = due
    BY <1>10 DEF Lose, LoseInTransit, vars
  <2> QED
    BY <1>2, <2>1
<1> QED
  BY <1>7, <1>8, <1>9, <1>10 DEF Next

-----------------------------------------------------------------------------
(* The handshake. *)

LEMMA InitStreamInv == Init => StreamInv
<1> SUFFICES ASSUME Init PROVE StreamInv
  OBVIOUS
<1>1. /\ ~ generated /\ packetsSent = 0 /\ arrived = {}
      /\ \A e \in Endpoint : conn[e] = NewConnection /\ net[e] = <<>>
      /\ due = <<Event("handshake")>>
  BY DEF Init
<1>2. /\ conn["client"].state = "CLOSED" /\ conn["server"].state = "CLOSED"
      /\ conn["client"].una = conn["client"].seq /\ conn["server"].rcvBuf = {}
  BY <1>1 DEF NewConnection, Endpoint
<1>3. \A e \in Endpoint : Range(net[e]) = {} /\ AtMostOne(net[e], "ACK")
  BY <1>1, EmptySeq DEF Range, AtMostOne
<1>4. \A i \in DOMAIN due : due[i].type = "handshake"
  BY <1>1 DEF Event
<1> QED
  BY <1>1, <1>2, <1>3, <1>4 DEF StreamInv, Opening, Endpoint, IsEstablished

\* A step of the handshake that changes neither end, except for SYNs repeated.
LEMMA OpeningKept ==
  ASSUME Opening,
         conn'["server"].state = conn["server"].state,
         conn'["server"].expected = conn["server"].expected,
         conn'["server"].rcvBuf = conn["server"].rcvBuf,
         conn'["client"].state = conn["client"].state,
         conn'["client"].seq = conn["client"].seq,
         conn'["client"].una = conn["client"].una,
         packetsSent' = packetsSent, arrived' = arrived, due' = due,
         \A p \in Range(net'["server"]) :
           \/ p \in Range(net["server"])
           \/ /\ p.type = "SYN" /\ p.seq = conn["client"].seq
              /\ conn["client"].state = "SYN_SENT",
         NoMore(net["server"], net'["server"], "ACK"),
         Range(net'["client"]) \subseteq Range(net["client"])
  PROVE  Opening'
<1>1. AtMostOne(net'["server"], "ACK")
  BY DEF Opening, NoMore
<1>2. \A p \in Range(net'["server"]) :
       \/ p.type = "SYN"
          /\ (conn'["client"].state = "SYN_SENT" => p.seq = conn'["client"].seq)
       \/ p.type = "ACK" /\ IsEstablished(conn'["client"])
  BY DEF Opening, IsEstablished
<1>3. \A p \in Range(net'["client"]) :
        p.type = "SYN_ACK" /\ conn'["server"].state = "SYN_RECEIVED"
  BY DEF Opening
<1>4. conn'["client"].state = "CLOSED" =>
        conn'["server"].state = "CLOSED" /\ Range(net'["server"]) = {}
  BY DEF Opening
<1> QED
  BY <1>1, <1>2, <1>3, <1>4 DEF Opening, IsEstablished

LEMMA HandshakeEventStreamInv ==
  ASSUME TypeInv, Opening, HandshakeEvent
  PROVE  Opening'
<1> DEFINE client == conn["client"]
<1> USE DEF sessionVars, historyVars
<1>1. TypeOK /\ HandshakeOnce /\ client \in Connection /\ "server" \in Endpoint
  BY DEF TypeInv, TypeOK, Endpoint
<1>2. /\ 1 \in DOMAIN due /\ due[1].type = "handshake"
      /\ \A i \in DOMAIN Tail(due) : Tail(due)[i].type = "handshake"
  <2>1. Due("handshake") /\ due \in Seq(DueEvent)
    BY <1>1 DEF HandshakeEvent, TypeOK
  <2>2. /\ Head(due) = due[1] /\ 1 \in DOMAIN due
        /\ \A i \in DOMAIN Tail(due) : Tail(due)[i].type # "handshake"
    BY <1>1, <2>1, TailType
  <2>3. /\ Len(Tail(due)) = Len(due) - 1 /\ Tail(due) \in Seq(DueEvent)
        /\ \A i \in 1 .. Len(Tail(due)) : Tail(due)[i] = due[i + 1]
    BY <2>1, HeadTailProperties DEF Due
  <2>4. /\ DOMAIN Tail(due) = 1 .. Len(Tail(due)) /\ DOMAIN due = 1 .. Len(due)
        /\ Len(due) \in Nat
    BY <2>1, <2>3, LenProperties
  <2>5. ASSUME NEW i \in DOMAIN Tail(due)
        PROVE  Tail(due)[i].type = "handshake"
    <3>1. i + 1 \in DOMAIN due /\ Tail(due)[i] = due[i + 1]
      BY <2>3, <2>4
    <3> QED
      BY <3>1 DEF Opening
  <2> QED
    BY <2>1, <2>2, <2>5 DEF Due
<1>3. client.state = "CLOSED"
  BY <1>1, <1>2 DEF HandshakeOnce
<1>4. PICK isn \in ClientISNs, ok \in BOOLEAN :
        /\ conn' = [conn EXCEPT !["client"] = SendSyn(client, isn)]
        /\ Transmit("server", BuildSyn(SendSyn(client, isn)), ok)
  BY DEF HandshakeEvent
<1>5. isn \in SeqNumber
  BY SessionAssumption
<1>6. /\ conn'["client"] = SendSyn(client, isn)
      /\ conn'["server"] = conn["server"]
  BY <1>1, <1>4 DEF TypeOK, Endpoint
<1>7. /\ conn'["client"].state = "SYN_SENT"
      /\ conn'["client"].seq = isn /\ conn'["client"].una = isn
  BY <1>1, <1>3, <1>6 DEF SendSyn, OnSynSent, Connection
<1> DEFINE syn == BuildSyn(SendSyn(client, isn))
<1>8. syn.type = "SYN" /\ syn.seq = isn /\ syn \in Segment
  BY <1>5, <1>6, <1>7, SeqArithmetic DEF BuildSyn, Segment
<1> HIDE DEF syn
<1>9. /\ net'["client"] = net["client"]
      /\ Range(net'["server"]) \subseteq Range(net["server"]) \union {syn}
      /\ NoMore(net["server"], net'["server"], "ACK")
  BY <1>1, <1>4, <1>8, TransmitPackets DEF Peer, syn
<1>10. AtMostOne(net'["server"], "ACK")
  BY <1>9 DEF NoMore, Opening
<1>11. Range(net["server"]) = {} /\ conn["server"].state = "CLOSED"
  BY <1>3 DEF Opening
<1>12. \A p \in Range(net'["server"]) : p.type = "SYN" /\ p.seq = isn
  BY <1>8, <1>9, <1>11
<1>13. /\ packetsSent' = packetsSent /\ arrived' = arrived /\ due' = Tail(due)
  BY DEF HandshakeEvent
<1>14. \A p \in Range(net'["client"]) : FALSE
  BY <1>9, <1>11 DEF Opening
<1> QED
  BY <1>2, <1>6, <1>7, <1>10, <1>11, <1>12, <1>13, <1>14 DEF Opening, IsEstablished

\* Before the traffic starts there is nothing to send again.
LEMMA NothingOutstanding ==
  ASSUME SessionInv, Opening, conn["client"].state # "CLOSED"
  PROVE  conn["client"].sendBuf = <<>>
<1> DEFINE client == conn["client"]
<1>1. client \in Connection
  BY DEF SessionInv, TimerInv, TypeInv, TypeOK, Endpoint
<1>2. CASE client.state = "SYN_SENT"
  BY <1>2 DEF SessionInv, TimerInv, FreshBuffer
<1>3. CASE IsEstablished(client)
  <2>1. Len(client.sendBuf) = InFlight(client)
    BY <1>3 DEF SessionInv, SenderInv, SendBufferExact
  <2>2. client.una = client.seq /\ client.una \in SeqNumber
    BY <1>1 DEF Opening, Connection
  <2>3. InFlight(client) = 0
    BY <2>2, NothingInFlight
  <2>4. client.sendBuf \in Seq(SendEntry)
    BY <1>1 DEF Connection
  <2> QED
    BY <2>1, <2>3, <2>4, EmptySeq
<1> QED
  BY <1>2, <1>3 DEF Opening, IsEstablished

LEMMA OpeningEvents ==
  ASSUME TypeOK, Opening, NEW type, Due(type)
  PROVE  type = "handshake"
<1>1. due \in Seq(DueEvent) /\ due # <<>>
  BY DEF TypeOK, Due
<1>2. Head(due) = due[1] /\ 1 \in DOMAIN due
  BY <1>1, HeadTailProperties, LenProperties, EmptySeq
<1> QED
  BY <1>2 DEF Opening, Due

\* The timers that may fire before the traffic starts, and lost packets.
LEMMA OpeningTimerStreamInv ==
  ASSUME SessionInv, Opening,
         \/ HandshakeTimeoutIgnored \/ HandshakeTimeout \/ TimeWaitTimeout
         \/ \E s \in SeqNumber : Timeout(s)
         \/ \E a \in SeqNumber :
              DelayedAckIgnored(a) \/ DelayedAckObsolete(a) \/ DelayedAckSent(a)
         \/ Lose \/ UNCHANGED vars
  PROVE  Opening'
<1> DEFINE client == conn["client"]
<1> USE DEF sessionVars, historyVars, timerVars
<1>1. TypeOK /\ client \in Connection /\ "server" \in Endpoint /\ "client" \in Endpoint
  BY DEF SessionInv, TimerInv, TypeInv, TypeOK, Endpoint
<1>2. CASE UNCHANGED <<conn, net, packetsSent, arrived, due>>
  BY <1>2, OpeningKept, SameNet
<1>3. CASE HandshakeTimeout
  <2>1. PICK ok \in BOOLEAN : Transmit("server", BuildSyn(client), ok)
    BY <1>3 DEF HandshakeTimeout
  <2> DEFINE syn == BuildSyn(client)
  <2>2. syn \in Segment /\ syn.type = "SYN" /\ syn.seq = client.seq
    BY <1>1, BuildType DEF BuildSyn
  <2> HIDE DEF syn
  <2>3. /\ net'["client"] = net["client"]
        /\ Range(net'["server"]) \subseteq Range(net["server"]) \union {syn}
        /\ NoMore(net["server"], net'["server"], "ACK")
    BY <1>1, <2>1, <2>2, TransmitPackets DEF Peer, syn
  <2>4. /\ conn'["server"] = conn["server"] /\ conn'["client"].state = client.state
        /\ conn'["client"].seq = client.seq /\ conn'["client"].una = client.una
        /\ client.state = "SYN_SENT"
    BY <1>1, <1>3 DEF HandshakeTimeout, AwaitsSynAck, TypeOK, Endpoint, Connection
  <2>5. \A p \in Range(net'["server"]) :
           \/ p \in Range(net["server"])
           \/ /\ p.type = "SYN" /\ p.seq = client.seq
              /\ client.state = "SYN_SENT"
    BY <2>2, <2>3, <2>4
  <2>6. packetsSent' = packetsSent /\ arrived' = arrived /\ due' = due
    BY <1>3 DEF HandshakeTimeout
  <2> QED
    BY <2>3, <2>4, <2>5, <2>6, OpeningKept
<1>4. CASE TimeWaitTimeout
  <2>1. ~ Accepts(OnTimeWaitDone, client.state)
    BY DEF Opening, Accepts, OnTimeWaitDone
  <2>2. UNCHANGED <<conn, net, packetsSent, arrived, due>>
    BY <1>4, <2>1 DEF TimeWaitTimeout
  <2> QED
    BY <1>2, <2>2
<1>5. ASSUME NEW s \in SeqNumber, Timeout(s)
      PROVE  Opening'
  <2>1. CASE client.state = "CLOSED"
    <3>1. ~ IsEstablished(client) /\ FailRetransmission(client) = client
      BY <2>1 DEF IsEstablished, FailRetransmission, OnRetransmissionFailure
    <3>2. [conn EXCEPT !["client"] = client] = conn
      BY <1>1 DEF TypeOK
    <3>3. UNCHANGED <<conn, net, packetsSent, arrived, due>>
      BY <1>5, <3>1, <3>2 DEF Timeout
    <3> QED
      BY <1>2, <3>3
  <2>2. CASE client.state # "CLOSED"
    <3>1. client.sendBuf = <<>>
      BY <2>2, NothingOutstanding
    <3>2. ~ HasOutstandingSegment(client, s)
      BY <3>1, EmptySeq DEF HasOutstandingSegment
    <3>3. UNCHANGED <<conn, net, packetsSent, arrived, due>>
      BY <1>5, <3>2 DEF Timeout
    <3> QED
      BY <1>2, <3>3
  <2> QED
    BY <2>1, <2>2
<1>6. ASSUME NEW a \in SeqNumber,
             DelayedAckIgnored(a) \/ DelayedAckObsolete(a) \/ DelayedAckSent(a)
      PROVE  Opening'
  <2>1. ~ IsEstablished(conn["server"])
    BY DEF Opening, IsEstablished
  <2>2. UNCHANGED <<conn, net, packetsSent, arrived, due>>
    BY <1>6, <2>1 DEF DelayedAckIgnored, DelayedAckObsolete, DelayedAckSent
  <2> QED
    BY <1>2, <2>2
<1>7. CASE Lose
  <2>1. PICK e \in Endpoint : \E i \in DOMAIN net[e] : LoseInTransit(e, i)
    BY <1>7 DEF Lose
  <2>2. PICK i \in DOMAIN net[e] : LoseInTransit(e, i)
    BY <2>1
  <2>3. \A d \in Endpoint : /\ Range(net'[d]) \subseteq Range(net[d])
                            /\ \A type : NoMore(net[d], net'[d], type)
    BY <1>1, <2>2, LosePackets DEF LoseInTransit
  <2>4. UNCHANGED <<conn, packetsSent, arrived, due>>
    BY <2>2 DEF LoseInTransit
  <2> QED
    BY <1>1, <2>3, <2>4, OpeningKept
<1>8. CASE HandshakeTimeoutIgnored \/ UNCHANGED vars
  <2>1. UNCHANGED <<conn, net, packetsSent, arrived, due>>
    BY <1>8 DEF HandshakeTimeoutIgnored, vars
  <2> QED
    BY <1>2, <2>1
<1> QED
  BY <1>3, <1>4, <1>5, <1>6, <1>7, <1>8

LEMMA ReceiveSynPacketStreamInv ==
  ASSUME TypeInv, Opening, NEW i, ReceiveSynPacket(i)
  PROVE  Opening'
<1> DEFINE server == conn["server"]
           client == conn["client"]
           syn == net["server"][i]
           after == ReceiveSyn(server, syn.seq)
<1> USE DEF sessionVars, historyVars, timerVars
<1>1. TypeOK /\ server \in Connection /\ "server" \in Endpoint /\ "client" \in Endpoint
  BY DEF TypeInv, TypeOK, Endpoint
<1>2. /\ Arrives("server", i, "SYN") /\ syn.type = "SYN"
      /\ i \in DOMAIN net["server"] /\ syn.seq \in SeqNumber
      /\ packetsSent' = packetsSent /\ arrived' = arrived /\ due' = due
  BY <1>1, ArrivesType DEF ReceiveSynPacket, Arrives
<1>3. CASE ~ Accepts(OnSynReceived, server.state)
  <2>1. Consume("server", i, <<>>) /\ UNCHANGED conn
    BY <1>3 DEF ReceiveSynPacket
  <2>2. /\ Range(net'["server"]) \subseteq Range(net["server"])
        /\ \A type : NoMore(net["server"], net'["server"], type)
        /\ Range(net'["client"]) \subseteq Range(net["client"])
    BY <1>1, <1>2, <2>1, DropPackets
  <2> QED
    BY <1>2, <2>1, <2>2, OpeningKept
<1>4. CASE Accepts(OnSynReceived, server.state)
  <2>1. conn' = [conn EXCEPT !["server"] = after]
    BY <1>4 DEF ReceiveSynPacket
  <2>2. conn'["server"] = after /\ conn'["client"] = client
    BY <1>1, <2>1 DEF TypeOK, Endpoint
  <2>3. server.state = "CLOSED"
    BY <1>4 DEF Opening, Accepts, OnSynReceived
  <2>4. /\ after.state = "SYN_RECEIVED" /\ after.rcvBuf = {}
        /\ after.expected = SeqAfter(syn.seq) /\ after \in Connection
    BY <1>1, <1>2, <1>4, <2>3, ReceiveSynType
       DEF ReceiveSyn, OnSynReceived, Opening, Connection
  <2>5. PICK ok \in BOOLEAN : Consume("server", i, Taken(BuildSynAck(after), ok))
    BY <1>4, <2>2 DEF ReceiveSynPacket
  <2> DEFINE synAck == BuildSynAck(after)
             t == Taken(synAck, ok)
  <2>6. synAck \in Segment /\ synAck.type = "SYN_ACK"
    BY <2>4, BuildType DEF BuildSynAck
  <2> HIDE DEF after, synAck
  <2>7. t \in Seq(Segment) /\ Range(t) \subseteq {synAck}
    BY <2>6, TakenPackets
  <2>8. Consume("server", i, t)
    BY <2>5 DEF synAck
  <2> HIDE DEF t
  <2>9. /\ Range(net'["server"]) \subseteq Range(net["server"])
        /\ NoMore(net["server"], net'["server"], "ACK")
        /\ Range(net'["client"]) = Range(net["client"]) \union Range(t)
        /\ syn \in Range(net["server"])
    BY <1>1, <1>2, <2>7, <2>8, ConsumePackets DEF Peer
  <2>10. client.state = "SYN_SENT" /\ syn.seq = client.seq
    <3>1. client.state # "CLOSED" /\ ~ IsEstablished(client)
      BY <2>3, <2>9 DEF Opening
    <3>2. client.state = "SYN_SENT"
      BY <3>1 DEF Opening, IsEstablished
    <3> QED
      BY <1>2, <2>9, <3>2 DEF Opening
  <2>11. AtMostOne(net'["server"], "ACK")
    BY <2>9 DEF NoMore, Opening
  <2>12. \A p \in Range(net'["client"]) : p.type = "SYN_ACK"
    BY <2>6, <2>7, <2>9 DEF Opening
  <2>13. \A p \in Range(net'["server"]) : p.type = "SYN" /\ p.seq = client.seq
    BY <2>9, <2>10 DEF Opening, IsEstablished
  <2> QED
    BY <1>2, <2>2, <2>4, <2>10, <2>11, <2>12, <2>13 DEF Opening, IsEstablished
<1> QED
  BY <1>3, <1>4

LEMMA ReceiveSynAckPacketStreamInv ==
  ASSUME TypeInv, Opening, NEW i, ReceiveSynAckPacket(i)
  PROVE  Opening'
<1> DEFINE server == conn["server"]
           client == conn["client"]
           synAck == net["client"][i]
           after == ReceiveSynAck(client, synAck.seq, synAck.ack)
<1> USE DEF sessionVars, historyVars, timerVars
<1>1. TypeOK /\ client \in Connection /\ "server" \in Endpoint /\ "client" \in Endpoint
  BY DEF TypeInv, TypeOK, Endpoint
<1>2. /\ Arrives("client", i, "SYN_ACK") /\ synAck.type = "SYN_ACK"
      /\ i \in DOMAIN net["client"]
      /\ synAck.seq \in SeqNumber /\ synAck.ack \in SeqNumber
      /\ packetsSent' = packetsSent /\ arrived' = arrived /\ due' = due
  BY <1>1, ArrivesType DEF ReceiveSynAckPacket, Arrives
<1>3. CASE ~ AcceptsSynAck(client, synAck.ack)
  <2>1. Consume("client", i, <<>>) /\ UNCHANGED conn
    BY <1>3 DEF ReceiveSynAckPacket
  <2>2. \A d \in Endpoint : /\ Range(net'[d]) \subseteq Range(net[d])
                            /\ \A type : NoMore(net[d], net'[d], type)
    BY <1>1, <1>2, <2>1, DropPackets
  <2> QED
    BY <1>1, <1>2, <2>1, <2>2, OpeningKept
<1>4. CASE AcceptsSynAck(client, synAck.ack)
  <2>1. conn' = [conn EXCEPT !["client"] = after]
    BY <1>4 DEF ReceiveSynAckPacket
  <2>2. conn'["client"] = after /\ conn'["server"] = server
    BY <1>1, <2>1 DEF TypeOK, Endpoint
  <2>3. client.state = "SYN_SENT" /\ synAck.ack = SeqAfter(client.seq)
    BY <1>4 DEF AcceptsSynAck
  <2>4. /\ after.state = "ESTABLISHED" /\ after.seq = synAck.ack
        /\ after.una = synAck.ack /\ after \in Connection
    BY ZenonT(60), <1>1, <1>2, <1>4, <2>3, ReceiveSynAckType
       DEF ReceiveSynAck, OnEstablished, Connection
  <2>5. PICK ok \in BOOLEAN : Consume("client", i, Taken(BuildAck(after), ok))
    BY <1>4, <2>2 DEF ReceiveSynAckPacket
  <2> DEFINE ack == BuildAck(after)
             t == Taken(ack, ok)
  <2>6. ack \in Segment /\ ack.type = "ACK"
    BY <2>4, BuildType DEF BuildAck
  <2> HIDE DEF after, ack
  <2>7. t \in Seq(Segment) /\ Range(t) \subseteq {ack} /\ AtMostOne(t, "ACK")
    BY <2>6, TakenPackets
  <2>8. Consume("client", i, t)
    BY <2>5 DEF ack
  <2> HIDE DEF t
  <2>9. /\ Range(net'["client"]) \subseteq Range(net["client"])
        /\ Range(net'["server"]) = Range(net["server"]) \union Range(t)
        /\ synAck \in Range(net["client"])
        /\ Without(net["server"], "ACK") => NoMore(t, net'["server"], "ACK")
    BY <1>1, <1>2, <2>7, <2>8, ConsumePackets DEF Peer
  <2>10. server.state = "SYN_RECEIVED" /\ server.expected = synAck.ack
    BY <2>3, <2>9 DEF Opening
  <2>11. Without(net["server"], "ACK")
    BY <2>3 DEF Opening, Without, IsEstablished
  <2>12. AtMostOne(net'["server"], "ACK")
    BY <2>7, <2>9, <2>11 DEF NoMore
  <2>13. \A p \in Range(net'["server"]) : p.type \in {"SYN", "ACK"}
    BY <2>6, <2>7, <2>9 DEF Opening
  <2> QED
    BY <1>2, <2>2, <2>4, <2>9, <2>10, <2>12, <2>13 DEF Opening, IsEstablished
<1> QED
  BY <1>3, <1>4

\* The ACK that ends the handshake starts the traffic: at that moment the
\* server expects the first number of the stream, and nothing but SYNs and
\* SYN_ACKs sent again is on its way.
LEMMA OpeningAckStreamInv ==
  ASSUME TypeInv, TypeOK', Opening, ~ generated, NEW i, ReceiveAckPacket("server", i)
  PROVE  StreamInv'
<1> DEFINE server == conn["server"]
           client == conn["client"]
           ack == net["server"][i].ack
           observed == ReceiveAck(server, ack)
           after == IF ShouldFastRetransmit(observed)
                      THEN ResetLossDetection(observed) ELSE observed
<1> USE DEF sessionVars, historyVars, timerVars
<1>1. TypeOK /\ server \in Connection /\ "server" \in Endpoint /\ "client" \in Endpoint
  BY DEF TypeInv, TypeOK, Endpoint
<1>2. /\ Arrives("server", i, "ACK") /\ net["server"][i].type = "ACK"
      /\ i \in DOMAIN net["server"] /\ ack \in SeqNumber
      /\ packetsSent' = packetsSent /\ arrived' = arrived
      /\ Consume("server", i, <<>>)
  BY <1>1, ArrivesType DEF ReceiveAckPacket, Arrives
<1>3. conn'["server"] = after /\ conn'["client"] = client
  BY <1>1 DEF ReceiveAckPacket, TypeOK, Endpoint
<1>4. /\ net'["client"] = net["client"]
      /\ Range(net'["server"]) \subseteq Range(net["server"])
      /\ \A type : NoMore(net["server"], net'["server"], type)
      /\ \A type : AtMostOne(net["server"], type) /\ net["server"][i].type = type
                     => Without(net'["server"], type)
      /\ net["server"][i] \in Range(net["server"])
  BY <1>1, <1>2, DropPackets, ConsumePackets, EmptySeq DEF Peer
<1>5. /\ IsEstablished(client) /\ server.state = "SYN_RECEIVED"
      /\ server.expected = client.seq
  BY <1>2, <1>4 DEF Opening
<1>6. CASE ~ AckEstablishes(server, ack)
  <2>1. observed = server
    BY <1>5, <1>6 DEF ReceiveAck, AckOfFin, AckDuplicate, AckAdvances, IsEstablished
  <2>2. /\ conn'["server"].state = server.state
        /\ conn'["server"].expected = server.expected
        /\ conn'["server"].rcvBuf = server.rcvBuf
    BY SMTT(40), <1>1, <1>3, <2>1 DEF ResetLossDetection, Connection
  <2>3. ~ BothEstablished' /\ ~ generated'
    BY <1>1, <1>5, <2>2 DEF BothEstablished, IsEstablished, ReceiveAckPacket
  <2>4. ~ ShouldFastRetransmit(observed)
    BY <1>1, <2>1, LimitsAssumption DEF ShouldFastRetransmit, Connection
  <2>5. due' = due \o <<>> \o <<>> \o <<>>
    BY <2>3, <2>4 DEF ReceiveAckPacket
  <2>6. due' = due
    BY <1>1, <2>5, ConcatEmptySeq DEF TypeOK
  <2> HIDE DEF after
  <2>7. Opening'
    BY <1>2, <1>3, <1>4, <2>2, <2>6, OpeningKept
  <2> QED
    BY <2>3, <2>7 DEF StreamInv
<1>7. CASE AckEstablishes(server, ack)
  <2>1. observed = [server EXCEPT !.state = "ESTABLISHED", !.seq = ack, !.una = ack,
                                  !.synRetries = 0, !.dup = 0]
    BY <1>5, <1>7
       DEF ReceiveAck, OnEstablished, AckOfFin, AckDuplicate, AckAdvances, IsEstablished
  <2>2. /\ after.state = "ESTABLISHED" /\ after.expected = client.seq
        /\ after.rcvBuf = {}
    BY <1>1, <1>5, <2>1 DEF ResetLossDetection, Connection, Opening
  <2> HIDE DEF after
  <2>3. \A e \in Endpoint : IsEstablished(conn'[e])
    BY SMTT(40), <1>3, <1>5, <2>2 DEF IsEstablished, Endpoint
  <2>4. BothEstablished' /\ generated'
    BY <2>3 DEF BothEstablished, ReceiveAckPacket
  <2>5. HandshakeDone'
    <3>1. HandshakeDone
      BY <1>1, <1>5 DEF TypeInv, HandshakeOnce, HandshakeDone, IsEstablished
    <3>2. Next
      BY <1>1, <1>2 DEF Next, ReceiveAtServer
    <3> QED
      BY <3>1, <3>2, HandshakeStaysDone
  <2>6. packetsSent' = 0 /\ arrived' = {} /\ client.una = client.seq
    BY <1>2 DEF Opening
  <2>7. client.seq \in SeqNumber
    BY <1>1 DEF TypeOK, Connection
  <2>8. FirstNumber' = client.seq
    <3>1. (client.seq - 0) % SeqSize = client.seq
      <4>1. 0 \in SeqNumber /\ client.seq \in Nat
        BY <2>7, SeqArithmetic DEF SeqNumber
      <4>2. (client.seq - 0) % SeqSize = IF client.seq >= 0 THEN client.seq - 0
                                                           ELSE client.seq - 0 + SeqSize
        BY <2>7, <4>1, Distance
      <4> QED
        BY <4>1, <4>2
    <3> QED
      BY <1>3, <2>6, <3>1 DEF FirstNumber
  <2>9. Offset(client.seq, client.seq) = 0
    BY <2>7, OffsetType
  <2>10. Received(client.seq, 0, after, {})
    <3>1. Before(client.seq, client.seq) = {}
      <4>1. \A k \in SeqNumber : Offset(client.seq, k) \in Nat
        BY <2>7, OffsetType
      <4> QED
        BY <2>9, <4>1 DEF Before
    <3> QED
      BY <2>2, <2>9, <3>1 DEF Received
  <2>11. /\ \A p \in Range(net'["server"]) : p.type = "SYN"
         /\ \A p \in Range(net'["client"]) : p.type = "SYN_ACK"
    <3>1. Without(net'["server"], "ACK")
      BY <1>2, <1>4 DEF Opening
    <3> QED
      BY <1>4, <3>1 DEF Opening, Without
  <2>12. Position(client.seq)' = 0 /\ Position(client.una)' = 0
    BY <1>3, <2>6, <2>8, <2>9 DEF Position
  <2>13. Flow'
    <3>1. Closing'
      BY <1>3, <2>2, <2>11 DEF Closing, Without
    <3>2. conn'["client"].state = "ESTABLISHED" /\ conn'["server"].state = "ESTABLISHED"
      BY <1>3, <1>5, <2>2 DEF IsEstablished
    <3>3. Position(conn["client"].una)' <= Position(conn["server"].expected)'
      BY <1>3, <2>2, <2>6, <2>8, <2>9 DEF Position
    <3>4. Received(FirstNumber, packetsSent, conn["server"], arrived)'
      BY <1>3, <2>6, <2>8, <2>10
    <3> QED
      BY <2>5, <2>11, <3>1, <3>2, <3>3, <3>4 DEF Flow, IsEstablished, Without
  <2> QED
    BY <2>4, <2>13 DEF StreamInv
<1> QED
  BY <1>6, <1>7

-----------------------------------------------------------------------------
(* The stream. *)

\* Giving up closes the client and leaves its numbers.
LEMMA FailureKeepsNumbers ==
  ASSUME NEW c \in Connection, NEW f, f = FailRetransmission(c)
  PROVE  /\ f.seq = c.seq /\ f.una = c.una
         /\ f.state \in {c.state, "CLOSED"}
BY DEF FailRetransmission, OnRetransmissionFailure, Connection

\* Steps of the client that send nothing.
LEMMA FlowQuiet ==
  ASSUME TypeOK, TypeOK', Flow, HandshakeDone', net' = net, arrived' = arrived,
         packetsSent' = packetsSent, conn'["server"] = conn["server"],
         conn'["client"].seq = conn["client"].seq,
         conn'["client"].una = conn["client"].una,
         conn'["client"].state \in {conn["client"].state, "CLOSED"}
  PROVE  Flow'
<1>1. conn'["client"].state \in {"ESTABLISHED", "FIN_WAIT_1", "FIN_WAIT_2",
                                 "CLOSING", "TIME_WAIT", "CLOSED"}
  BY DEF Flow
<1>2. IsEstablished(conn'["client"]) => IsEstablished(conn["client"])
  BY DEF IsEstablished
<1>3. \A e : Range(net'[e]) \subseteq Range(net[e]) /\ \A type : NoMore(net[e], net'[e], type)
  BY SameNet
<1> QED
  BY <1>1, <1>2, <1>3, FlowKept

LEMMA FlowTimerStreamInv ==
  ASSUME TypeOK, TypeOK', Flow, HandshakeDone',
         \/ HandshakeTimeoutIgnored \/ HandshakeTimeout \/ TimeWaitTimeout
         \/ \E s \in SeqNumber : Timeout(s)
         \/ UNCHANGED vars
  PROVE  Flow'
<1> DEFINE client == conn["client"]
<1> USE DEF sessionVars, historyVars, timerVars
<1>1. client \in Connection /\ conn \in [Endpoint -> Connection]
      /\ "server" \in Endpoint /\ "client" \in Endpoint
  BY DEF TypeOK, Endpoint
<1>2. CASE HandshakeTimeoutIgnored \/ UNCHANGED vars
  BY <1>2, FlowQuiet DEF HandshakeTimeoutIgnored, vars
<1>3. CASE HandshakeTimeout
  BY <1>3 DEF HandshakeTimeout, AwaitsSynAck, Flow
<1>4. CASE TimeWaitTimeout
  <2>1. CASE Accepts(OnTimeWaitDone, client.state)
    <3>1. conn' = [conn EXCEPT !["client"] = ExpireTimeWait(client)]
      BY <1>4, <2>1 DEF TimeWaitTimeout
    <3>2. conn'["client"] = ExpireTimeWait(client) /\ conn'["server"] = conn["server"]
      BY <1>1, <3>1 DEF Endpoint
    <3>3. /\ conn'["client"].seq = client.seq /\ conn'["client"].una = client.una
          /\ conn'["client"].state = "CLOSED"
      BY <1>1, <2>1, <3>2 DEF ExpireTimeWait, Accepts, OnTimeWaitDone, Connection
    <3>4. net' = net /\ arrived' = arrived /\ packetsSent' = packetsSent
      BY <1>4 DEF TimeWaitTimeout
    <3> QED
      BY <3>2, <3>3, <3>4, FlowQuiet
  <2>2. CASE ~ Accepts(OnTimeWaitDone, client.state)
    BY <1>4, <2>2, FlowQuiet DEF TimeWaitTimeout
  <2> QED
    BY <2>1, <2>2
<1>5. ASSUME NEW s \in SeqNumber, Timeout(s)
      PROVE  Flow'
  <2>1. net' = net /\ arrived' = arrived /\ packetsSent' = packetsSent
    BY <1>5 DEF Timeout
  <2>2. CASE conn' = conn
    BY <2>1, <2>2, FlowQuiet
  <2>3. CASE conn' = [conn EXCEPT !["client"] = FailRetransmission(client)]
    <3>1. conn'["client"] = FailRetransmission(client) /\ conn'["server"] = conn["server"]
      BY <1>1, <2>3 DEF Endpoint
    <3> QED
      BY <1>1, <2>1, <3>1, FailureKeepsNumbers, FlowQuiet
  <2> QED
    BY <1>5, <2>2, <2>3 DEF Timeout
<1> QED
  BY <1>2, <1>3, <1>4, <1>5

LEMMA LoseStreamInv ==
  ASSUME TypeOK, TypeOK', Flow, HandshakeDone', Lose
  PROVE  Flow'
<1>1. PICK e \in Endpoint : \E i \in DOMAIN net[e] : LoseInTransit(e, i)
  BY DEF Lose
<1>2. PICK i \in DOMAIN net[e] : LoseInTransit(e, i)
  BY <1>1
<1>3. \A d \in Endpoint : /\ Range(net'[d]) \subseteq Range(net[d])
                          /\ \A type : NoMore(net[d], net'[d], type)
  BY <1>2, LosePackets DEF LoseInTransit
<1>4. UNCHANGED <<conn, packetsSent, arrived>>
  BY <1>2 DEF LoseInTransit, sessionVars, historyVars
<1>5. "client" \in Endpoint /\ "server" \in Endpoint
  BY DEF Endpoint
<1> QED
  BY <1>3, <1>4, <1>5, FlowKept DEF Flow

\* The acknowledgement that was put off, sent or not.
LEMMA DelayedAckStreamInv ==
  ASSUME TypeOK, TypeOK', Flow, HandshakeDone', NEW a \in SeqNumber,
         DelayedAckIgnored(a) \/ DelayedAckObsolete(a) \/ DelayedAckSent(a)
  PROVE  Flow'
<1> DEFINE server == conn["server"]
           client == conn["client"]
           ack == BuildAck(server)
<1> USE DEF sessionVars, historyVars
<1>1. /\ server \in Connection /\ "server" \in Endpoint /\ "client" \in Endpoint
      /\ packetsSent' = packetsSent /\ arrived' = arrived
  BY DEF TypeOK, Endpoint, DelayedAckIgnored, DelayedAckObsolete, DelayedAckSent
<1>2. /\ conn'["client"] = client
      /\ conn'["server"].state = server.state
      /\ conn'["server"].expected = server.expected
      /\ conn'["server"].rcvBuf = server.rcvBuf
  <2>1. CASE conn' = conn
    BY <2>1
  <2>2. CASE conn' = [conn EXCEPT !["server"].delayedAck = FALSE]
    BY <1>1, <2>2 DEF TypeOK, Endpoint, Connection
  <2> QED
    BY <2>1, <2>2 DEF DelayedAckIgnored, DelayedAckObsolete, DelayedAckSent
<1>3. ack \in Segment /\ ack.type = "ACK" /\ ack.ack = server.expected
  BY <1>1, BuildType DEF BuildAck
<1> HIDE DEF ack
<1>4. /\ Range(net'["server"]) \subseteq Range(net["server"])
      /\ \A type : NoMore(net["server"], net'["server"], type)
      /\ Range(net'["client"]) \subseteq Range(net["client"]) \union {ack}
      /\ NoMore(net["client"], net'["client"], "FIN")
  <2>1. CASE net' = net
    BY <2>1, SameNet
  <2>2. CASE net' # net
    <3>1. PICK ok \in BOOLEAN : Transmit("client", ack, ok)
      BY <2>2 DEF DelayedAckIgnored, DelayedAckObsolete, DelayedAckSent, ack
    <3>2. net'[Peer("client")] = net[Peer("client")] /\ Peer("client") = "server"
      BY <1>1, <1>3, <3>1, TransmitPackets DEF Peer
    <3>3. /\ Range(net'["client"]) \subseteq Range(net["client"]) \union {ack}
          /\ \A type : ack.type # type => NoMore(net["client"], net'["client"], type)
      BY ZenonT(60), <1>1, <1>3, <3>1, TransmitPackets
    <3> QED
      BY <1>3, <3>2, <3>3, SameNet
  <2> QED
    BY <2>1, <2>2
<1>5. \A p \in Range(net'["client"]) :
        \/ p \in Range(net["client"])
        \/ p.type = "ACK" /\ p.ack = server.expected
  BY <1>3, <1>4
<1> QED
  BY <1>1, <1>2, <1>4, <1>5, FlowKept DEF Flow

\* Transmit leaves the packets of the other endpoint where they are, and adds
\* at most the segment.
LEMMA SentToServer ==
  ASSUME TypeOK, NEW segment \in Segment, NEW ok \in BOOLEAN,
         segment.type # "ACK", Transmit("server", segment, ok)
  PROVE  /\ net'["client"] = net["client"]
         /\ \A type : NoMore(net["client"], net'["client"], type)
         /\ Range(net'["server"]) \subseteq Range(net["server"]) \union {segment}
         /\ NoMore(net["server"], net'["server"], "ACK")
<1>1. "server" \in Endpoint /\ Peer("server") = "client"
  BY DEF Endpoint, Peer
<1>2. /\ net'[Peer("server")] = net[Peer("server")]
      /\ Range(net'["server"]) \subseteq Range(net["server"]) \union {segment}
      /\ \A type : segment.type # type => NoMore(net["server"], net'["server"], type)
  BY <1>1, TransmitPackets
<1> QED
  BY <1>1, <1>2, SameNet

\* What is in the send buffer of an established client is of the stream.
LEMMA OutstandingPosition ==
  ASSUME SessionInv, Flow, IsEstablished(conn["client"]), NEW s,
         HasOutstandingSegment(conn["client"], s)
  PROVE  s \in SeqNumber /\ Position(s) < packetsSent
<1> DEFINE client == conn["client"]
<1>1. TypeOK /\ client \in Connection
  BY DEF SessionInv, TimerInv, TypeInv, TypeOK, Endpoint
<1>2. /\ client.una \in SeqNumber /\ client.seq \in SeqNumber
      /\ client.sendBuf \in Seq(SendEntry) /\ conn["server"].expected \in SeqNumber
  BY <1>1 DEF TypeOK, Endpoint, Connection
<1>3. /\ packetsSent \in Nat /\ packetsSent < SeqSize /\ FirstNumber \in SeqNumber
      /\ \A n \in SeqNumber : Position(n) \in Nat
      /\ Position(client.seq) = packetsSent
  BY <1>1, PositionType
<1>4. Position(client.una) <= packetsSent
  <2>1. /\ Position(client.una) <= Position(conn["server"].expected)
        /\ Position(conn["server"].expected) <= packetsSent
    BY DEF Flow, Received, Position
  <2> QED
    BY <1>2, <1>3, <2>1
<1>5. InFlight(client) = packetsSent - Position(client.una)
  BY <1>2, <1>3, <1>4, OffsetBetween DEF InFlight, Position
<1>6. /\ Len(client.sendBuf) = InFlight(client)
      /\ \A i \in DOMAIN client.sendBuf :
           client.sendBuf[i].seq = (client.una + i - 1) % SeqSize
  BY DEF SessionInv, SenderInv, SendBufferExact
<1>7. PICK i \in DOMAIN client.sendBuf : client.sendBuf[i].seq = s
  BY DEF HasOutstandingSegment
<1>8. i \in 1 .. Len(client.sendBuf) /\ s = (client.una + i - 1) % SeqSize
  BY <1>2, <1>6, <1>7, LenProperties
<1> DEFINE k == i - 1
<1>9. /\ k \in Nat /\ Position(client.una) + k < packetsSent
      /\ client.una + i - 1 = client.una + k
  <2>1. client.una \in Nat /\ Position(client.una) \in Nat
    BY SMTT(40), <1>2, <1>3, SeqSizeAssumption DEF SeqNumber
  <2> QED
    BY <1>3, <1>5, <1>6, <1>8, <2>1
<1> HIDE DEF k, client
<1>10. s = (client.una + k) % SeqSize
  BY <1>8, <1>9
<1>11. Position(client.una) + k < SeqSize
  BY <1>2, <1>3, <1>9, SeqSizeAssumption
<1>12. s \in SeqNumber /\ Position(s) = Position(client.una) + k
  BY <1>2, <1>3, <1>9, <1>10, <1>11, OffsetStep DEF Position
<1> QED
  BY <1>9, <1>12

LEMMA PacketGenerationStreamInv ==
  ASSUME TypeOK, TypeOK', Flow, HandshakeDone', PacketGeneration
  PROVE  Flow'
<1> DEFINE server == conn["server"]
           client == conn["client"]
           data == BuildData(client, client.seq)
<1>1. /\ client \in Connection /\ client.seq \in SeqNumber
      /\ "server" \in Endpoint /\ "client" \in Endpoint
  BY DEF TypeOK, Endpoint, Connection
<1>2. /\ Transmit("server", data, TRUE) /\ packetsSent' = packetsSent + 1
      /\ conn' = [conn EXCEPT !["client"] = QueueSentSegment(client)]
      /\ arrived' = arrived /\ IsEstablished(client)
  BY DEF PacketGeneration, BothEstablished, historyVars, Endpoint
<1>3. conn'["client"] = QueueSentSegment(client) /\ conn'["server"] = server
  BY <1>1, <1>2 DEF TypeOK, Endpoint
<1>4. /\ conn'["client"].seq = SeqAfter(client.seq) /\ conn'["client"].una = client.una
      /\ conn'["client"].state = client.state
  BY <1>1, <1>3 DEF QueueSentSegment, Connection
<1>5. data \in Segment /\ data.type = "DATA" /\ data.seq = client.seq
  BY <1>1, BuildType DEF BuildData
<1> HIDE DEF data
<1>6. /\ net'["client"] = net["client"]
      /\ \A type : NoMore(net["client"], net'["client"], type)
      /\ Range(net'["server"]) \subseteq Range(net["server"]) \union {data}
      /\ NoMore(net["server"], net'["server"], "ACK")
  BY <1>2, <1>5, SentToServer
<1>7. /\ packetsSent \in Nat /\ packetsSent \in SeqNumber /\ FirstNumber \in SeqNumber
      /\ packetsSent + 1 < SeqSize /\ Position(client.seq) = packetsSent
      /\ \A n \in SeqNumber : Position(n) \in Nat
  <2>1. packetsSent' <= PacketsPerRoute /\ packetsSent' \in Nat
    BY SessionAssumption DEF TypeOK
  <2>2. /\ packetsSent \in Nat /\ packetsSent \in SeqNumber /\ FirstNumber \in SeqNumber
        /\ Position(client.seq) = packetsSent /\ PacketsPerRoute < SeqSize
        /\ \A n \in SeqNumber : Position(n) \in Nat
    BY PositionType
  <2>3. packetsSent + 1 < SeqSize
    BY <1>2, <2>1, <2>2, SessionAssumption, SeqSizeAssumption
  <2> QED
    BY <2>2, <2>3
<1>8. FirstNumber' = FirstNumber
  BY ZenonT(60), <1>1, <1>2, <1>4, <1>7, FirstOfStream DEF FirstNumber
<1>9. Closing'
  BY <1>3, <1>6, ClosingKept DEF Flow
<1>10. server.expected \in SeqNumber /\ server.rcvBuf \subseteq SeqNumber
  BY <1>1 DEF TypeOK, Connection
<1>11. /\ Position(server.expected) \in Nat
       /\ \A x \in server.rcvBuf : Offset(FirstNumber, x) \in Nat
  BY <1>7, <1>10 DEF Position
<1>12. Received(FirstNumber, packetsSent, server, arrived)
         => Received(FirstNumber, packetsSent + 1, server, arrived)
  BY <1>7, <1>11 DEF Received, Position
<1>13. \A p \in Range(net'["server"]) :
         p \in Range(net["server"]) \/ (p.type = "DATA" /\ Position(p.seq) < packetsSent')
  BY <1>2, <1>5, <1>6, <1>7
<1>14. /\ IsEstablished(conn'["client"]) => IsEstablished(conn'["server"])
       /\ IsEstablished(conn'["server"]) =>
            /\ Position(conn'["client"].una) <= Position(conn'["server"].expected)
            /\ Received(FirstNumber, packetsSent', conn'["server"], arrived')
  BY <1>2, <1>3, <1>4, <1>12 DEF Flow, IsEstablished
<1>15. /\ packetsSent' >= packetsSent
       /\ Position(server.expected) <= Position(server.expected)
  BY <1>2, <1>7, <1>11
<1>16. conn'["client"].state = "ESTABLISHED" /\ conn'["server"].state = server.state
  BY <1>2, <1>3, <1>4 DEF IsEstablished
<1>17. server.state \in {"ESTABLISHED", "LAST_ACK", "CLOSED", "SYN_RECEIVED"}
  BY DEF Flow
<1> QED
  BY <1>2, <1>3, <1>6, <1>8, <1>9, <1>13, <1>14, <1>15, <1>16, <1>17, FlowAfter

\* TCPRetransmissionEvent and TCPFastRetransmitEvent: a segment of the send
\* buffer is sent again, or the client gives up, or nothing is done.
LEMMA ResendStreamInv ==
  ASSUME SessionInv, TypeOK', Flow, HandshakeDone', Retransmission \/ FastRetransmit
  PROVE  Flow'
<1> DEFINE server == conn["server"]
           client == conn["client"]
<1> USE DEF sessionVars, historyVars
<1>1. /\ TypeOK /\ client \in Connection
      /\ "server" \in Endpoint /\ "client" \in Endpoint
  BY DEF SessionInv, TimerInv, TypeInv, TypeOK, Endpoint
<1>2. packetsSent' = packetsSent /\ arrived' = arrived
  BY DEF Retransmission, FastRetransmit
<1>3. CASE conn' = conn /\ net' = net
  BY <1>1, <1>2, <1>3, FlowQuiet
<1>4. CASE GiveUp
  <2>1. conn'["client"] = FailRetransmission(client) /\ conn'["server"] = server
    BY <1>1, <1>4 DEF GiveUp, TypeOK, Endpoint
  <2>2. net' = net
    BY <1>4 DEF GiveUp
  <2> QED
    BY <1>1, <1>2, <2>1, <2>2, FailureKeepsNumbers, FlowQuiet
<1>5. ASSUME NEW s, IsEstablished(client), HasOutstandingSegment(client, s), Resend(s)
      PROVE  Flow'
  <2>1. s \in SeqNumber /\ Position(s) < packetsSent
    BY <1>5, OutstandingPosition
  <2> DEFINE data == BuildData(client, s)
  <2>2. PICK ok \in BOOLEAN :
          /\ conn' = [conn EXCEPT !["client"] = MarkSegmentRetransmitted(client, s)]
          /\ Transmit("server", data, ok)
    BY <1>5 DEF Resend
  <2>3. /\ conn'["client"] = MarkSegmentRetransmitted(client, s)
        /\ conn'["server"] = server
    BY <1>1, <2>2 DEF TypeOK, Endpoint
  <2>4. /\ conn'["client"].seq = client.seq /\ conn'["client"].una = client.una
        /\ conn'["client"].state = client.state
    BY <1>1, <2>3 DEF MarkSegmentRetransmitted, Connection
  <2>5. data \in Segment /\ data.type = "DATA" /\ data.seq = s
    BY <1>1, <2>1, BuildType DEF BuildData
  <2> HIDE DEF data
  <2>6. /\ net'["client"] = net["client"]
        /\ \A type : NoMore(net["client"], net'["client"], type)
        /\ Range(net'["server"]) \subseteq Range(net["server"]) \union {data}
        /\ NoMore(net["server"], net'["server"], "ACK")
    BY <1>1, <2>2, <2>5, SentToServer
  <2>7. \A p \in Range(net'["server"]) :
           p \in Range(net["server"]) \/ (p.type = "DATA" /\ Position(p.seq) < packetsSent)
    BY <2>1, <2>5, <2>6
  <2>8. conn'["client"].state = "ESTABLISHED"
    BY <1>5, <2>4 DEF IsEstablished
  <2> QED
    BY <1>1, <1>2, <1>5, <2>3, <2>4, <2>6, <2>7, <2>8, FlowKept
<1>6. CASE Retransmission
  BY <1>3, <1>4, <1>5, <1>6 DEF Retransmission, Resendable
<1>7. CASE FastRetransmit
  <2>1. HasOutstanding(client) => HasOutstandingSegment(client, OldestOutstanding(client))
    BY <1>1, OldestOutstandingType DEF HasOutstandingSegment
  <2> QED
    BY <1>3, <1>4, <1>5, <1>7, <2>1 DEF FastRetransmit
<1> QED
  BY <1>6, <1>7

LEMMA ClosingEventStreamInv ==
  ASSUME TypeOK, TypeOK', Flow, HandshakeDone', GenerationEnds \/ ConnectionClose
  PROVE  Flow'
<1> DEFINE server == conn["server"]
           client == conn["client"]
           fin == BuildFin(client)
<1> USE DEF sessionVars, historyVars
<1>1. /\ client \in Connection /\ "server" \in Endpoint /\ "client" \in Endpoint
      /\ packetsSent' = packetsSent /\ arrived' = arrived
  BY DEF TypeOK, Endpoint, GenerationEnds, ConnectionClose
<1>2. CASE conn' = conn /\ net' = net
  BY <1>1, <1>2, FlowQuiet
<1>3. CASE GenerationEnds
  <2>1. conn' = conn
    BY <1>3 DEF GenerationEnds
  <2>2. CASE net' # net
    <3>1. Transmit("server", BuildData(client, client.seq), FALSE)
      BY <1>3, <2>2 DEF GenerationEnds
    <3>2. net["server"] \in Seq(Segment) /\ net["server"] \o <<>> = net["server"]
      BY <1>1, ConcatEmptySeq DEF TypeOK
    <3>3. net' = net
      BY <3>1, <3>2 DEF Transmit, Taken, TypeOK
    <3> QED
      BY <2>2, <3>3
  <2> QED
    BY <1>2, <2>1, <2>2
<1>4. CASE ConnectionClose /\ IsEstablished(client)
  <2>1. PICK ok \in BOOLEAN :
          /\ conn' = [conn EXCEPT !["client"] = SendFin(client)]
          /\ Transmit("server", fin, ok)
    BY <1>4 DEF ConnectionClose
  <2>2. conn'["client"] = SendFin(client) /\ conn'["server"] = server
    BY <1>1, <2>1 DEF TypeOK, Endpoint
  <2>3. /\ conn'["client"].seq = client.seq /\ conn'["client"].una = client.una
        /\ conn'["client"].state = "FIN_WAIT_1"
    BY <1>1, <1>4, <2>2 DEF SendFin, OnFinSent, IsEstablished, Connection
  <2>4. fin \in Segment /\ fin.type = "FIN"
    BY <1>1, BuildType DEF BuildFin
  <2> HIDE DEF fin
  <2>5. /\ net'["client"] = net["client"]
        /\ \A type : NoMore(net["client"], net'["client"], type)
        /\ Range(net'["server"]) \subseteq Range(net["server"]) \union {fin}
        /\ NoMore(net["server"], net'["server"], "ACK")
    BY <2>1, <2>4, SentToServer
  <2>6. \A p \in Range(net'["server"]) :
          \/ p \in Range(net["server"])
          \/ p.type = "FIN" /\ ~ IsEstablished(conn'["client"])
    BY <2>3, <2>4, <2>5 DEF IsEstablished
  <2> QED
    BY <1>1, <2>2, <2>3, <2>5, <2>6, FlowKept DEF IsEstablished
<1> QED
  BY <1>2, <1>3, <1>4 DEF ConnectionClose

\* A packet that changes nothing at its endpoint.
LEMMA FlowIgnored ==
  ASSUME TypeOK, TypeOK', Flow, HandshakeDone',
         NEW e \in Endpoint, NEW i \in DOMAIN net[e], Consume(e, i, <<>>),
         conn'["server"].state = conn["server"].state,
         conn'["server"].expected = conn["server"].expected,
         conn'["server"].rcvBuf = conn["server"].rcvBuf,
         conn'["client"].seq = conn["client"].seq,
         conn'["client"].una = conn["client"].una,
         packetsSent' = packetsSent, arrived' = arrived,
         conn'["client"].state \in {"ESTABLISHED", "FIN_WAIT_1", "FIN_WAIT_2",
                                    "CLOSING", "TIME_WAIT", "CLOSED"},
         IsEstablished(conn'["client"]) => IsEstablished(conn["client"])
  PROVE  Flow'
<1>1. \A d \in Endpoint : /\ Range(net'[d]) \subseteq Range(net[d])
                          /\ \A type : NoMore(net[d], net'[d], type)
  BY DropPackets
<1>2. "client" \in Endpoint /\ "server" \in Endpoint
  BY DEF Endpoint
<1> QED
  BY <1>1, <1>2, FlowKept

\* A SYN sent again opens a server that is CLOSED; a SYN_ACK comes too late.
LEMMA LateSynStreamInv ==
  ASSUME TypeOK, TypeOK', Flow, HandshakeDone', NEW i,
         ReceiveSynPacket(i) \/ ReceiveSynAckPacket(i)
  PROVE  Flow'
<1> DEFINE server == conn["server"]
           client == conn["client"]
           after == ReceiveSyn(server, net["server"][i].seq)
           synAck == BuildSynAck(after)
<1> USE DEF sessionVars, historyVars, timerVars
<1>1. /\ server \in Connection /\ "server" \in Endpoint /\ "client" \in Endpoint
      /\ packetsSent' = packetsSent /\ arrived' = arrived
  BY DEF TypeOK, Endpoint, ReceiveSynPacket, ReceiveSynAckPacket
<1>2. ASSUME NEW e \in Endpoint, i \in DOMAIN net[e], Consume(e, i, <<>>), conn' = conn
      PROVE  Flow'
  BY <1>1, <1>2, FlowIgnored DEF Flow
<1>3. CASE ReceiveSynAckPacket(i)
  <2>1. ~ AcceptsSynAck(client, net["client"][i].ack)
    BY DEF AcceptsSynAck, Flow
  <2>2. Consume("client", i, <<>>) /\ conn' = conn /\ i \in DOMAIN net["client"]
    BY <1>3, <2>1 DEF ReceiveSynAckPacket, Arrives
  <2> QED
    BY <1>1, <1>2, <2>2
<1>4. CASE ReceiveSynPacket(i) /\ ~ Accepts(OnSynReceived, server.state)
  <2>1. Consume("server", i, <<>>) /\ conn' = conn /\ i \in DOMAIN net["server"]
    BY <1>4 DEF ReceiveSynPacket, Arrives
  <2> QED
    BY <1>1, <1>2, <2>1
<1>5. CASE ReceiveSynPacket(i) /\ Accepts(OnSynReceived, server.state)
  <2>1. conn' = [conn EXCEPT !["server"] = after]
    BY <1>5 DEF ReceiveSynPacket
  <2>2. conn'["server"] = after /\ conn'["client"] = client
    BY <1>1, <2>1 DEF TypeOK, Endpoint
  <2>3. i \in DOMAIN net["server"] /\ net["server"][i].seq \in SeqNumber
    BY <1>1, <1>5, ArrivesType DEF ReceiveSynPacket
  <2>4. server.state = "CLOSED"
    BY <1>5 DEF Flow, Accepts, OnSynReceived
  <2>5. after.state = "SYN_RECEIVED"
    BY <1>1, <2>4 DEF ReceiveSyn, OnSynReceived, Connection
  <2>6. PICK ok \in BOOLEAN : Consume("server", i, Taken(synAck, ok))
    BY <1>5, <2>2 DEF ReceiveSynPacket
  <2>7. synAck \in Segment /\ synAck.type = "SYN_ACK"
    BY <1>1, <2>2, BuildType DEF BuildSynAck, TypeOK
  <2> HIDE DEF after, synAck
  <2> DEFINE t == Taken(synAck, ok)
  <2>8. /\ t \in Seq(Segment) /\ Range(t) \subseteq {synAck}
        /\ Without(t, "FIN")
    BY <2>7, TakenPackets
  <2>9. Consume("server", i, t)
    BY <2>6
  <2> HIDE DEF t
  <2>10. /\ Range(net'["server"]) \subseteq Range(net["server"])
         /\ NoMore(net["server"], net'["server"], "ACK")
         /\ Range(net'["client"]) = Range(net["client"]) \union Range(t)
         /\ NoMore(net["client"], net'["client"], "FIN")
    BY <1>1, <2>3, <2>8, <2>9, ConsumePackets DEF Peer
  <2>11. FirstNumber' = FirstNumber
    BY <1>1, <2>2 DEF FirstNumber
  <2>12. Closing'
    BY <2>2, <2>4, <2>5, <2>10, ClosingKept DEF Flow
  <2>13. ~ IsEstablished(client)
    BY <2>4 DEF Flow, IsEstablished
  <2>14. \A p \in Range(net'["client"]) : p \in Range(net["client"]) \/ p.type # "ACK"
    BY <2>7, <2>8, <2>10
  <2>15. packetsSent' >= packetsSent
    BY <1>1, PositionType
  <2>16. client.state \in {"ESTABLISHED", "FIN_WAIT_1", "FIN_WAIT_2",
                           "CLOSING", "TIME_WAIT", "CLOSED"}
    BY DEF Flow
  <2>17. /\ conn'["server"].state = "SYN_RECEIVED"
         /\ ~ IsEstablished(conn'["server"]) /\ ~ IsEstablished(conn'["client"])
         /\ conn'["client"].state = client.state
    BY <2>2, <2>5, <2>13 DEF IsEstablished
  <2> HIDE DEF client, server
  <2> QED
    BY <2>10, <2>11, <2>12, <2>14, <2>15, <2>16, <2>17, FlowAfter DEF client
<1> QED
  BY <1>3, <1>4, <1>5

\* An ACK at the server: it can only be the answer to its FIN.
LEMMA ServerAckStreamInv ==
  ASSUME TypeOK, TypeOK', Flow, HandshakeDone', NEW i, ReceiveAckPacket("server", i)
  PROVE  Flow'
<1> DEFINE server == conn["server"]
           client == conn["client"]
           ack == net["server"][i].ack
           observed == ReceiveAck(server, ack)
           after == IF ShouldFastRetransmit(observed)
                      THEN ResetLossDetection(observed) ELSE observed
<1> USE DEF sessionVars, historyVars, timerVars
<1>1. server \in Connection /\ "server" \in Endpoint /\ "client" \in Endpoint
  BY DEF TypeOK, Endpoint
<1>2. /\ Arrives("server", i, "ACK") /\ net["server"][i].type = "ACK"
      /\ i \in DOMAIN net["server"] /\ ack \in SeqNumber
      /\ packetsSent' = packetsSent /\ arrived' = arrived
      /\ Consume("server", i, <<>>)
  BY <1>1, ArrivesType DEF ReceiveAckPacket, Arrives
<1>3. conn'["server"] = after /\ conn'["client"] = client
  BY <1>1 DEF ReceiveAckPacket, TypeOK, Endpoint
<1>4. /\ net'["client"] = net["client"]
      /\ Range(net'["server"]) \subseteq Range(net["server"])
      /\ \A type : AtMostOne(net["server"], type) /\ net["server"][i].type = type
                     => Without(net'["server"], type)
      /\ net["server"][i] \in Range(net["server"])
  BY <1>1, <1>2, DropPackets, ConsumePackets, EmptySeq DEF Peer
<1>5. server.state = "LAST_ACK" /\ ~ Without(net["server"], "ACK")
  BY <1>2, <1>4 DEF Flow, Closing, Without
<1>6. /\ AtMostOne(net["server"], "ACK") /\ Without(net["client"], "FIN")
  BY <1>5 DEF Flow, Closing
<1>7. Without(net'["server"], "ACK") /\ Without(net'["client"], "FIN")
  BY <1>2, <1>4, <1>6
<1>8. AtMostOne(net'["server"], "ACK") /\ AtMostOne(net'["client"], "FIN")
  BY <1>7 DEF Without, AtMostOne, Range
<1>9. observed = server \/ observed = [server EXCEPT !.state = "CLOSED"]
  BY <1>5 DEF ReceiveAck, AckEstablishes, AckOfFin, AckDuplicate, AckAdvances,
              IsEstablished, OnFinAcked
<1>10. after.state \in {"LAST_ACK", "CLOSED"}
  BY <1>1, <1>5, <1>9 DEF ResetLossDetection, Connection
<1> HIDE DEF after
<1>11. ~ IsEstablished(client)
  BY <1>5 DEF Flow, IsEstablished
<1>12. Closing'
  BY <1>7, <1>8 DEF Closing
<1>13. FirstNumber' = FirstNumber /\ packetsSent' >= packetsSent
  BY <1>2, <1>3, PositionType DEF FirstNumber
<1>14. /\ ~ IsEstablished(conn'["server"]) /\ ~ IsEstablished(conn'["client"])
       /\ conn'["server"].state \in {"LAST_ACK", "CLOSED"}
       /\ conn'["client"].state = client.state
  BY <1>3, <1>10, <1>11 DEF IsEstablished
<1>15. client.state \in {"ESTABLISHED", "FIN_WAIT_1", "FIN_WAIT_2",
                         "CLOSING", "TIME_WAIT", "CLOSED"}
  BY DEF Flow
<1> HIDE DEF client, server
<1> QED
  BY <1>4, <1>12, <1>13, <1>14, <1>15, FlowAfter DEF client

\* What an acknowledgement does to the numbers of the client.
LEMMA ClientAckNumbers ==
  ASSUME NEW c \in Connection, NEW ack \in SeqNumber, c.state # "SYN_RECEIVED"
  PROVE  LET r == ReceiveAck(c, ack)
             after == IF ShouldFastRetransmit(r) THEN ResetLossDetection(r) ELSE r
         IN  /\ after.seq = c.seq /\ after.rcvBuf = c.rcvBuf
             /\ after.una = IF AckAdvances(c, ack) THEN ack ELSE c.una
             /\ \/ after.state = c.state
                \/ c.state = "FIN_WAIT_1" /\ after.state = "FIN_WAIT_2"
                \/ c.state = "LAST_ACK" /\ after.state = "CLOSED"
<1> DEFINE r == ReceiveAck(c, ack)
           after == IF ShouldFastRetransmit(r) THEN ResetLossDetection(r) ELSE r
<1>1. ~ AckEstablishes(c, ack)
  BY DEF AckEstablishes
<1>2. CASE AckAdvances(c, ack)
  <2>1. r = [c EXCEPT !.una = ack, !.dup = 0,
                      !.sendBuf = Unacknowledged(c.sendBuf, ack)]
    BY <1>1, <1>2, SeqArithmetic
       DEF ReceiveAck, AckOfFin, AckDuplicate, AckAdvances, IsEstablished,
           Connection, SeqNumber
  <2> DEFINE buf == Unacknowledged(c.sendBuf, ack)
  <2> HIDE DEF buf
  <2>2. after.seq = c.seq /\ after.una = ack /\ after.state = c.state
        /\ after.rcvBuf = c.rcvBuf
    BY <2>1 DEF ResetLossDetection, Connection, buf
  <2> QED
    BY <1>2, <2>2
<1>3. CASE AckOfFin(c, ack) /\ ~ AckAdvances(c, ack)
  <2>1. r = [c EXCEPT !.state = OnFinAcked[c.state]]
    BY <1>1, <1>3 DEF ReceiveAck, AckOfFin, AckDuplicate, IsEstablished
  <2>2. r.seq = c.seq /\ r.una = c.una /\ r.rcvBuf = c.rcvBuf
        /\ \/ c.state = "FIN_WAIT_1" /\ r.state = "FIN_WAIT_2"
           \/ c.state = "LAST_ACK" /\ r.state = "CLOSED"
    BY <1>3, <2>1 DEF AckOfFin, OnFinAcked, Connection
  <2>3. r.dup = c.dup /\ c.dup < DupAckThreshold
    BY <2>1, LimitsAssumption DEF Connection
  <2>4. after = r
    BY <2>3, LimitsAssumption DEF ShouldFastRetransmit, Connection
  <2> HIDE DEF r, after
  <2> QED
    BY <1>3, <2>2, <2>4 DEF r, after
<1>4. CASE ~ AckOfFin(c, ack) /\ ~ AckAdvances(c, ack)
  <2>1. r = c \/ r = [c EXCEPT !.dup = c.dup + 1]
    BY <1>1, <1>4 DEF ReceiveAck
  <2>2. after.seq = c.seq /\ after.una = c.una /\ after.state = c.state
        /\ after.rcvBuf = c.rcvBuf
    BY <2>1 DEF ResetLossDetection, Connection
  <2> QED
    BY <1>4, <2>2
<1> QED
  BY <1>2, <1>3, <1>4

LEMMA ClientAckStreamInv ==
  ASSUME TypeOK, TypeOK', Flow, HandshakeDone', NEW i, ReceiveAckPacket("client", i)
  PROVE  Flow'
<1> DEFINE server == conn["server"]
           client == conn["client"]
           ack == net["client"][i].ack
           observed == ReceiveAck(client, ack)
           after == IF ShouldFastRetransmit(observed)
                      THEN ResetLossDetection(observed) ELSE observed
<1> USE DEF sessionVars, historyVars, timerVars
<1>1. client \in Connection /\ "server" \in Endpoint /\ "client" \in Endpoint
  BY DEF TypeOK, Endpoint
<1>2. /\ Arrives("client", i, "ACK") /\ net["client"][i].type = "ACK"
      /\ i \in DOMAIN net["client"] /\ ack \in SeqNumber
      /\ packetsSent' = packetsSent /\ arrived' = arrived
      /\ Consume("client", i, <<>>)
  BY <1>1, ArrivesType DEF ReceiveAckPacket, Arrives
<1>3. conn'["client"] = after /\ conn'["server"] = server
  BY <1>1 DEF ReceiveAckPacket, TypeOK, Endpoint
<1>4. /\ after.seq = client.seq
      /\ after.una = IF AckAdvances(client, ack) THEN ack ELSE client.una
      /\ \/ after.state = client.state
         \/ client.state = "FIN_WAIT_1" /\ after.state = "FIN_WAIT_2"
  <2>1. client.state # "SYN_RECEIVED" /\ client.state # "LAST_ACK"
    BY DEF Flow
  <2> QED
    BY <1>1, <1>2, <2>1, ClientAckNumbers
<1> HIDE DEF after
<1>5. /\ after.state \in {"ESTABLISHED", "FIN_WAIT_1", "FIN_WAIT_2",
                          "CLOSING", "TIME_WAIT", "CLOSED"}
      /\ IsEstablished(after) <=> IsEstablished(client)
  BY <1>4 DEF Flow, IsEstablished
<1>6. CASE ~ AckAdvances(client, ack)
  BY <1>1, <1>2, <1>3, <1>4, <1>5, <1>6, FlowIgnored
<1>7. CASE AckAdvances(client, ack)
  <2>1. \A d \in Endpoint : /\ Range(net'[d]) \subseteq Range(net[d])
                            /\ \A type : NoMore(net[d], net'[d], type)
    BY <1>1, <1>2, DropPackets
  <2>2. FirstNumber' = FirstNumber /\ packetsSent' >= packetsSent
    BY <1>2, <1>3, <1>4, PositionType DEF FirstNumber
  <2>3. IsEstablished(client) /\ IsEstablished(server)
    BY <1>7 DEF AckAdvances, Flow
  <2>4. net["client"][i] \in Range(net["client"])
    BY <1>2 DEF Range
  <2>5. Position(ack) <= Position(server.expected)
    BY <1>2, <2>3, <2>4 DEF Flow
  <2>6. server.expected \in SeqNumber /\ Position(server.expected) \in Nat
    BY <1>1, PositionType DEF TypeOK, Connection
  <2>7. Closing'
    BY <1>1, <1>3, <2>1, ClosingKept DEF Flow
  <2>8. /\ Position(conn'["client"].una) <= Position(conn'["server"].expected)
        /\ Received(FirstNumber, packetsSent', conn'["server"], arrived')
    BY <1>2, <1>3, <1>4, <1>7, <2>3, <2>5 DEF Flow
  <2>9. /\ \A p \in Range(net'["server"]) : p \in Range(net["server"])
        /\ \A p \in Range(net'["client"]) : p \in Range(net["client"])
    BY <1>1, <2>1
  <2>10. Position(server.expected) <= Position(conn'["server"].expected)
    BY <1>3, <2>6
  <2>11. conn'["server"].state = "ESTABLISHED"
    BY <1>3, <2>3 DEF IsEstablished
  <2> HIDE DEF client, server
  <2> QED
    BY <1>3, <1>5, <2>2, <2>3, <2>7, <2>8, <2>9, <2>10, <2>11, FlowAfter
       DEF client, server, IsEstablished
<1> QED
  BY <1>6, <1>7

\* DATA at the server: dropped, or taken and acknowledged now or later.
LEMMA ReceiveDataStreamInv ==
  ASSUME TypeOK, TypeOK', Flow, HandshakeDone', NEW i,
         ReceiveDataRejected(i) \/ ReceiveDataAcked(i) \/ ReceiveDataDelayed(i)
  PROVE  Flow'
<1> DEFINE server == conn["server"]
           client == conn["client"]
           s == net["server"][i].seq
           after == ReceiveData(server, s)
<1> USE DEF sessionVars, historyVars, timerVars
<1>1. server \in Connection /\ "server" \in Endpoint /\ "client" \in Endpoint
  BY DEF TypeOK, Endpoint
<1>2. /\ Arrives("server", i, "DATA") /\ net["server"][i].type = "DATA"
      /\ i \in DOMAIN net["server"] /\ s \in SeqNumber
      /\ packetsSent' = packetsSent
  BY <1>1, ArrivesType DEF ReceiveDataRejected, ReceiveDataAcked, ReceiveDataDelayed,
                           Arrives
<1>3. CASE ReceiveDataRejected(i)
  <2>1. Consume("server", i, <<>>) /\ conn' = conn /\ arrived' = arrived
    BY <1>3 DEF ReceiveDataRejected
  <2> QED
    BY <1>1, <1>2, <2>1, FlowIgnored DEF Flow
<1>4. CASE ReceiveDataAcked(i) \/ ReceiveDataDelayed(i)
  <2>1. AcceptsData(server, s) /\ arrived' = arrived \union {s}
    BY <1>4 DEF ReceiveDataAcked, ReceiveDataDelayed
  <2>2. PICK flag \in BOOLEAN :
          conn' = [conn EXCEPT !["server"] = [after EXCEPT !.delayedAck = flag]]
    BY <1>4 DEF ReceiveDataAcked, ReceiveDataDelayed
  <2>3. after \in Connection
    BY <1>1, <1>2, <2>1, ReceiveDataType
  <2>4. after.state = server.state
    BY <1>1 DEF ReceiveData, Connection
  <2> HIDE DEF after
  <2>5. /\ conn'["client"] = client
        /\ conn'["server"] = [after EXCEPT !.delayedAck = flag]
    BY <1>1, <2>2 DEF TypeOK, Endpoint
  <2>6. /\ conn'["server"].state = server.state
        /\ conn'["server"].expected = after.expected
        /\ conn'["server"].rcvBuf = after.rcvBuf
        /\ conn'["server"] \in Connection
    BY <2>3, <2>4, <2>5 DEF Connection
  <2>7. net["server"][i] \in Range(net["server"]) /\ Position(s) < packetsSent
    BY <1>2 DEF Range, Flow
  <2> DEFINE ack == BuildAck(conn'["server"])
  <2>8. ack \in Segment /\ ack.type = "ACK" /\ ack.ack = after.expected
    BY <2>6, BuildType DEF BuildAck
  <2>9. PICK t \in Seq(Segment) :
          /\ Consume("server", i, t)
          /\ Range(t) \subseteq {ack} /\ Without(t, "FIN")
    <3>1. CASE ReceiveDataAcked(i)
      <4>1. PICK ok \in BOOLEAN : Consume("server", i, Taken(ack, ok))
        BY <3>1 DEF ReceiveDataAcked
      <4> HIDE DEF ack
      <4> QED
        BY <2>8, <4>1, TakenPackets
    <3>2. CASE ReceiveDataDelayed(i)
      <4>1. /\ Consume("server", i, <<>>) /\ <<>> \in Seq(Segment)
            /\ Range(<<>>) = {} /\ Without(<<>>, "FIN")
        BY <3>2, EmptySeq DEF ReceiveDataDelayed, Range, Without
      <4> QED
        BY <4>1
    <3> QED
      BY <1>4, <3>1, <3>2
  <2> HIDE DEF ack
  <2>10. /\ Range(net'["server"]) \subseteq Range(net["server"])
         /\ NoMore(net["server"], net'["server"], "ACK")
         /\ Range(net'["client"]) = Range(net["client"]) \union Range(t)
         /\ NoMore(net["client"], net'["client"], "FIN")
    BY <1>1, <1>2, <2>9, ConsumePackets DEF Peer
  <2>11. Closing'
    BY <2>6, <2>10, ClosingKept DEF Flow
  <2>12. FirstNumber' = FirstNumber /\ packetsSent' >= packetsSent
    BY <1>2, <2>5, PositionType DEF FirstNumber
  <2>13. /\ FirstNumber \in SeqNumber /\ packetsSent \in Nat /\ packetsSent < SeqSize
         /\ \A n \in SeqNumber : Position(n) \in Nat
    BY PositionType
  <2>14. ASSUME IsEstablished(server)
         PROVE  /\ Received(FirstNumber, packetsSent', conn'["server"], arrived')
                /\ Position(server.expected) <= Position(conn'["server"].expected)
                /\ Position(client.una) <= Position(conn'["server"].expected)
    <3>1. Received(FirstNumber, packetsSent, server, arrived) /\ arrived \subseteq SeqNumber
      BY <2>14 DEF Flow, TypeOK
    <3>2. Offset(FirstNumber, s) < packetsSent
      BY <2>7 DEF Position
    <3> HIDE DEF server, s
    <3>3. /\ Received(FirstNumber, packetsSent, after, arrived \union {s})
          /\ Offset(FirstNumber, server.expected) <= Offset(FirstNumber, after.expected)
      BY <1>1, <1>2, <2>1, <2>13, <3>1, <3>2, ReceiveDataReceived DEF after
    <3>4. /\ Position(server.expected) \in Nat /\ Position(after.expected) \in Nat
          /\ Position(client.una) \in Nat
      BY <1>1, <2>3, <2>13 DEF TypeOK, Connection, server
    <3>5. Position(client.una) <= Position(server.expected)
      BY <2>14 DEF Flow, server
    <3> QED
      BY <1>2, <2>1, <2>6, <3>3, <3>4, <3>5 DEF Received, Position
  <2>15. IsEstablished(client) => IsEstablished(server)
    BY DEF Flow
  <2>16. \A p \in Range(net'["client"]) :
           \/ p \in Range(net["client"])
           \/ p.type = "ACK" /\ Position(p.ack) <= Position(conn'["server"].expected)
    <3>1. Position(after.expected) \in Nat
      BY <2>3, <2>13 DEF Connection
    <3> QED
      BY <2>6, <2>8, <2>9, <2>10, <3>1
  <2>17. /\ client.state \in {"ESTABLISHED", "FIN_WAIT_1", "FIN_WAIT_2",
                              "CLOSING", "TIME_WAIT", "CLOSED"}
         /\ server.state \in {"ESTABLISHED", "LAST_ACK", "CLOSED", "SYN_RECEIVED"}
    BY DEF Flow
  <2>18. /\ conn'["client"] = client
         /\ IsEstablished(conn'["server"]) <=> IsEstablished(server)
    BY <2>5, <2>6 DEF IsEstablished
  <2> HIDE DEF client, server
  <2> QED
    BY <2>6, <2>10, <2>11, <2>12, <2>14, <2>15, <2>16, <2>17, <2>18, FlowAfter
       DEF client, server
<1> QED
  BY <1>3, <1>4

\* What the receiver of a FIN sends: an ACK, and its own FIN if it closes too.
LEMMA FinReplies ==
  ASSUME NEW ack \in Segment, NEW fin \in Segment, ack.type # fin.type,
         NEW ackOk \in BOOLEAN, NEW finOk \in BOOLEAN
  PROVE  LET replies == Taken(ack, ackOk) \o Taken(fin, finOk)
         IN  /\ replies \in Seq(Segment)
             /\ Range(replies) \subseteq {ack, fin}
             /\ \A type : AtMostOne(replies, type)
<1> DEFINE a == Taken(ack, ackOk)
           f == Taken(fin, finOk)
<1>1. /\ a \in Seq(Segment) /\ Range(a) \subseteq {ack}
      /\ \A type : AtMostOne(a, type)
      /\ \A type : ack.type # type => Without(a, type)
  BY TakenPackets
<1>2. /\ f \in Seq(Segment) /\ Range(f) \subseteq {fin}
      /\ \A type : AtMostOne(f, type)
      /\ \A type : fin.type # type => Without(f, type)
  BY TakenPackets
<1> HIDE DEF a, f
<1>3. /\ a \o f \in Seq(Segment) /\ Range(a \o f) = Range(a) \union Range(f)
      /\ \A type : Without(f, type) => NoMore(a, a \o f, type)
      /\ \A type : Without(a, type) => NoMore(f, a \o f, type)
  BY <1>1, <1>2, ConcatPackets, ConcatProperties
<1>4. \A type : AtMostOne(a \o f, type)
  BY <1>1, <1>2, <1>3 DEF NoMore
<1> QED
  BY <1>1, <1>2, <1>3, <1>4 DEF a, f

\* The server that takes a FIN answers with its own, and waits for the ACK.
LEMMA ServerFinStreamInv ==
  ASSUME TypeOK, TypeOK', Flow, HandshakeDone', NEW i, ReceiveFinPacket("server", i)
  PROVE  Flow'
<1> DEFINE server == conn["server"]
           client == conn["client"]
           received == ReceiveFin(server, net["server"][i].seq)
           after == SendFin(received)
           ack == BuildAck(received)
           fin == BuildFin(after)
<1> USE DEF sessionVars, historyVars
<1>1. /\ server \in Connection /\ "server" \in Endpoint /\ "client" \in Endpoint
      /\ packetsSent' = packetsSent /\ arrived' = arrived
      /\ i \in DOMAIN net["server"] /\ net["server"][i].type = "FIN"
      /\ Peer("server") = "client"
  BY DEF TypeOK, Endpoint, ReceiveFinPacket, Arrives, Peer
<1>2. net["server"][i].seq \in SeqNumber /\ net["server"][i] \in Range(net["server"])
  BY <1>1, ArrivesType DEF ReceiveFinPacket, Range
<1>3. ~ IsEstablished(client)
  BY <1>1, <1>2 DEF Flow, Without
<1>4. CASE ~ Accepts(OnPeerFin, server.state)
  <2>1. Consume("server", i, <<>>) /\ conn' = conn
    BY <1>4 DEF ReceiveFinPacket
  <2> QED
    BY <1>1, <2>1, FlowIgnored DEF Flow
<1>5. CASE Accepts(OnPeerFin, server.state)
  <2>1. server.state = "ESTABLISHED"
    BY <1>5 DEF Flow, Accepts, OnPeerFin
  <2>2. /\ received \in Connection /\ received.state = "CLOSE_WAIT"
        /\ after \in Connection /\ after.state = "LAST_ACK"
    <3>1. received \in Connection /\ received.state = "CLOSE_WAIT"
      BY <1>1, <1>2, <2>1, SeqArithmetic
         DEF ReceiveFin, OnPeerFin, Connection, TCPState
    <3> HIDE DEF received
    <3> QED
      BY <3>1 DEF SendFin, OnFinSent, Connection, TCPState
  <2>3. PICK ackOk \in BOOLEAN, finOk \in BOOLEAN :
          /\ conn' = [conn EXCEPT !["server"] = after]
          /\ Consume("server", i, Taken(ack, ackOk) \o Taken(fin, finOk))
    BY <1>5, <2>2 DEF ReceiveFinPacket
  <2>4. conn'["server"] = after /\ conn'["client"] = client
    BY <1>1, <2>3 DEF TypeOK, Endpoint
  <2>5. /\ ack \in Segment /\ ack.type = "ACK" /\ fin \in Segment /\ fin.type = "FIN"
    BY <2>2, BuildType DEF BuildAck, BuildFin
  <2> HIDE DEF received, after, ack, fin
  <2> DEFINE t == Taken(ack, ackOk) \o Taken(fin, finOk)
  <2>6. t \in Seq(Segment) /\ Range(t) \subseteq {ack, fin} /\ AtMostOne(t, "FIN")
    BY <2>5, FinReplies
  <2>7. Consume("server", i, t)
    BY <2>3
  <2> HIDE DEF t
  <2>8. /\ Range(net'["server"]) \subseteq Range(net["server"])
        /\ NoMore(net["server"], net'["server"], "ACK")
        /\ Without(net["client"], "FIN") => NoMore(t, net'["client"], "FIN")
    BY <1>1, <2>6, <2>7, ConsumePackets
  <2>9. Without(net["server"], "ACK") /\ Without(net["client"], "FIN")
    BY <2>1 DEF Flow, Closing
  <2>10. Without(net'["server"], "ACK") /\ AtMostOne(net'["client"], "FIN")
    BY <2>6, <2>8, <2>9 DEF NoMore
  <2>11. AtMostOne(net'["server"], "ACK")
    BY <2>10 DEF AtMostOne, Without, Range
  <2>12. Closing'
    BY <2>2, <2>4, <2>10, <2>11 DEF Closing
  <2>13. FirstNumber' = FirstNumber /\ packetsSent' >= packetsSent
    BY <1>1, <2>4, PositionType DEF FirstNumber
  <2>14. /\ ~ IsEstablished(conn'["server"]) /\ ~ IsEstablished(conn'["client"])
         /\ conn'["server"].state = "LAST_ACK"
         /\ conn'["client"].state = client.state
    BY <1>3, <2>2, <2>4 DEF IsEstablished
  <2>15. client.state \in {"ESTABLISHED", "FIN_WAIT_1", "FIN_WAIT_2",
                           "CLOSING", "TIME_WAIT", "CLOSED"}
    BY DEF Flow
  <2> HIDE DEF client, server
  <2> QED
    BY <2>8, <2>12, <2>13, <2>14, <2>15, FlowAfter DEF client
<1> QED
  BY <1>4, <1>5

\* A FIN at the client: the only one there is, for the server awaits its ACK.
LEMMA ClientFinStreamInv ==
  ASSUME TypeOK, TypeOK', Flow, HandshakeDone', NEW i, ReceiveFinPacket("client", i)
  PROVE  Flow'
<1> DEFINE server == conn["server"]
           client == conn["client"]
           received == ReceiveFin(client, net["client"][i].seq)
           ack == BuildAck(received)
           fin == BuildFin(received)
<1> USE DEF sessionVars, historyVars
<1>1. /\ client \in Connection /\ "server" \in Endpoint /\ "client" \in Endpoint
      /\ packetsSent' = packetsSent /\ arrived' = arrived
      /\ i \in DOMAIN net["client"] /\ net["client"][i].type = "FIN"
      /\ Peer("client") = "server"
  BY DEF TypeOK, Endpoint, ReceiveFinPacket, Arrives, Peer
<1>2. net["client"][i].seq \in SeqNumber /\ net["client"][i] \in Range(net["client"])
  BY <1>1, ArrivesType DEF ReceiveFinPacket, Range
<1>3. server.state = "LAST_ACK" /\ ~ Without(net["client"], "FIN")
  BY <1>1, <1>2 DEF Flow, Closing, Without
<1>4. CASE ~ Accepts(OnPeerFin, client.state)
  <2>1. Consume("client", i, <<>>) /\ conn' = conn
    BY <1>4 DEF ReceiveFinPacket
  <2> QED
    BY <1>1, <2>1, FlowIgnored DEF Flow
<1>5. CASE Accepts(OnPeerFin, client.state)
  <2>1. client.state \in {"FIN_WAIT_1", "FIN_WAIT_2"}
    BY <1>3, <1>5 DEF Flow, Accepts, OnPeerFin, IsEstablished
  <2>2. /\ received \in Connection /\ received.state \in {"CLOSING", "TIME_WAIT"}
        /\ received.seq = client.seq
    BY <1>1, <1>2, <2>1, SeqArithmetic
       DEF ReceiveFin, OnPeerFin, Connection, TCPState
  <2>3. PICK ackOk \in BOOLEAN, finOk \in BOOLEAN :
          /\ conn' = [conn EXCEPT !["client"] = received]
          /\ Consume("client", i, Taken(ack, ackOk) \o Taken(fin, finOk))
    BY <1>5, <2>2 DEF ReceiveFinPacket
  <2>4. conn'["client"] = received /\ conn'["server"] = server
    BY <1>1, <2>3 DEF TypeOK, Endpoint
  <2>5. /\ ack \in Segment /\ ack.type = "ACK" /\ fin \in Segment /\ fin.type = "FIN"
    BY <2>2, BuildType DEF BuildAck, BuildFin
  <2> HIDE DEF received, ack, fin
  <2> DEFINE t == Taken(ack, ackOk) \o Taken(fin, finOk)
  <2>6. t \in Seq(Segment) /\ Range(t) \subseteq {ack, fin} /\ AtMostOne(t, "ACK")
    BY <2>5, FinReplies
  <2>7. Consume("client", i, t)
    BY <2>3
  <2> HIDE DEF t
  <2>8. /\ Range(net'["client"]) \subseteq Range(net["client"])
        /\ AtMostOne(net["client"], "FIN") => Without(net'["client"], "FIN")
        /\ Range(net'["server"]) = Range(net["server"]) \union Range(t)
        /\ Without(net["server"], "ACK") => NoMore(t, net'["server"], "ACK")
    BY <1>1, <2>6, <2>7, ConsumePackets
  <2>9. Without(net["server"], "ACK") /\ AtMostOne(net["client"], "FIN")
    BY <1>3 DEF Flow, Closing
  <2>10. AtMostOne(net'["server"], "ACK") /\ Without(net'["client"], "FIN")
    BY <2>6, <2>8, <2>9 DEF NoMore
  <2>11. AtMostOne(net'["client"], "FIN")
    BY <2>10 DEF AtMostOne, Without, Range
  <2>12. Closing'
    BY <1>3, <2>4, <2>10, <2>11 DEF Closing
  <2>13. FirstNumber' = FirstNumber /\ packetsSent' >= packetsSent
    BY <1>1, <2>2, <2>4, PositionType DEF FirstNumber
  <2>14. /\ ~ IsEstablished(conn'["server"]) /\ ~ IsEstablished(conn'["client"])
         /\ conn'["server"].state = "LAST_ACK"
         /\ conn'["client"].state \in {"CLOSING", "TIME_WAIT"}
    BY <1>3, <2>2, <2>4 DEF IsEstablished
  <2>15. \A p \in Range(net'["server"]) :
           p \in Range(net["server"]) \/ p.type \in {"ACK", "FIN"}
    BY <2>5, <2>6, <2>8
  <2> HIDE DEF client, server
  <2> QED
    BY <2>8, <2>12, <2>13, <2>14, <2>15, FlowAfter DEF client
<1> QED
  BY <1>4, <1>5

-----------------------------------------------------------------------------
(* Every step keeps the invariant. *)

LEMMA OpeningNext ==
  ASSUME SessionInv, SessionInv', Opening, ~ generated, [Next]_vars
  PROVE  StreamInv'
<1> USE DEF sessionVars, historyVars, timerVars
<1>1. /\ TypeInv /\ TypeInv' /\ TypeOK /\ TypeOK'
      /\ "server" \in Endpoint /\ "client" \in Endpoint
  BY DEF SessionInv, TimerInv, TypeInv, Endpoint
<1>2. ASSUME Opening', generated' = generated
      PROVE  StreamInv'
  BY <1>2 DEF StreamInv
<1>3. \A type : Due(type) => type = "handshake"
  BY <1>1, OpeningEvents
<1>4. ASSUME NEW i, NEW type, Arrives("server", i, type)
      PROVE  type \in {"SYN", "ACK"}
  BY <1>4 DEF Arrives, Opening, Range
<1>5. ASSUME NEW i, NEW type, Arrives("client", i, type)
      PROVE  type = "SYN_ACK"
  BY <1>5 DEF Arrives, Opening, Range
<1>6. CASE RunDueEvent
  <2>1. HandshakeEvent
    BY <1>3, <1>6
       DEF RunDueEvent, GenerationEnds, PacketGeneration, Retransmission,
           FastRetransmit, ConnectionClose
  <2>2. generated' = generated
    BY <2>1 DEF HandshakeEvent
  <2> QED
    BY <1>1, <1>2, <2>1, <2>2, HandshakeEventStreamInv
<1>7. CASE ReceiveAtServer
  <2> \A i : ~ Arrives("server", i, "DATA") /\ ~ Arrives("server", i, "FIN")
    BY <1>4
  <2>0. \A i : /\ ~ ReceiveDataRejected(i) /\ ~ ReceiveDataAcked(i)
               /\ ~ ReceiveDataDelayed(i) /\ ~ ReceiveFinPacket("server", i)
    BY DEF ReceiveDataRejected, ReceiveDataAcked, ReceiveDataDelayed,
           ReceiveFinPacket
  <2>1. PICK i : ReceiveSynPacket(i) \/ ReceiveAckPacket("server", i)
    BY <1>7, <2>0 DEF ReceiveAtServer
  <2>2. CASE ReceiveSynPacket(i)
    <3>1. generated' = generated
      BY <2>2 DEF ReceiveSynPacket
    <3> QED
      BY <1>1, <1>2, <2>2, <3>1, ReceiveSynPacketStreamInv
  <2>3. CASE ReceiveAckPacket("server", i)
    BY <1>1, <2>3, OpeningAckStreamInv
  <2> QED
    BY <2>1, <2>2, <2>3
<1>8. CASE ReceiveAtClient
  <2>1. PICK i : ReceiveSynAckPacket(i)
    BY <1>5, <1>8 DEF ReceiveAtClient, ReceiveAckPacket, ReceiveFinPacket
  <2>2. generated' = generated
    BY <2>1 DEF ReceiveSynAckPacket
  <2> QED
    BY <1>1, <1>2, <2>1, <2>2, ReceiveSynAckPacketStreamInv
<1>9. CASE FireTimer \/ Lose \/ UNCHANGED vars
  <2>1. generated' = generated
    BY <1>9
       DEF FireTimer, HandshakeTimeoutIgnored, HandshakeTimeout, TimeWaitTimeout,
           Timeout, DelayedAckIgnored, DelayedAckObsolete, DelayedAckSent,
           Lose, LoseInTransit, vars
  <2>2. Opening'
    BY <1>9, OpeningTimerStreamInv DEF FireTimer
  <2> QED
    BY <1>2, <2>1, <2>2
<1> QED
  BY <1>6, <1>7, <1>8, <1>9 DEF Next

LEMMA FlowNext ==
  ASSUME SessionInv, SessionInv', Flow, [Next]_vars
  PROVE  Flow'
<1>1. /\ TypeInv /\ TypeOK /\ TypeOK'
  BY DEF SessionInv, TimerInv, TypeInv
<1>2. HandshakeDone'
  BY <1>1, HandshakeStaysDone DEF Flow
<1>3. CASE RunDueEvent
  <2>1. ~ HandshakeEvent
    <3>1. SUFFICES ASSUME Due("handshake") PROVE FALSE
      BY DEF HandshakeEvent
    <3>2. due \in Seq(DueEvent) /\ due # <<>>
      BY <1>1, <3>1 DEF TypeOK, Due
    <3>3. Head(due) = due[1] /\ 1 \in DOMAIN due
      BY <3>2, HeadTailProperties, LenProperties, EmptySeq
    <3> QED
      BY <3>1, <3>3 DEF Flow, HandshakeDone, Due
  <2> QED
    BY <1>1, <1>2, <1>3, <2>1, ClosingEventStreamInv, PacketGenerationStreamInv,
       ResendStreamInv DEF RunDueEvent
<1>4. CASE ReceiveAtServer
  BY <1>1, <1>2, <1>4, LateSynStreamInv, ServerAckStreamInv, ReceiveDataStreamInv,
     ServerFinStreamInv DEF ReceiveAtServer
<1>5. CASE ReceiveAtClient
  BY <1>1, <1>2, <1>5, LateSynStreamInv, ClientAckStreamInv, ClientFinStreamInv
     DEF ReceiveAtClient
<1>6. CASE FireTimer
  BY <1>1, <1>2, <1>6, FlowTimerStreamInv, DelayedAckStreamInv DEF FireTimer
<1>7. CASE Lose
  BY <1>1, <1>2, <1>7, LoseStreamInv
<1>8. CASE UNCHANGED vars
  BY SMTT(40), <1>1, <1>2, <1>8, FlowTimerStreamInv
<1> QED
  BY <1>3, <1>4, <1>5, <1>6, <1>7, <1>8 DEF Next

\* The traffic starts only once.
LEMMA GeneratedForGood ==
  ASSUME generated, [Next]_vars
  PROVE  generated'
BY DEF Next, RunDueEvent, ReceiveAtServer, ReceiveAtClient, FireTimer, Lose,
       HandshakeEvent, GenerationEnds, PacketGeneration, Retransmission,
       FastRetransmit, ConnectionClose, ReceiveSynPacket, ReceiveSynAckPacket,
       ReceiveAckPacket, ReceiveDataRejected, ReceiveDataAcked,
       ReceiveDataDelayed, ReceiveFinPacket, HandshakeTimeoutIgnored,
       HandshakeTimeout, TimeWaitTimeout, Timeout, DelayedAckIgnored,
       DelayedAckObsolete, DelayedAckSent, LoseInTransit, vars, sessionVars

LEMMA NextStreamInv ==
  ASSUME SessionInv, SessionInv', StreamInv, [Next]_vars
  PROVE  StreamInv'
<1>1. CASE generated
  BY <1>1, FlowNext, GeneratedForGood DEF StreamInv
<1>2. CASE ~ generated
  BY <1>2, OpeningNext DEF StreamInv
<1> QED
  BY <1>1, <1>2

LEMMA StreamInvariance == Spec => [](SessionInv /\ StreamInv)
<1>1. SessionInv /\ SessionInv' /\ StreamInv /\ [Next]_vars => StreamInv'
  BY NextStreamInv
<1> QED
  BY <1>1, InitStreamInv, SessionInvariance, PTL DEF Spec

-----------------------------------------------------------------------------
(* What follows from it. *)

LEMMA StreamAckSound ==
  ASSUME TypeOK, StreamInv
  PROVE  AckSoundness
<1> DEFINE server == conn["server"]
           client == conn["client"]
<1> SUFFICES ASSUME IsEstablished(client)
             PROVE  (server.expected - client.una) % SeqSize
                      <= (client.seq - client.una) % SeqSize
  BY DEF AckSoundness, InFlight
<1>1. /\ client.seq \in SeqNumber /\ client.una \in SeqNumber
      /\ server.expected \in SeqNumber
  BY DEF TypeOK, Connection, Endpoint
<1>2. CASE ~ generated
  <2>1. server.expected = client.seq
    BY <1>2 DEF StreamInv, Opening
  <2>2. (client.seq - client.una) % SeqSize
          = IF client.seq >= client.una THEN client.seq - client.una
                                        ELSE client.seq - client.una + SeqSize
    BY <1>1, Distance
  <2>3. (client.seq - client.una) % SeqSize \in Int
    BY <1>1, <2>2, SeqSizeAssumption DEF SeqNumber
  <2> QED
    BY <2>1, <2>3
<1>3. CASE generated
  <2>1. /\ Position(client.una) <= Position(server.expected)
        /\ Position(server.expected) <= packetsSent
    BY <1>3 DEF StreamInv, Flow, Received, Position
  <2>2. /\ FirstNumber \in SeqNumber /\ packetsSent \in Nat
        /\ Position(client.seq) = packetsSent
        /\ Position(client.una) \in Nat /\ Position(server.expected) \in Nat
    BY <1>1, PositionType
  <2> HIDE DEF client, server
  <2>3. (server.expected - client.una) % SeqSize
          = Position(server.expected) - Position(client.una)
    BY <1>1, <2>1, <2>2, OffsetBetween DEF Position
  <2>4. Position(client.una) <= Position(client.seq)
    BY <2>1, <2>2
  <2>5. (client.seq - client.una) % SeqSize = packetsSent - Position(client.una)
    BY <1>1, <2>2, <2>4, OffsetBetween DEF Position
  <2> QED
    BY <2>1, <2>2, <2>3, <2>5
<1> QED
  BY <1>2, <1>3

(***************************************************************************)
(* SND.UNA, RCV.NXT and SND.NXT come in this order around the sequence     *)
(* space for as long as the client is established: no acknowledgement      *)
(* covers what the server has not consumed, and none what was not sent     *)
(* (receive_ack, receive_data, createAckPacket), for every window, number  *)
(* space, loss, refusal and reordering.                                    *)
(***************************************************************************)
THEOREM AcknowledgementsSound == Spec => []AckSoundness
<1>1. SessionInv /\ StreamInv => AckSoundness
  BY StreamAckSound DEF SessionInv, TimerInv, TypeInv
<1> QED
  BY <1>1, StreamInvariance, PTL

\* The numbers counted from first are those before the one they lead to.
LEMMA BeforeCounted ==
  ASSUME NEW first \in SeqNumber, NEW n \in SeqNumber
  PROVE  {(first + k) % SeqSize : k \in 0 .. Offset(first, n) - 1}
           = Before(first, n)
<1> DEFINE length == Offset(first, n)
<1>1. /\ length \in Nat /\ length < SeqSize /\ SeqSize \in Nat
      /\ Offset(first, first) = 0
  BY OffsetType, SeqSizeAssumption
<1> HIDE DEF length
<1>2. ASSUME NEW k \in 0 .. length - 1
      PROVE  /\ (first + k) % SeqSize \in SeqNumber
             /\ Offset(first, (first + k) % SeqSize) = k /\ k < length
  <2>1. k \in Nat /\ k < SeqSize /\ k < length
    BY <1>1
  <2>2. Offset(first, first) + k = k
    BY <1>1, <2>1
  <2> QED
    BY <2>1, <2>2, OffsetStep
<1>3. ASSUME NEW m \in SeqNumber, Offset(first, m) < length
      PROVE  \E k \in 0 .. length - 1 : m = (first + k) % SeqSize
  <2> DEFINE k == Offset(first, m)
             b == (first + k) % SeqSize
  <2>1. k \in 0 .. length - 1
    BY <1>1, <1>3, OffsetType
  <2>2. b \in SeqNumber /\ Offset(first, b) = k
    BY <1>2, <2>1
  <2>3. m = b
    BY <2>2, OffsetInjective
  <2> QED
    BY <2>1, <2>3
<1> QED
  BY <1>2, <1>3 DEF Before, length

LEMMA StreamDelivered ==
  ASSUME TypeOK, StreamInv
  PROVE  DeliveredExactly
<1> DEFINE server == conn["server"]
           first == FirstNumber
           e == server.expected
           wraps == first + PacketsPerRoute >= SeqSize
<1> SUFFICES ASSUME generated, IsEstablished(server), ~ wraps
             PROVE  LET consumed == {(first + k) % SeqSize :
                                       k \in 0 .. Offset(first, e) - 1}
                    IN  /\ arrived = consumed \union server.rcvBuf
                        /\ consumed \intersect server.rcvBuf = {}
  BY DEF DeliveredExactly, FirstNumber, Offset
<1>1. first \in SeqNumber /\ e \in SeqNumber /\ server.rcvBuf \subseteq SeqNumber
  BY PositionType DEF TypeOK, Connection, Endpoint
<1>2. Received(first, packetsSent, server, arrived)
  BY DEF StreamInv, Flow
<1>3. ASSUME NEW x \in server.rcvBuf
      PROVE  x \notin Before(first, e)
  <2>1. x \in SeqNumber /\ x > e
    BY <1>1, <1>2 DEF Received
  <2>2. Offset(first, e) <= packetsSent /\ packetsSent <= PacketsPerRoute
    BY <1>2 DEF Received, TypeOK
  <2>3. /\ Offset(first, e) = IF e >= first THEN e - first ELSE e - first + SeqSize
        /\ Offset(first, x) = IF x >= first THEN x - first ELSE x - first + SeqSize
    BY <1>1, <2>1, OffsetType
  <2>4. ~ Offset(first, x) < Offset(first, e)
    <3> HIDE DEF first, e, server
    <3>1. packetsSent \in Nat /\ PacketsPerRoute \in Nat /\ first + PacketsPerRoute < SeqSize
      BY <1>1, PositionType, SessionAssumption, SeqSizeAssumption DEF SeqNumber
    <3> QED
      BY <1>1, <2>1, <2>2, <2>3, <3>1, SeqSizeAssumption DEF SeqNumber
  <2> QED
    BY <2>4 DEF Before
<1> HIDE DEF first, e, server
<1>4. {(first + k) % SeqSize : k \in 0 .. Offset(first, e) - 1} = Before(first, e)
  BY <1>1, BeforeCounted
<1>5. arrived = Before(first, e) \union server.rcvBuf
  BY <1>2 DEF Received, e
<1> QED
  BY <1>3, <1>4, <1>5

(***************************************************************************)
(* While the server is established, what it has accepted is exactly the    *)
(* stream up to RCV.NXT, consumed once, and what its receive buffer holds  *)
(* (TCPReceiveBuffer::push and consumeContiguous), for every window and    *)
(* number space in which the stream's numbers do not wrap.                 *)
(***************************************************************************)
THEOREM DeliveryExact == Spec => []DeliveredExactly
<1>1. SessionInv /\ StreamInv => DeliveredExactly
  BY StreamDelivered DEF SessionInv, TimerInv, TypeInv
<1> QED
  BY <1>1, StreamInvariance, PTL

-----------------------------------------------------------------------------
(* DATA on its way to the server. *)

DataIn(q) == {i \in DOMAIN q : q[i].type = "DATA"}

LEMMA DataRemoved ==
  ASSUME NEW q \in Seq(Segment), NEW i \in DOMAIN q
  PROVE  Cardinality(DataIn(RemoveAt(q, i))) <= Cardinality(DataIn(q))
<1> DEFINE r == RemoveAt(q, i)
           S == DataIn(r)
           T == DataIn(q)
           f == [k \in S |-> IF k < i THEN k ELSE k + 1]
<1>1. i \in 1 .. Len(q) /\ Len(q) \in Nat /\ DOMAIN q = 1 .. Len(q)
  BY LenProperties
<1>2. DOMAIN r = 1 .. Len(q) - 1
      /\ \A k \in DOMAIN r : r[k] = q[IF k < i THEN k ELSE k + 1]
  BY RemoveAtProperties
<1>3. \A k \in S : k \in Nat /\ f[k] \in T
  BY <1>1, <1>2 DEF DataIn
<1>4. \A k, l \in S : f[k] = f[l] => k = l
  BY <1>1, <1>3
<1>5. f \in Injection(S, T)
  BY <1>3, <1>4 DEF Injection, IsInjective
<1>6. IsFiniteSet(T)
  <2>1. IsFiniteSet(1 .. Len(q)) /\ T \in SUBSET (1 .. Len(q))
    BY <1>1, FS_Interval DEF DataIn
  <2> QED
    BY <2>1, FS_Subset
<1> HIDE DEF f, S, T
<1>7. Cardinality(S) <= Cardinality(T)
  BY <1>5, <1>6, FS_Injection
<1> QED
  BY <1>7 DEF S, T, r

LEMMA DataKept ==
  ASSUME NEW q \in Seq(Segment), NEW t \in Seq(Segment), Without(t, "DATA")
  PROVE  DataIn(q \o t) = DataIn(q)
<1>1. /\ q \o t \in Seq(Segment) /\ Len(q \o t) = Len(q) + Len(t)
      /\ \A k \in 1 .. Len(q) + Len(t) :
           (q \o t)[k] = IF k <= Len(q) THEN q[k] ELSE t[k - Len(q)]
  BY ConcatProperties
<1>2. /\ DOMAIN q = 1 .. Len(q) /\ Len(q) \in Nat
      /\ DOMAIN t = 1 .. Len(t) /\ Len(t) \in Nat
      /\ DOMAIN (q \o t) = 1 .. Len(q \o t)
  BY <1>1, LenProperties
<1>3. \A k \in DOMAIN t : t[k].type # "DATA"
  BY DEF Without, Range
<1>4. ASSUME NEW k \in DataIn(q \o t) PROVE k \in DataIn(q)
  <2>1. k \in 1 .. Len(q) + Len(t) /\ (q \o t)[k].type = "DATA"
    BY <1>1, <1>2, <1>4 DEF DataIn
  <2>2. k <= Len(q)
    <3>1. SUFFICES ASSUME ~ k <= Len(q) PROVE FALSE
      OBVIOUS
    <3>2. k - Len(q) \in DOMAIN t /\ (q \o t)[k] = t[k - Len(q)]
      BY <1>1, <1>2, <2>1, <3>1
    <3> QED
      BY <1>3, <2>1, <3>2
  <2> QED
    BY <1>1, <1>2, <2>1, <2>2 DEF DataIn
<1>5. ASSUME NEW k \in DataIn(q) PROVE k \in DataIn(q \o t)
  <2>1. k \in 1 .. Len(q) /\ q[k].type = "DATA"
    BY <1>2, <1>5 DEF DataIn
  <2>2. k \in 1 .. Len(q) + Len(t) /\ k <= Len(q)
    BY <1>2, <2>1
  <2> QED
    BY <1>1, <1>2, <2>1, <2>2 DEF DataIn
<1> QED
  BY <1>4, <1>5

\* What a step may do to the packets on their way to the server when it sends
\* no DATA.
SendsNoData ==
  \/ net'["server"] = net["server"]
  \/ \E t \in Seq(Segment) :
       Without(t, "DATA") /\ net'["server"] = net["server"] \o t
  \/ \E i \in DOMAIN net["server"] : net'["server"] = RemoveAt(net["server"], i)

LEMMA SendsNoDataCounts ==
  ASSUME TypeOK, SendsNoData
  PROVE  Cardinality(DataToServer') <= Cardinality(DataToServer)
<1> DEFINE q == net["server"]
           r == net'["server"]
<1>1. q \in Seq(Segment)
  BY DEF TypeOK, Endpoint
<1>2. Cardinality(DataIn(q)) \in Nat
  <2> HIDE DEF q
  <2>0. Len(q) \in Nat /\ DOMAIN q = 1 .. Len(q)
    BY <1>1, LenProperties
  <2>1. IsFiniteSet(1 .. Len(q)) /\ DataIn(q) \in SUBSET (1 .. Len(q))
    BY <2>0, FS_Interval DEF DataIn
  <2>2. IsFiniteSet(DataIn(q))
    BY <2>1, FS_Subset
  <2> QED
    BY <2>2, FS_CardinalityType
<1>3. Cardinality(DataIn(r)) <= Cardinality(DataIn(q))
  <2>1. CASE r = q
    BY <1>2, <2>1
  <2>2. ASSUME NEW t \in Seq(Segment), Without(t, "DATA"), r = q \o t
        PROVE  DataIn(r) = DataIn(q)
    <3> HIDE DEF q, r
    <3> QED
      BY <1>1, <2>2, DataKept
  <2>3. ASSUME NEW i \in DOMAIN q, r = RemoveAt(q, i)
        PROVE  Cardinality(DataIn(r)) <= Cardinality(DataIn(q))
    <3> HIDE DEF q, r
    <3> QED
      BY <1>1, <2>3, DataRemoved
  <2> QED
    BY SMTT(40), <1>2, <2>1, <2>2, <2>3 DEF SendsNoData
<1>4. DataToServer = DataIn(q) /\ DataToServer' = DataIn(r)
  BY DEF DataToServer, DataIn
<1> QED
  BY <1>3, <1>4

\* A segment that is not DATA leaves for the server, or the first hop refuses.
LEMMA TransmitsNoData ==
  ASSUME TypeOK, NEW e \in Endpoint, NEW segment \in Segment, NEW ok \in BOOLEAN,
         Transmit(e, segment, ok), e = "server" => segment.type # "DATA"
  PROVE  SendsNoData
<1> DEFINE t == Taken(segment, ok)
<1>1. "server" \in Endpoint /\ "client" \in Endpoint
  BY DEF Endpoint
<1>2. t \in Seq(Segment) /\ (segment.type # "DATA" => Without(t, "DATA"))
  BY TakenPackets
<1>3. net' = [net EXCEPT ![e] = @ \o t]
  BY DEF Transmit
<1> HIDE DEF t
<1>4. CASE e = "server"
  BY <1>1, <1>2, <1>3, <1>4 DEF SendsNoData, TypeOK
<1>5. CASE e # "server"
  BY <1>1, <1>3, <1>5 DEF SendsNoData, TypeOK
<1> QED
  BY <1>4, <1>5

LEMMA ConsumesNoData ==
  ASSUME TypeOK, NEW e \in Endpoint, NEW i \in DOMAIN net[e],
         NEW replies \in Seq(Segment), Consume(e, i, replies),
         e = "client" => Without(replies, "DATA")
  PROVE  SendsNoData
<1>1. "server" \in Endpoint /\ "client" \in Endpoint /\ e \in {"client", "server"}
  BY DEF Endpoint
<1>2. CASE e = "server"
  <2>1. net'["server"] = RemoveAt(net["server"], i)
    BY <1>1, <1>2 DEF Consume, TypeOK, Peer
  <2> QED
    BY <1>2, <2>1 DEF SendsNoData
<1>3. CASE e = "client"
  <2>1. net'["server"] = net["server"] \o replies
    BY <1>1, <1>3 DEF Consume, TypeOK, Peer
  <2> QED
    BY <1>3, <2>1 DEF SendsNoData
<1> QED
  BY <1>1, <1>2, <1>3

LEMMA ClosedSendsNoData ==
  ASSUME TypeInv, ~ IsEstablished(conn["client"]), [Next]_vars
  PROVE  SendsNoData
<1> DEFINE client == conn["client"]
           server == conn["server"]
<1> USE DEF sessionVars, historyVars, timerVars
<1>1. /\ TypeOK /\ TypeOK' /\ "server" \in Endpoint /\ "client" \in Endpoint
      /\ client \in Connection /\ server \in Connection
      /\ conn'["client"] \in Connection /\ conn'["server"] \in Connection
  <2>1. TypeOK /\ TypeOK' /\ "server" \in Endpoint /\ "client" \in Endpoint
    BY NextTypeInv DEF TypeInv, Endpoint
  <2> QED
    BY <2>1 DEF TypeOK
<1>2. CASE net' = net
  BY <1>2 DEF SendsNoData
<1>3. ASSUME NEW e \in Endpoint, NEW c \in Connection, NEW ok \in BOOLEAN,
             NEW p \in {BuildSyn(c), BuildAck(c), BuildFin(c)}, Transmit(e, p, ok)
      PROVE  SendsNoData
  <2>1. p \in Segment
    BY <1>3, BuildType
  <2>2. p.type # "DATA"
    BY <1>3 DEF BuildSyn, BuildAck, BuildFin
  <2> QED
    BY <1>1, <1>3, <2>1, <2>2, TransmitsNoData
<1>4. ASSUME NEW i \in DOMAIN net["server"], NEW replies \in Seq(Segment),
             Consume("server", i, replies)
      PROVE  SendsNoData
  BY <1>1, <1>4, ConsumesNoData
<1>5. ASSUME NEW i \in DOMAIN net["client"], NEW c \in Connection, NEW d \in Connection,
             NEW ackOk \in BOOLEAN, NEW finOk \in BOOLEAN,
             NEW replies \in {<<>>, Taken(BuildAck(c), ackOk),
                              Taken(BuildAck(c), ackOk) \o Taken(BuildFin(d), finOk)},
             Consume("client", i, replies)
      PROVE  SendsNoData
  <2>1. /\ BuildAck(c) \in Segment /\ BuildAck(c).type = "ACK"
        /\ BuildFin(d) \in Segment /\ BuildFin(d).type = "FIN"
    BY BuildType DEF BuildAck, BuildFin
  <2> HIDE DEF BuildAck, BuildFin
  <2>2. <<>> \in Seq(Segment) /\ Without(<<>>, "DATA")
    BY DEF Without, Range
  <2>3. /\ Taken(BuildAck(c), ackOk) \in Seq(Segment)
        /\ Without(Taken(BuildAck(c), ackOk), "DATA")
    BY <2>1, TakenPackets
  <2>4. /\ Taken(BuildAck(c), ackOk) \o Taken(BuildFin(d), finOk) \in Seq(Segment)
        /\ Without(Taken(BuildAck(c), ackOk) \o Taken(BuildFin(d), finOk), "DATA")
    BY <2>1, FinReplies DEF Without
  <2>5. replies \in Seq(Segment) /\ Without(replies, "DATA")
    BY <2>2, <2>3, <2>4
  <2> QED
    BY <1>1, <1>5, <2>5, ConsumesNoData
<1>6. CASE RunDueEvent
  <2>1. CASE HandshakeEvent
    <3>1. \E isn \in ClientISNs, ok \in BOOLEAN :
            /\ conn'["client"] = SendSyn(client, isn)
            /\ Transmit("server", BuildSyn(SendSyn(client, isn)), ok)
      BY <1>1, <2>1 DEF HandshakeEvent, TypeOK
    <3>2. \E ok \in BOOLEAN : Transmit("server", BuildSyn(conn'["client"]), ok)
      BY <3>1
    <3> QED
      BY <1>1, <1>3, <3>2
  <2>2. CASE ~ HandshakeEvent
    <3>1. net' = net
      BY <1>6, <2>2
         DEF RunDueEvent, GenerationEnds, PacketGeneration, BothEstablished,
             Endpoint, Retransmission, FastRetransmit, Resendable, ConnectionClose
    <3> QED
      BY <1>2, <3>1
  <2> QED
    BY <2>1, <2>2
<1>7. CASE ReceiveAtServer
  <2>1. PICK i \in DOMAIN net["server"] : \E replies : Consume("server", i, replies)
    BY <1>7
       DEF ReceiveAtServer, ReceiveSynPacket, ReceiveAckPacket, ReceiveDataRejected,
           ReceiveDataAcked, ReceiveDataDelayed, ReceiveFinPacket
  <2>2. net'["server"] = RemoveAt(net["server"], i)
    BY <1>1, <2>1 DEF Consume, TypeOK, Peer
  <2> QED
    BY <2>2 DEF SendsNoData
<1>8. CASE ReceiveAtClient
  <2>1. PICK i \in DOMAIN net["client"] :
          ReceiveSynAckPacket(i) \/ ReceiveAckPacket("client", i)
            \/ ReceiveFinPacket("client", i)
    BY <1>8 DEF ReceiveAtClient
  <2>2. CASE ReceiveSynAckPacket(i)
    BY <1>1, <1>5, <2>2 DEF ReceiveSynAckPacket
  <2>3. CASE ReceiveAckPacket("client", i)
    BY <1>1, <1>5, <2>3 DEF ReceiveAckPacket
  <2>4. CASE ReceiveFinPacket("client", i)
    <3> DEFINE received == ReceiveFin(client, net["client"][i].seq)
               after == IF received.state = "CLOSE_WAIT" THEN SendFin(received)
                                                        ELSE received
    <3>1. CASE Consume("client", i, <<>>)
      BY <1>1, <1>5, <3>1
    <3>2. CASE ~ Consume("client", i, <<>>)
      <4>1. Accepts(OnPeerFin, client.state)
        BY <2>4, <3>2 DEF ReceiveFinPacket
      <4>2. net["client"][i].seq \in SeqNumber
        BY <1>1, <2>4, ArrivesType DEF ReceiveFinPacket
      <4>3. received \in Connection
        BY <1>1, <4>1, <4>2, ReceiveFinType
      <4>4. after = conn'["client"]
        BY <1>1, <2>4, <3>2 DEF ReceiveFinPacket, TypeOK
      <4>5. \E ackOk \in BOOLEAN, finOk \in BOOLEAN :
              Consume("client", i, Taken(BuildAck(received), ackOk)
                                     \o Taken(BuildFin(after), finOk))
        BY <2>4, <3>2 DEF ReceiveFinPacket
      <4> HIDE DEF received, after
      <4> QED
        BY <1>1, <1>5, <4>3, <4>4, <4>5
    <3> QED
      BY <3>1, <3>2
  <2> QED
    BY <2>1, <2>2, <2>3, <2>4
<1>9. CASE FireTimer
  <2>1. CASE HandshakeTimeout
    BY <1>1, <1>3, <2>1 DEF HandshakeTimeout
  <2>2. ASSUME NEW a, DelayedAckSent(a)
        PROVE  SendsNoData
    BY <1>1, <1>3, <2>2 DEF DelayedAckSent
  <2>3. CASE net' = net
    BY <1>2, <2>3
  <2> QED
    BY <1>9, <2>1, <2>2, <2>3
       DEF FireTimer, HandshakeTimeoutIgnored, TimeWaitTimeout, Timeout,
           DelayedAckIgnored, DelayedAckObsolete
<1>10. CASE Lose
  <2>1. PICK e \in Endpoint : \E i \in DOMAIN net[e] : LoseInTransit(e, i)
    BY <1>10 DEF Lose
  <2>2. CASE e = "server"
    BY <1>1, <2>1, <2>2 DEF LoseInTransit, SendsNoData, TypeOK
  <2>3. CASE e # "server"
    BY <1>1, <2>1, <2>3 DEF LoseInTransit, SendsNoData, TypeOK
  <2> QED
    BY <2>2, <2>3
<1>11. CASE UNCHANGED vars
  BY <1>2, <1>11 DEF vars
<1> QED
  BY <1>6, <1>7, <1>8, <1>9, <1>10, <1>11 DEF Next

(***************************************************************************)
(* No DATA leaves the client once it has left ESTABLISHED, whatever events *)
(* are still queued then (the isEstablished tests of PacketGenerationEvent,*)
(* TCPRetransmissionEvent and TCPFastRetransmitEvent).                     *)
(***************************************************************************)
THEOREM NothingSentAfterClose == Spec => NoDataAfterClose
<1>1. TypeInv /\ [Next]_vars
        => [~ IsEstablished(conn["client"])
              => Cardinality(DataToServer') <= Cardinality(DataToServer)]_vars
  BY ClosedSendsNoData, SendsNoDataCounts DEF TypeInv
<1> QED
  BY <1>1, TypeInvariance, PTL DEF Spec, NoDataAfterClose

-----------------------------------------------------------------------------
(* Routes that keep order: what is behind what on the way to the server. *)

OnlyAcks(q) == \A i \in DOMAIN q : q[i].type = "ACK"

OnlyAcksBehindFin(q) ==
  \A i, j \in DOMAIN q : q[i].type = "FIN" /\ i < j => q[j].type = "ACK"

\* The i-th packet is DATA at position k of the stream.
Carries(q, i, first, k) == q[i].type = "DATA" /\ Offset(first, q[i].seq) = k

\* The segments from next up to sent are on their way, each behind the one
\* before it.
InOrder(q, first, next, sent) ==
  /\ \A k \in next .. sent - 1 : \E i \in DOMAIN q : Carries(q, i, first, k)
  /\ \A i \in DOMAIN q : \A k \in Nat : k > next /\ Carries(q, i, first, k)
       => \E j \in DOMAIN q : j < i /\ Carries(q, j, first, k - 1)

LEMMA OrderRemoved ==
  ASSUME NEW q \in Seq(Segment), NEW i \in DOMAIN q
  PROVE  /\ OnlyAcks(q) => OnlyAcks(RemoveAt(q, i))
         /\ OnlyAcksBehindFin(q) => OnlyAcksBehindFin(RemoveAt(q, i))
         /\ OnlyAcksBehindFin(q) /\ q[1].type = "FIN" => OnlyAcks(RemoveAt(q, 1))
<1> DEFINE r == RemoveAt(q, i)
           was(k) == IF k < i THEN k ELSE k + 1
<1>1. i \in 1 .. Len(q) /\ Len(q) \in Nat /\ DOMAIN q = 1 .. Len(q)
  BY LenProperties
<1>2. DOMAIN r = 1 .. Len(q) - 1 /\ \A k \in DOMAIN r : r[k] = q[was(k)]
  BY RemoveAtProperties
<1>3. /\ \A k \in DOMAIN r : was(k) \in DOMAIN q
      /\ \A k, l \in DOMAIN r : k < l => was(k) < was(l)
  BY <1>1, <1>2
<1>4. OnlyAcksBehindFin(q) /\ q[1].type = "FIN" => OnlyAcks(RemoveAt(q, 1))
  <2>1. /\ DOMAIN RemoveAt(q, 1) = 1 .. Len(q) - 1
        /\ \A k \in 1 .. Len(q) - 1 :
             RemoveAt(q, 1)[k] = q[IF k < 1 THEN k ELSE k + 1]
    BY SMTT(40), <1>1, RemoveAtProperties
  <2>2. 1 \in DOMAIN q
    BY <1>1
  <2>3. \A k \in 1 .. Len(q) - 1 : k + 1 \in DOMAIN q /\ 1 < k + 1 /\ ~ k < 1
    BY <1>1
  <2>4. \A k \in 1 .. Len(q) - 1 : RemoveAt(q, 1)[k] = q[k + 1]
    BY <2>1, <2>3
  <2> QED
    BY <2>1, <2>2, <2>3, <2>4 DEF OnlyAcks, OnlyAcksBehindFin
<1> HIDE DEF r, was
<1>5. OnlyAcks(q) => OnlyAcks(r)
  BY <1>2, <1>3 DEF OnlyAcks
<1>6. OnlyAcksBehindFin(q) => OnlyAcksBehindFin(r)
  BY <1>2, <1>3 DEF OnlyAcksBehindFin
<1> QED
  BY <1>4, <1>5, <1>6 DEF r

\* The first packet has arrived; if it was DATA the server has got past it.
LEMMA InOrderArrived ==
  ASSUME NEW q \in Seq(Segment), 1 \in DOMAIN q,
         NEW first, NEW next \in Nat, NEW after \in Nat, NEW sent \in Nat,
         InOrder(q, first, next, sent), next <= after,
         \A k \in Nat : Carries(q, 1, first, k) => k < after
  PROVE  InOrder(RemoveAt(q, 1), first, after, sent)
<1> DEFINE r == RemoveAt(q, 1)
<1>1. DOMAIN q = 1 .. Len(q) /\ Len(q) \in Nat
  BY LenProperties
<1>2. DOMAIN r = 1 .. Len(q) - 1 /\ \A l \in 1 .. Len(q) - 1 : r[l] = q[l + 1]
  <2>1. /\ DOMAIN r = 1 .. Len(q) - 1
        /\ \A l \in 1 .. Len(q) - 1 : r[l] = q[IF l < 1 THEN l ELSE l + 1]
    BY RemoveAtProperties
  <2>2. \A l \in 1 .. Len(q) - 1 : ~ l < 1
    BY <1>1
  <2> QED
    BY <2>1, <2>2
<1> HIDE DEF r
<1>3. ASSUME NEW k \in Nat, k >= after, NEW i \in DOMAIN q, Carries(q, i, first, k)
      PROVE  i - 1 \in DOMAIN r /\ Carries(r, i - 1, first, k)
  <2>1. i # 1
    BY <1>3
  <2>2. i - 1 \in 1 .. Len(q) - 1 /\ i - 1 + 1 = i
    BY <1>1, <2>1
  <2> QED
    BY <1>2, <1>3, <2>2 DEF Carries
<1>4. ASSUME NEW k \in after .. sent - 1
      PROVE  \E i \in DOMAIN r : Carries(r, i, first, k)
  <2>1. k \in next .. sent - 1 /\ k \in Nat /\ k >= after
    OBVIOUS
  <2> QED
    BY <1>3, <2>1 DEF InOrder
<1>5. ASSUME NEW i \in DOMAIN r, NEW k \in Nat, k > after, Carries(r, i, first, k)
      PROVE  \E j \in DOMAIN r : j < i /\ Carries(r, j, first, k - 1)
  <2>1. i + 1 \in DOMAIN q /\ Carries(q, i + 1, first, k)
    BY <1>1, <1>2, <1>5 DEF Carries
  <2>2. k > next
    BY <1>5
  <2>3. PICK j \in DOMAIN q : j < i + 1 /\ Carries(q, j, first, k - 1)
    BY <2>1, <2>2 DEF InOrder
  <2>4. k - 1 \in Nat /\ k - 1 >= after
    BY <1>5
  <2>5. j - 1 \in DOMAIN r /\ Carries(r, j - 1, first, k - 1)
    BY <1>3, <2>3, <2>4
  <2>6. j - 1 < i
    BY <1>1, <1>2, <2>3
  <2> QED
    BY <2>5, <2>6
<1> QED
  BY <1>4, <1>5 DEF InOrder, r

LEMMA PacketAppended ==
  ASSUME NEW q \in Seq(Segment), NEW p \in Segment
  PROVE  /\ DOMAIN (q \o <<p>>) = 1 .. Len(q) + 1 /\ DOMAIN q = 1 .. Len(q)
         /\ Len(q) \in Nat
         /\ \A k \in DOMAIN q : (q \o <<p>>)[k] = q[k]
         /\ (q \o <<p>>)[Len(q) + 1] = p
<1> DEFINE t == <<p>>
<1>1. t \in Seq(Segment) /\ Len(t) = 1 /\ t[1] = p
  OBVIOUS
<1> HIDE DEF t
<1>2. /\ q \o t \in Seq(Segment) /\ Len(q \o t) = Len(q) + Len(t)
      /\ \A k \in 1 .. Len(q) + Len(t) :
           (q \o t)[k] = IF k <= Len(q) THEN q[k] ELSE t[k - Len(q)]
  BY <1>1, ConcatProperties
<1>3. /\ DOMAIN q = 1 .. Len(q) /\ Len(q) \in Nat
      /\ DOMAIN (q \o t) = 1 .. Len(q \o t)
  BY <1>2, LenProperties
<1>4. DOMAIN (q \o t) = 1 .. Len(q) + 1
  BY <1>1, <1>2, <1>3
<1>5. ASSUME NEW k \in DOMAIN q PROVE (q \o t)[k] = q[k]
  <2>1. k \in 1 .. Len(q) + Len(t) /\ k <= Len(q)
    BY <1>1, <1>3
  <2> QED
    BY <1>2, <2>1
<1>6. (q \o t)[Len(q) + 1] = p
  <2>1. /\ Len(q) + 1 \in 1 .. Len(q) + Len(t) /\ ~ Len(q) + 1 <= Len(q)
        /\ Len(q) + 1 - Len(q) = 1
    BY <1>1, <1>3
  <2> QED
    BY <1>1, <1>2, <2>1
<1> QED
  BY <1>3, <1>4, <1>5, <1>6 DEF t

\* A segment leaves for the server, if the first hop takes it.
LEMMA OrderAppended ==
  ASSUME NEW q \in Seq(Segment), NEW p \in Segment, NEW ok \in BOOLEAN
  PROVE  LET r == q \o Taken(p, ok)
         IN  /\ OnlyAcks(q) /\ p.type = "ACK" => OnlyAcks(r)
             /\ OnlyAcksBehindFin(q) /\ (p.type = "ACK" \/ Without(q, "FIN"))
                  => OnlyAcksBehindFin(r)
<1> DEFINE n == Len(q) + 1
           s == q \o <<p>>
<1>1. CASE ~ ok
  BY <1>1, ConcatEmptySeq DEF Taken
<1>2. CASE ok
  <2>1. /\ DOMAIN s = 1 .. n /\ DOMAIN q = 1 .. n - 1 /\ n \in Nat /\ n >= 1
        /\ \A k \in DOMAIN q : s[k] = q[k]
        /\ s[n] = p
    BY PacketAppended
  <2> HIDE DEF s, n
  <2>2. ASSUME OnlyAcks(q), p.type = "ACK" PROVE OnlyAcks(s)
    BY <2>1, <2>2 DEF OnlyAcks
  <2>3. ASSUME OnlyAcksBehindFin(q), p.type = "ACK" \/ Without(q, "FIN")
        PROVE  OnlyAcksBehindFin(s)
    <3> SUFFICES ASSUME NEW i \in DOMAIN s, NEW j \in DOMAIN s,
                        s[i].type = "FIN", i < j
                 PROVE  s[j].type = "ACK"
      BY DEF OnlyAcksBehindFin
    <3>1. i \in DOMAIN q /\ s[i] = q[i]
      BY <2>1
    <3>2. CASE j \in DOMAIN q
      BY <2>1, <2>3, <3>1, <3>2 DEF OnlyAcksBehindFin
    <3>3. CASE j \notin DOMAIN q
      <4>1. j = n /\ ~ Without(q, "FIN")
        BY <2>1, <3>1, <3>3 DEF Without, Range
      <4> QED
        BY <2>1, <2>3, <4>1
    <3> QED
      BY <3>2, <3>3
  <2> QED
    BY <1>2, <2>2, <2>3 DEF Taken, s
<1> QED
  BY <1>1, <1>2

\* DATA sent again is behind the first copy; new DATA is behind all the rest.
LEMMA InOrderAppended ==
  ASSUME NEW q \in Seq(Segment), NEW p \in Segment,
         NEW first, NEW next \in Nat, NEW sent \in Nat, NEW after \in {sent, sent + 1},
         InOrder(q, first, next, sent),
         \A k \in Nat : p.type = "DATA" /\ Offset(first, p.seq) = k => k <= sent /\ k < after,
         after = sent + 1 => p.type = "DATA" /\ Offset(first, p.seq) = sent
  PROVE  InOrder(q \o <<p>>, first, next, after)
<1> DEFINE n == Len(q) + 1
           s == q \o <<p>>
<1>1. /\ DOMAIN s = 1 .. n /\ DOMAIN q = 1 .. n - 1 /\ n \in Nat /\ n >= 1
      /\ \A k \in DOMAIN q : s[k] = q[k]
      /\ s[n] = p
  BY PacketAppended
<1> HIDE DEF s, n
<1>2. \A i \in DOMAIN q : i \in DOMAIN s /\ i < n
        /\ \A k : Carries(s, i, first, k) <=> Carries(q, i, first, k)
  BY <1>1 DEF Carries
<1>3. ASSUME NEW k \in next .. after - 1
      PROVE  \E i \in DOMAIN s : Carries(s, i, first, k)
  <2>1. CASE k \in next .. sent - 1
    BY <1>2, <2>1 DEF InOrder
  <2>2. CASE k \notin next .. sent - 1
    <3>1. k = sent /\ after = sent + 1
      BY <2>2
    <3>2. n \in DOMAIN s /\ Carries(s, n, first, k)
      BY <1>1, <3>1 DEF Carries
    <3> QED
      BY <3>2
  <2> QED
    BY <2>1, <2>2
<1>4. ASSUME NEW i \in DOMAIN s, NEW k \in Nat, k > next, Carries(s, i, first, k)
      PROVE  \E j \in DOMAIN s : j < i /\ Carries(s, j, first, k - 1)
  <2>1. CASE i \in DOMAIN q
    BY <1>2, <1>4, <2>1 DEF InOrder
  <2>2. CASE i \notin DOMAIN q
    <3>1. i = n
      BY <1>1, <2>2
    <3>2. k <= sent
      BY <1>1, <1>4, <3>1 DEF Carries
    <3>3. k - 1 \in next .. sent - 1
      BY <1>4, <3>2
    <3>4. PICK j \in DOMAIN q : Carries(q, j, first, k - 1)
      BY <3>3 DEF InOrder
    <3> QED
      BY <1>2, <3>1, <3>4
  <2> QED
    BY <2>1, <2>2
<1> QED
  BY <1>3, <1>4 DEF InOrder, s

-----------------------------------------------------------------------------
(* Routes that keep order: what the steps do to the stream. *)

\* The stream fits into the receive buffer, and nothing has failed so far.
RoomForAll == ReceiveWindow >= PacketsPerRoute

Smooth == losses + refusals = 0 /\ RoomForAll

OrderInv ==
  LET server == conn["server"] IN
  IF generated
    THEN /\ server.seq # 0 /\ server.state # "SYN_RECEIVED"
         /\ OnlyAcksBehindFin(net["server"])
         /\ ~ IsEstablished(server) => OnlyAcks(net["server"])
         /\ IsEstablished(server) /\ Smooth =>
              InOrder(net["server"], FirstNumber, Position(server.expected),
                      packetsSent)
    ELSE server.seq = 0

StreamKept ==
  conn'["client"].seq = conn["client"].seq /\ packetsSent' = packetsSent

ServerKept ==
  /\ conn'["server"].state = conn["server"].state
  /\ conn'["server"].seq = conn["server"].seq
  /\ conn'["server"].expected = conn["server"].expected
  /\ arrived' = arrived

\* The client sends what it may, or only changes its state.
ClientActs ==
  /\ StreamKept /\ ServerKept
  /\ conn'["client"].una = conn["client"].una
  /\ IsEstablished(conn'["client"]) => IsEstablished(conn["client"])
  /\ \/ net'["server"] = net["server"]
     \/ \E p \in Segment, ok \in BOOLEAN :
          /\ net'["server"] = net["server"] \o Taken(p, ok)
          /\ \/ p.type = "ACK"
             \/ p.type = "FIN" /\ IsEstablished(conn["client"])
             \/ /\ p.type = "DATA" /\ IsEstablished(conn["client"])
                /\ Position(p.seq) < packetsSent

ClientLearns ==
  /\ StreamKept /\ ServerKept /\ net'["server"] = net["server"]
  /\ IsEstablished(conn["client"]) /\ IsEstablished(conn'["client"])
  /\ AckAdvances(conn["client"], conn'["client"].una)

ServerTakes(type) ==
  /\ StreamKept /\ conn'["client"] = conn["client"]
  /\ 1 \in DOMAIN net["server"] /\ net["server"][1].type = type
  /\ net'["server"] = RemoveAt(net["server"], 1)
  /\ conn'["server"].seq = conn["server"].seq

ServerIgnores ==
  /\ ServerKept
  /\ \E type : ServerTakes(type)
  /\ net["server"][1].type = "DATA"
       => ~ AcceptsData(conn["server"], net["server"][1].seq)

ServerReceives ==
  LET s == net["server"][1].seq IN
  /\ ServerTakes("DATA")
  /\ AcceptsData(conn["server"], s)
  /\ conn'["server"].state = conn["server"].state
  /\ conn'["server"].expected = ReceiveData(conn["server"], s).expected
  /\ arrived' = arrived \union {s}

ServerEnds ==
  /\ ServerTakes("FIN") /\ arrived' = arrived
  /\ IsEstablished(conn["server"]) /\ conn'["server"].state = "LAST_ACK"

ServerCloses ==
  /\ ServerTakes("ACK") /\ arrived' = arrived
  /\ conn["server"].state = "LAST_ACK" /\ conn'["server"].state = "CLOSED"

PacketLost ==
  /\ StreamKept /\ ServerKept /\ conn' = conn
  /\ losses' > losses
  /\ \/ net'["server"] = net["server"]
     \/ \E i \in DOMAIN net["server"] :
          net'["server"] = RemoveAt(net["server"], i)

\* Losses and refusals are only ever counted.
FaultsKept == Smooth' => Smooth

StreamStep ==
  \/ ClientActs \/ ClientLearns \/ PacketGeneration \/ PacketLost
  \/ ServerIgnores \/ ServerReceives \/ ServerEnds \/ ServerCloses

LEMMA FaultsCounted ==
  ASSUME TypeOK, TypeOK', [Next]_vars
  PROVE  FaultsKept
<1>1. /\ losses \in Nat /\ refusals \in Nat /\ losses' \in Nat /\ refusals' \in Nat
  BY SMTT(40), SessionAssumption DEF TypeOK
<1>2. losses' = losses \/ losses' = losses + 1
  BY DEF Next, RunDueEvent, ReceiveAtServer, ReceiveAtClient, FireTimer, Lose,
         HandshakeEvent, GenerationEnds, PacketGeneration, Retransmission,
         FastRetransmit, ConnectionClose, ReceiveSynPacket, ReceiveSynAckPacket,
         ReceiveAckPacket, ReceiveDataRejected, ReceiveDataAcked,
         ReceiveDataDelayed, ReceiveFinPacket, HandshakeTimeoutIgnored,
         HandshakeTimeout, TimeWaitTimeout, Timeout, DelayedAckIgnored,
         DelayedAckObsolete, DelayedAckSent, LoseInTransit, vars
<1>3. refusals' = refusals \/ \E n \in Nat : Refuse(n)
  <2>1. CASE RunDueEvent
    BY <2>1
       DEF RunDueEvent, HandshakeEvent, GenerationEnds, PacketGeneration,
           Retransmission, FastRetransmit, ConnectionClose, Resend, GiveUp, Transmit
  <2>2. CASE ReceiveAtServer \/ ReceiveAtClient
    <3>1. CASE \E e, i : ReceiveFinPacket(e, i)
      <4>1. PICK e, i : ReceiveFinPacket(e, i)
        BY <3>1
      <4>2. \/ refusals' = refusals
            \/ \E ackOk \in BOOLEAN, finOk \in BOOLEAN, answers \in BOOLEAN :
                 Refuse((IF ackOk THEN 0 ELSE 1)
                        + (IF answers /\ ~ finOk THEN 1 ELSE 0))
        BY <4>1 DEF ReceiveFinPacket
      <4>3. \A ackOk \in BOOLEAN, finOk \in BOOLEAN, answers \in BOOLEAN :
              (IF ackOk THEN 0 ELSE 1) + (IF answers /\ ~ finOk THEN 1 ELSE 0) \in Nat
        OBVIOUS
      <4> QED
        BY <4>2, <4>3
    <3>2. CASE ~ \E e, i : ReceiveFinPacket(e, i)
      BY <2>2, <3>2
         DEF ReceiveAtServer, ReceiveAtClient, ReceiveSynPacket, ReceiveSynAckPacket,
             ReceiveAckPacket, ReceiveDataRejected, ReceiveDataAcked,
             ReceiveDataDelayed
    <3> QED
      BY <3>1, <3>2
  <2>3. CASE FireTimer \/ Lose \/ UNCHANGED vars
    BY <2>3
       DEF FireTimer, Lose, HandshakeTimeoutIgnored, HandshakeTimeout,
           TimeWaitTimeout, Timeout, DelayedAckIgnored, DelayedAckObsolete,
           DelayedAckSent, LoseInTransit, vars, Transmit
  <2> QED
    BY <2>1, <2>2, <2>3 DEF Next
<1> QED
  <2>1. losses' >= losses
    BY <1>1, <1>2
  <2>2. refusals' >= refusals
    BY <1>1, <1>3 DEF Refuse
  <2>3. \A a, b, c, d \in Nat : c >= a /\ d >= b /\ c + d = 0 => a + b = 0
    OBVIOUS
  <2> QED
    BY <1>1, <2>1, <2>2, <2>3 DEF FaultsKept, Smooth

\* The events of the client, and its timers.
LEMMA ClientStreamStep ==
  ASSUME SessionInv, Flow, OrderInv, generated,
         RunDueEvent \/ FireTimer \/ UNCHANGED vars
  PROVE  generated' /\ (ClientActs \/ PacketGeneration)
<1> DEFINE server == conn["server"]
           client == conn["client"]
<1> USE DEF sessionVars, historyVars, timerVars
<1>1. /\ TypeOK /\ "server" \in Endpoint /\ "client" \in Endpoint
      /\ client \in Connection /\ server \in Connection
      /\ client.state # "SYN_SENT"
      /\ net["server"] \in Seq(Segment)
  <2>1. TypeOK /\ "server" \in Endpoint /\ "client" \in Endpoint
    BY DEF SessionInv, TimerInv, TypeInv, Endpoint
  <2> QED
    BY <2>1 DEF TypeOK, Flow
<1>2. ASSUME conn' = conn, packetsSent' = packetsSent, arrived' = arrived,
             net'["server"] = net["server"]
      PROVE  ClientActs
  BY <1>2 DEF ClientActs, StreamKept, ServerKept
<1>3. ASSUME conn' = [conn EXCEPT !["client"] = FailRetransmission(client)],
             packetsSent' = packetsSent, arrived' = arrived, net' = net
      PROVE  ClientActs
  <2>1. conn'["client"] = FailRetransmission(client) /\ conn'["server"] = server
    BY <1>1, <1>3 DEF TypeOK
  <2>2. /\ conn'["client"].seq = client.seq /\ conn'["client"].una = client.una
        /\ conn'["client"].state \in {client.state, "CLOSED"}
    BY <1>1, <2>1, FailureKeepsNumbers
  <2> QED
    BY <1>3, <2>1, <2>2 DEF ClientActs, StreamKept, ServerKept, IsEstablished
<1>4. CASE RunDueEvent
  <2>1. ~ HandshakeEvent
    <3>1. SUFFICES ASSUME Due("handshake") PROVE FALSE
      BY DEF HandshakeEvent
    <3>2. due \in Seq(DueEvent) /\ due # <<>>
      BY <1>1, <3>1 DEF TypeOK, Due
    <3>3. Head(due) = due[1] /\ 1 \in DOMAIN due
      BY <3>2, HeadTailProperties, LenProperties, EmptySeq
    <3> QED
      BY <3>1, <3>3 DEF Flow, HandshakeDone, Due
  <2>2. CASE PacketGeneration
    BY <2>2 DEF PacketGeneration
  <2>3. CASE GenerationEnds
    <3>1. /\ conn' = conn /\ packetsSent' = packetsSent /\ arrived' = arrived
          /\ generated' = generated
          /\ net' = net \/ \E p : Transmit("server", p, FALSE)
      BY <2>3 DEF GenerationEnds
    <3>2. net["server"] \o <<>> = net["server"]
      BY <1>1, ConcatEmptySeq
    <3>3. net'["server"] = net["server"]
      BY <1>1, <3>1, <3>2 DEF Transmit, Taken, TypeOK
    <3> QED
      BY <1>2, <3>1, <3>3
  <2>4. CASE ConnectionClose
    <3>1. CASE ~ IsEstablished(client)
      BY <1>2, <2>4, <3>1 DEF ConnectionClose
    <3>2. CASE IsEstablished(client)
      <4>1. PICK ok \in BOOLEAN :
              /\ conn' = [conn EXCEPT !["client"] = SendFin(client)]
              /\ Transmit("server", BuildFin(client), ok)
        BY <2>4, <3>2 DEF ConnectionClose
      <4>2. conn'["client"] = SendFin(client) /\ conn'["server"] = server
        BY <1>1, <4>1 DEF TypeOK
      <4>3. /\ conn'["client"].seq = client.seq /\ conn'["client"].una = client.una
        BY <1>1, <4>2 DEF SendFin, Connection
      <4>4. BuildFin(client) \in Segment /\ BuildFin(client).type = "FIN"
        BY <1>1, BuildType DEF BuildFin
      <4>5. net'["server"] = net["server"] \o Taken(BuildFin(client), ok)
        BY <1>1, <4>1 DEF Transmit, TypeOK
      <4>6. packetsSent' = packetsSent /\ arrived' = arrived /\ generated' = generated
        BY <2>4 DEF ConnectionClose
      <4> QED
        BY <3>2, <4>2, <4>3, <4>4, <4>5, <4>6 DEF ClientActs, StreamKept, ServerKept
    <3> QED
      BY <2>4, <3>1, <3>2 DEF ConnectionClose
  <2>5. CASE Retransmission \/ FastRetransmit
    <3>1. /\ packetsSent' = packetsSent /\ arrived' = arrived
          /\ generated' = generated
      BY <2>5 DEF Retransmission, FastRetransmit
    <3>2. ASSUME NEW s, IsEstablished(client), HasOutstandingSegment(client, s), Resend(s)
          PROVE  ClientActs
      <4>1. s \in SeqNumber /\ Position(s) < packetsSent
        BY <3>2, OutstandingPosition
      <4> DEFINE data == BuildData(client, s)
      <4>2. PICK ok \in BOOLEAN :
              /\ conn' = [conn EXCEPT !["client"] = MarkSegmentRetransmitted(client, s)]
              /\ Transmit("server", data, ok)
        BY <3>2 DEF Resend
      <4>3. /\ conn'["client"] = MarkSegmentRetransmitted(client, s)
            /\ conn'["server"] = server
        BY <1>1, <4>2 DEF TypeOK
      <4>4. conn'["client"].seq = client.seq /\ conn'["client"].una = client.una
        BY <1>1, <4>3 DEF MarkSegmentRetransmitted, Connection
      <4>5. data \in Segment /\ data.type = "DATA" /\ data.seq = s
        BY <1>1, <4>1, BuildType DEF BuildData
      <4> HIDE DEF data
      <4>6. net'["server"] = net["server"] \o Taken(data, ok)
        BY <1>1, <4>2 DEF Transmit, TypeOK
      <4> QED
        BY <3>1, <3>2, <4>1, <4>3, <4>4, <4>5, <4>6 DEF ClientActs, StreamKept, ServerKept
    <3>3. HasOutstanding(client) => HasOutstandingSegment(client, OldestOutstanding(client))
      BY <1>1, OldestOutstandingType DEF HasOutstandingSegment
    <3>4. CASE Retransmission
      BY <1>2, <1>3, <3>1, <3>2, <3>4 DEF Retransmission, Resendable, GiveUp
    <3>5. CASE FastRetransmit
      BY <1>2, <1>3, <3>1, <3>2, <3>3, <3>5 DEF FastRetransmit, GiveUp
    <3> QED
      BY <2>5, <3>1, <3>4, <3>5
  <2> QED
    BY <1>4, <2>1, <2>2, <2>3, <2>4, <2>5 DEF RunDueEvent
<1>5. CASE FireTimer
  <2>1. /\ packetsSent' = packetsSent /\ arrived' = arrived /\ generated' = generated
    BY <1>5
       DEF FireTimer, HandshakeTimeoutIgnored, HandshakeTimeout, TimeWaitTimeout,
           Timeout, DelayedAckIgnored, DelayedAckObsolete, DelayedAckSent
  <2>2. ~ HandshakeTimeout
    BY <1>1 DEF HandshakeTimeout, AwaitsSynAck
  <2>3. CASE HandshakeTimeoutIgnored
    BY <1>2, <2>1, <2>3 DEF HandshakeTimeoutIgnored
  <2>4. CASE TimeWaitTimeout
    <3>1. CASE conn' = conn
      BY <1>2, <2>1, <2>4, <3>1 DEF TimeWaitTimeout
    <3>2. CASE conn' # conn
      <4>1. /\ Accepts(OnTimeWaitDone, client.state) /\ net' = net
            /\ conn' = [conn EXCEPT !["client"] = ExpireTimeWait(client)]
        BY <2>4, <3>2 DEF TimeWaitTimeout
      <4>2. conn'["client"] = ExpireTimeWait(client) /\ conn'["server"] = server
        BY <1>1, <4>1 DEF TypeOK
      <4>3. client.state = "TIME_WAIT"
        BY <4>1 DEF Accepts, OnTimeWaitDone
      <4>4. /\ conn'["client"].seq = client.seq /\ conn'["client"].una = client.una
            /\ conn'["client"].state = "CLOSED"
        BY <1>1, <4>2, <4>3 DEF ExpireTimeWait, OnTimeWaitDone, Connection
      <4> QED
        BY <2>1, <4>1, <4>2, <4>4 DEF ClientActs, StreamKept, ServerKept, IsEstablished
    <3> QED
      BY <3>1, <3>2
  <2>5. ASSUME NEW s \in SeqNumber, Timeout(s)
        PROVE  ClientActs
    BY <1>2, <1>3, <2>1, <2>5 DEF Timeout
  <2>6. ASSUME NEW a \in SeqNumber,
               DelayedAckIgnored(a) \/ DelayedAckObsolete(a) \/ DelayedAckSent(a)
        PROVE  ClientActs
    <3>1. CASE conn' = conn /\ net' = net
      BY <1>2, <2>1, <3>1
    <3>2. CASE conn' = [conn EXCEPT !["server"].delayedAck = FALSE]
      <4>1. conn'["client"] = client /\ conn'["server"] = [server EXCEPT !.delayedAck = FALSE]
        BY <1>1, <3>2 DEF TypeOK
      <4>2. /\ conn'["server"].state = server.state /\ conn'["server"].seq = server.seq
            /\ conn'["server"].expected = server.expected
        BY <1>1, <4>1 DEF Connection
      <4>3. net'["server"] = net["server"]
        BY <1>1, <2>6
           DEF DelayedAckIgnored, DelayedAckObsolete, DelayedAckSent, Transmit, TypeOK
      <4> QED
        BY <2>1, <4>1, <4>2, <4>3 DEF ClientActs, StreamKept, ServerKept
    <3> QED
      BY <2>6, <3>1, <3>2 DEF DelayedAckIgnored, DelayedAckObsolete, DelayedAckSent
  <2> QED
    BY <1>5, <2>1, <2>2, <2>3, <2>4, <2>5, <2>6 DEF FireTimer
<1>6. CASE UNCHANGED vars
  BY <1>2, <1>6 DEF vars
<1> QED
  BY <1>4, <1>5, <1>6

\* What arrives at the server is the first packet on its way.
LEMMA ServerStreamStep ==
  ASSUME SessionInv, Flow, OrderInv, generated, ~ Reordering, ReceiveAtServer
  PROVE  /\ generated'
         /\ ServerIgnores \/ ServerReceives \/ ServerEnds \/ ServerCloses
<1> DEFINE server == conn["server"]
           client == conn["client"]
           s == net["server"][1].seq
           type == net["server"][1].type
<1> USE DEF sessionVars, historyVars, timerVars
<1>1. /\ TypeOK /\ "server" \in Endpoint /\ "client" \in Endpoint
      /\ server \in Connection /\ net["server"] \in Seq(Segment)
  <2>1. TypeOK /\ "server" \in Endpoint /\ "client" \in Endpoint
    BY DEF SessionInv, TimerInv, TypeInv, Endpoint
  <2> QED
    BY <2>1 DEF TypeOK
<1>2. PICK i \in DOMAIN net["server"] :
        \/ ReceiveSynPacket(i) \/ ReceiveAckPacket("server", i)
        \/ ReceiveDataRejected(i) \/ ReceiveDataAcked(i) \/ ReceiveDataDelayed(i)
        \/ ReceiveFinPacket("server", i)
  BY SMTT(40) DEF ReceiveAtServer
<1>3. i = 1 /\ 1 \in DOMAIN net["server"]
  BY <1>2 DEF ReceiveSynPacket, ReceiveAckPacket, ReceiveDataRejected,
              ReceiveDataAcked, ReceiveDataDelayed, ReceiveFinPacket, Arrives
<1>4. s \in SeqNumber /\ net["server"][1].ack \in SeqNumber
  <2>1. \E type_ : Arrives("server", 1, type_)
    BY <1>2, <1>3 DEF ReceiveSynPacket, ReceiveAckPacket, ReceiveDataRejected,
                      ReceiveDataAcked, ReceiveDataDelayed, ReceiveFinPacket
  <2> QED
    BY <1>1, <2>1, ArrivesType
<1>5. generated'
  BY <1>2 DEF ReceiveSynPacket, ReceiveAckPacket, ReceiveDataRejected,
              ReceiveDataAcked, ReceiveDataDelayed, ReceiveFinPacket
<1>6. packetsSent' = packetsSent /\ net'["server"] = RemoveAt(net["server"], 1)
  <2>1. packetsSent' = packetsSent /\ \E replies : Consume("server", 1, replies)
    BY <1>2, <1>3
       DEF ReceiveSynPacket, ReceiveAckPacket, ReceiveDataRejected,
           ReceiveDataAcked, ReceiveDataDelayed, ReceiveFinPacket
  <2> QED
    BY <1>1, <2>1 DEF Consume, Peer, TypeOK
<1>7. ASSUME conn' = conn, arrived' = arrived,
             type = "DATA" => ~ AcceptsData(server, s)
      PROVE  ServerIgnores
  BY <1>3, <1>6, <1>7 DEF ServerIgnores, ServerTakes, ServerKept, StreamKept
<1>8. ~ IsEstablished(server) => type = "ACK"
  BY <1>3 DEF OrderInv, OnlyAcks
<1>9. CASE ReceiveSynPacket(i)
  <2>1. type = "SYN" /\ arrived' = arrived
    BY <1>3, <1>9 DEF ReceiveSynPacket, Arrives
  <2>2. ~ Accepts(OnSynReceived, server.state)
    BY <1>8, <2>1 DEF Accepts, OnSynReceived, IsEstablished
  <2> QED
    BY <1>5, <1>7, <1>9, <2>1, <2>2 DEF ReceiveSynPacket
<1>10. CASE ReceiveAckPacket("server", i)
  <2> DEFINE ack == net["server"][i].ack
             observed == ReceiveAck(server, ack)
             after == IF ShouldFastRetransmit(observed)
                        THEN ResetLossDetection(observed) ELSE observed
  <2>1. type = "ACK" /\ arrived' = arrived
    BY <1>3, <1>10 DEF ReceiveAckPacket, Arrives
  <2>2. conn'["server"] = after /\ conn'["client"] = client
    BY <1>1, <1>10 DEF ReceiveAckPacket, TypeOK
  <2>3. ~ Without(net["server"], "ACK")
    BY <1>3, <2>1 DEF Without, Range
  <2>4. server.state = "LAST_ACK"
    BY <2>3 DEF Flow, Closing
  <2>5. observed = server \/ observed = [server EXCEPT !.state = "CLOSED"]
    BY <2>4 DEF ReceiveAck, AckEstablishes, AckOfFin, AckDuplicate, AckAdvances,
                IsEstablished, OnFinAcked
  <2>6. /\ after.state = server.state \/ after.state = "CLOSED"
        /\ after.seq = server.seq /\ after.expected = server.expected
    BY <1>1, <2>5 DEF ResetLossDetection, Connection
  <2> HIDE DEF after
  <2> QED
    BY <1>3, <1>5, <1>6, <2>1, <2>2, <2>4, <2>6
       DEF ServerIgnores, ServerCloses, ServerTakes, ServerKept, StreamKept
<1>11. CASE ReceiveDataRejected(i)
  BY <1>3, <1>5, <1>7, <1>11 DEF ReceiveDataRejected
<1>12. CASE ReceiveDataAcked(i) \/ ReceiveDataDelayed(i)
  <2> DEFINE after == ReceiveData(server, s)
  <2>1. /\ AcceptsData(server, s) /\ arrived' = arrived \union {s} /\ type = "DATA"
    BY <1>3, <1>12 DEF ReceiveDataAcked, ReceiveDataDelayed, Arrives
  <2>2. PICK flag \in BOOLEAN :
          conn' = [conn EXCEPT !["server"] = [after EXCEPT !.delayedAck = flag]]
    BY <1>3, <1>12 DEF ReceiveDataAcked, ReceiveDataDelayed
  <2>3. after \in Connection
    BY <1>1, <1>4, <2>1, ReceiveDataType
  <2>4. after.state = server.state /\ after.seq = server.seq
    BY <1>1 DEF ReceiveData, Connection
  <2> HIDE DEF after
  <2>5. /\ conn'["client"] = client
        /\ conn'["server"] = [after EXCEPT !.delayedAck = flag]
    BY <1>1, <2>2 DEF TypeOK
  <2>6. /\ conn'["server"].state = server.state
        /\ conn'["server"].seq = server.seq
        /\ conn'["server"].expected = after.expected
    BY <2>3, <2>4, <2>5 DEF Connection
  <2> QED
    BY <1>3, <1>5, <1>6, <2>1, <2>5, <2>6 DEF ServerReceives, ServerTakes, StreamKept, after
<1>13. CASE ReceiveFinPacket("server", i)
  <2> DEFINE received == ReceiveFin(server, s)
             after == SendFin(received)
  <2>1. type = "FIN" /\ arrived' = arrived
    BY <1>3, <1>13 DEF ReceiveFinPacket, Arrives
  <2>2. IsEstablished(server)
    BY <1>8, <2>1
  <2>3. Accepts(OnPeerFin, server.state)
    BY <2>2 DEF Accepts, OnPeerFin, IsEstablished
  <2>4. /\ received \in Connection /\ received.state = "CLOSE_WAIT"
        /\ received.seq = server.seq
    BY <1>1, <1>4, <2>2, SeqArithmetic
       DEF ReceiveFin, OnPeerFin, Connection, TCPState, IsEstablished
  <2>5. conn' = [conn EXCEPT !["server"] = after]
    BY <1>3, <1>13, <2>3, <2>4 DEF ReceiveFinPacket
  <2> HIDE DEF received
  <2>6. after.state = "LAST_ACK" /\ after.seq = server.seq
    BY <2>4 DEF SendFin, OnFinSent, Connection
  <2> HIDE DEF after
  <2>7. conn'["server"] = after /\ conn'["client"] = client
    BY <1>1, <2>5 DEF TypeOK
  <2> QED
    BY <1>3, <1>5, <1>6, <2>1, <2>2, <2>6, <2>7 DEF ServerEnds, ServerTakes, StreamKept
<1> QED
  BY <1>2, <1>9, <1>10, <1>11, <1>12, <1>13

LEMMA ClientArrivalStreamStep ==
  ASSUME SessionInv, Flow, generated, ReceiveAtClient
  PROVE  generated' /\ (ClientActs \/ ClientLearns)
<1> DEFINE server == conn["server"]
           client == conn["client"]
<1> USE DEF sessionVars, historyVars, timerVars
<1>1. /\ TypeOK /\ "server" \in Endpoint /\ "client" \in Endpoint
      /\ client \in Connection /\ net["server"] \in Seq(Segment)
      /\ net["server"] \o <<>> = net["server"]
      /\ Peer("client") = "server"
  <2>1. TypeOK /\ "server" \in Endpoint /\ "client" \in Endpoint /\ Peer("client") = "server"
    BY DEF SessionInv, TimerInv, TypeInv, Endpoint, Peer
  <2>2. client \in Connection /\ net["server"] \in Seq(Segment)
    BY <2>1 DEF TypeOK
  <2> QED
    BY <2>1, <2>2, ConcatEmptySeq
<1>2. PICK i \in DOMAIN net["client"] :
        \/ ReceiveSynAckPacket(i) \/ ReceiveAckPacket("client", i)
        \/ ReceiveFinPacket("client", i)
  BY DEF ReceiveAtClient
<1>3. generated' /\ packetsSent' = packetsSent /\ arrived' = arrived
  BY <1>2 DEF ReceiveSynAckPacket, ReceiveAckPacket, ReceiveFinPacket
<1>4. \A replies : Consume("client", i, replies)
        => net'["server"] = net["server"] \o replies
  BY <1>1 DEF Consume, TypeOK
<1>5. ASSUME conn' = conn, Consume("client", i, <<>>)
      PROVE  ClientActs
  <2>1. net'["server"] = net["server"]
    BY <1>1, <1>4, <1>5
  <2> QED
    BY <1>3, <1>5, <2>1 DEF ClientActs, StreamKept, ServerKept
<1>6. CASE ReceiveSynAckPacket(i)
  <2>1. ~ AcceptsSynAck(client, net["client"][i].ack)
    BY DEF AcceptsSynAck, Flow
  <2> QED
    BY <1>3, <1>5, <1>6, <2>1 DEF ReceiveSynAckPacket
<1>7. CASE ReceiveAckPacket("client", i)
  <2> DEFINE ack == net["client"][i].ack
             observed == ReceiveAck(client, ack)
             after == IF ShouldFastRetransmit(observed)
                        THEN ResetLossDetection(observed) ELSE observed
  <2>1. ack \in SeqNumber /\ Consume("client", i, <<>>)
    BY <1>1, <1>7, ArrivesType DEF ReceiveAckPacket
  <2>2. conn'["client"] = after /\ conn'["server"] = server
    BY <1>1, <1>7 DEF ReceiveAckPacket, TypeOK
  <2>3. /\ after.seq = client.seq
        /\ after.una = IF AckAdvances(client, ack) THEN ack ELSE client.una
        /\ \/ after.state = client.state
           \/ client.state = "FIN_WAIT_1" /\ after.state = "FIN_WAIT_2"
    <3>1. client.state # "SYN_RECEIVED" /\ client.state # "LAST_ACK"
      BY DEF Flow
    <3> QED
      BY <1>1, <2>1, <3>1, ClientAckNumbers
  <2> HIDE DEF after
  <2>4. net'["server"] = net["server"]
    BY <1>1, <1>4, <2>1
  <2>5. CASE AckAdvances(client, ack)
    <3>1. IsEstablished(client) /\ IsEstablished(after)
      BY <2>3, <2>5 DEF AckAdvances, IsEstablished
    <3> QED
      BY <1>3, <2>2, <2>3, <2>4, <2>5, <3>1 DEF ClientLearns, StreamKept, ServerKept
  <2>6. CASE ~ AckAdvances(client, ack)
    <3>1. IsEstablished(after) => IsEstablished(client)
      BY <2>3 DEF IsEstablished
    <3> QED
      BY <1>3, <2>2, <2>3, <2>4, <2>6, <3>1 DEF ClientActs, StreamKept, ServerKept
  <2> QED
    BY <1>3, <2>5, <2>6
<1>8. CASE ReceiveFinPacket("client", i)
  <2> DEFINE received == ReceiveFin(client, net["client"][i].seq)
  <2>1. net["client"][i].type = "FIN" /\ net["client"][i].seq \in SeqNumber
    BY <1>1, <1>8, ArrivesType DEF ReceiveFinPacket, Arrives
  <2>2. ~ IsEstablished(client)
    <3>1. ~ Without(net["client"], "FIN")
      BY <1>2, <2>1 DEF Without, Range
    <3> QED
      BY <3>1 DEF Flow, Closing, IsEstablished
  <2>3. CASE ~ Accepts(OnPeerFin, client.state)
    BY <1>3, <1>5, <1>8, <2>3 DEF ReceiveFinPacket
  <2>4. CASE Accepts(OnPeerFin, client.state)
    <3>1. client.state \in {"FIN_WAIT_1", "FIN_WAIT_2"}
      BY SMTT(40), <2>2, <2>4 DEF Flow, Accepts, OnPeerFin, IsEstablished
    <3>2. /\ received \in Connection /\ received.state \in {"CLOSING", "TIME_WAIT"}
          /\ received.seq = client.seq /\ received.una = client.una
      BY <1>1, <2>1, <3>1, SeqArithmetic
         DEF ReceiveFin, OnPeerFin, Connection, TCPState
    <3> DEFINE ack == BuildAck(received)
    <3>3. PICK ackOk \in BOOLEAN :
            /\ conn' = [conn EXCEPT !["client"] = received]
            /\ Consume("client", i, Taken(ack, ackOk) \o <<>>)
      BY <1>8, <2>4, <3>2 DEF ReceiveFinPacket, Taken
    <3>4. conn'["client"] = received /\ conn'["server"] = server
      BY <1>1, <3>3 DEF TypeOK
    <3>5. ack \in Segment /\ ack.type = "ACK"
      BY <3>2, BuildType DEF BuildAck
    <3> HIDE DEF received, ack
    <3>6. Taken(ack, ackOk) \o <<>> = Taken(ack, ackOk)
      BY <3>5, TakenType, ConcatEmptySeq
    <3>7. net'["server"] = net["server"] \o Taken(ack, ackOk)
      BY <1>4, <3>3, <3>6
    <3>8. ~ IsEstablished(received)
      BY <3>2 DEF IsEstablished
    <3> QED
      BY <1>3, <3>2, <3>4, <3>5, <3>7, <3>8 DEF ClientActs, StreamKept, ServerKept
  <2> QED
    BY <2>3, <2>4
<1> QED
  BY <1>2, <1>6, <1>7, <1>8

LEMMA LoseStreamStep ==
  ASSUME SessionInv, generated, Lose
  PROVE  generated' /\ PacketLost
<1>1. TypeOK /\ "server" \in Endpoint /\ "client" \in Endpoint /\ losses \in Nat
  BY SessionAssumption DEF SessionInv, TimerInv, TypeInv, TypeOK, Endpoint
<1>2. PICK e \in Endpoint : \E i \in DOMAIN net[e] : LoseInTransit(e, i)
  BY DEF Lose
<1>3. /\ generated' = generated /\ packetsSent' = packetsSent /\ conn' = conn
      /\ arrived' = arrived /\ losses' > losses
  BY <1>1, <1>2 DEF LoseInTransit, sessionVars, historyVars
<1>4. \/ net'["server"] = net["server"]
      \/ \E i \in DOMAIN net["server"] : net'["server"] = RemoveAt(net["server"], i)
  <2>1. CASE e = "server"
    BY <1>1, <1>2, <2>1 DEF LoseInTransit, TypeOK
  <2>2. CASE e # "server"
    BY <1>1, <1>2, <2>2 DEF LoseInTransit, TypeOK
  <2> QED
    BY <2>1, <2>2
<1> QED
  BY <1>3, <1>4 DEF PacketLost, StreamKept, ServerKept

LEMMA NextStreamStep ==
  ASSUME SessionInv, Flow, OrderInv, generated, ~ Reordering, [Next]_vars
  PROVE  generated' /\ StreamStep
BY ClientStreamStep, ServerStreamStep, ClientArrivalStreamStep, LoseStreamStep
   DEF Next, StreamStep

-----------------------------------------------------------------------------
(* Routes that keep order: the invariant. *)

\* On a route where nothing failed, no segment arrives ahead of its turn.
LEMMA FirstInOrder ==
  ASSUME NEW q \in Seq(Segment), 1 \in DOMAIN q,
         NEW first, NEW next \in Nat, NEW sent \in Nat, InOrder(q, first, next, sent),
         NEW k \in Nat, Carries(q, 1, first, k)
  PROVE  k <= next
<1> SUFFICES ASSUME k > next PROVE FALSE
  OBVIOUS
<1>1. PICK j \in DOMAIN q : j < 1
  BY DEF InOrder
<1> QED
  BY <1>1, LenProperties

\* The receive buffer has room for the segment the server waits for: it can
\* only hold the others of the stream.
LEMMA ExpectedAccepted ==
  ASSUME TypeOK, Flow, RoomForAll,
         IsEstablished(conn["server"]),
         Position(conn["server"].expected) < packetsSent
  PROVE  AcceptsData(conn["server"], conn["server"].expected)
<1> DEFINE server == conn["server"]
           e == server.expected
           others == (0 .. packetsSent - 1) \ {Position(e)}
           place == [x \in server.rcvBuf |-> Position(x)]
<1>1. /\ e \in SeqNumber /\ server.rcvBuf \subseteq SeqNumber
  BY DEF TypeOK, Endpoint, Connection
<1>2. /\ packetsSent \in Nat /\ packetsSent <= PacketsPerRoute /\ FirstNumber \in SeqNumber
      /\ \A n \in SeqNumber : Position(n) \in Nat
  <2>1. packetsSent <= PacketsPerRoute
    BY SessionAssumption DEF TypeOK
  <2> QED
    BY <2>1, PositionType
<1>3. e \in Nat /\ SeqNumber \subseteq Nat
  BY <1>1, SeqSizeAssumption DEF SeqNumber
<1>4. \A x \in server.rcvBuf : x > e /\ Position(x) < packetsSent
  BY DEF Flow, Received, Position
<1>5. e \notin server.rcvBuf
  BY <1>3, <1>4
<1>6. \A x \in server.rcvBuf : Position(x) \in others
  <2> SUFFICES ASSUME NEW x \in server.rcvBuf PROVE Position(x) \in others
    OBVIOUS
  <2>1. Position(x) # Position(e)
    BY <1>1, <1>2, <1>5, OffsetInjective DEF Position
  <2> QED
    BY <1>1, <1>2, <1>4, <2>1
<1>7. \A x, y \in server.rcvBuf : Position(x) = Position(y) => x = y
  BY <1>1, <1>2, OffsetInjective DEF Position
<1>8. /\ IsFiniteSet(others) /\ Cardinality(others) = packetsSent - 1
  <2>1. /\ IsFiniteSet(0 .. packetsSent - 1)
        /\ Cardinality(0 .. packetsSent - 1) = packetsSent
    <3>1. 0 \in Int /\ packetsSent - 1 \in Int
      BY <1>2
    <3>2. packetsSent - 1 - 0 + 1 = packetsSent /\ (0 > packetsSent - 1 => packetsSent = 0)
      BY <1>2
    <3> QED
      BY <3>1, <3>2, FS_Interval
  <2>2. Position(e) \in 0 .. packetsSent - 1
    BY <1>1, <1>2
  <2>3. \A S, x : IsFiniteSet(S) /\ x \in S
          => IsFiniteSet(S \ {x}) /\ Cardinality(S \ {x}) = Cardinality(S) - 1
    BY FS_RemoveElement
  <2> QED
    BY <2>1, <2>2, <2>3
<1>9. place \in Injection(server.rcvBuf, others)
  BY <1>6, <1>7 DEF Injection, IsInjective
<1>10. Cardinality(server.rcvBuf) <= packetsSent - 1 /\ IsFiniteSet(server.rcvBuf)
  <2> HIDE DEF others, place
  <2> QED
    BY <1>8, <1>9, FS_Injection
<1>11. Cardinality(server.rcvBuf) \in Nat
  BY <1>10, FS_CardinalityType
<1>12. Cardinality(server.rcvBuf) < ReceiveWindow
  BY <1>2, <1>10, <1>11, LimitsAssumption, SessionAssumption DEF RoomForAll
<1> QED
  BY <1>3, <1>5, <1>12 DEF AcceptsData

\* What the client does.
LEMMA ClientOrderNext ==
  ASSUME TypeOK, TypeOK', Flow, OrderInv, generated, generated', FaultsKept,
         ClientActs \/ ClientLearns \/ PacketGeneration
  PROVE  OrderInv'
<1> DEFINE q == net["server"]
           server == conn["server"]
           client == conn["client"]
           next == Position(server.expected)
<1>1. /\ q \in Seq(Segment) /\ client \in Connection /\ server \in Connection
      /\ "server" \in Endpoint /\ "client" \in Endpoint
  BY DEF TypeOK, Endpoint
<1>2. /\ FirstNumber \in SeqNumber /\ packetsSent \in Nat /\ next \in Nat
      /\ Position(client.seq) = packetsSent
      /\ \A n \in SeqNumber : Position(n) \in Nat
  BY <1>1, PositionType DEF Connection
<1>3. /\ server.seq # 0 /\ server.state # "SYN_RECEIVED"
      /\ OnlyAcksBehindFin(q)
      /\ ~ IsEstablished(server) => OnlyAcks(q)
      /\ IsEstablished(server) /\ Smooth =>
           InOrder(q, FirstNumber, next, packetsSent)
  BY DEF OrderInv
<1>4. /\ IsEstablished(client) => IsEstablished(server) /\ Without(q, "FIN")
  BY DEF Flow
<1>5. ASSUME StreamKept, ServerKept, net'["server"] = q
      PROVE  OrderInv'
  <2>1. FirstNumber' = FirstNumber /\ Position(conn["server"].expected)' = next
    BY <1>5 DEF FirstNumber, Position, StreamKept, ServerKept
  <2> HIDE DEF next
  <2> QED
    BY <1>3, <1>5, <2>1 DEF OrderInv, StreamKept, ServerKept, FaultsKept, IsEstablished
<1>6. CASE ClientLearns
  BY <1>5, <1>6 DEF ClientLearns
<1>7. CASE ClientActs
  <2>1. StreamKept /\ ServerKept
    BY <1>7 DEF ClientActs
  <2>2. CASE net'["server"] = q
    BY <1>5, <2>1, <2>2
  <2>3. CASE net'["server"] # q
    <3>1. PICK p \in Segment, ok \in BOOLEAN :
            /\ net'["server"] = q \o Taken(p, ok)
            /\ \/ p.type = "ACK"
               \/ p.type = "FIN" /\ IsEstablished(client)
               \/ /\ p.type = "DATA" /\ IsEstablished(client)
                  /\ Position(p.seq) < packetsSent
      BY <1>7, <2>3 DEF ClientActs
    <3>2. ok /\ net'["server"] = q \o <<p>>
      BY <1>1, <2>3, <3>1, ConcatEmptySeq DEF Taken
    <3>3. /\ OnlyAcksBehindFin(net'["server"])
          /\ ~ IsEstablished(server) => OnlyAcks(net'["server"])
      BY <1>1, <1>3, <1>4, <3>1, OrderAppended
    <3>4. InOrder(q, FirstNumber, next, packetsSent)
            => InOrder(net'["server"], FirstNumber, next, packetsSent)
      <4>1. \A k \in Nat : p.type = "DATA" /\ Offset(FirstNumber, p.seq) = k
              => k <= packetsSent /\ k < packetsSent
        BY <1>2, <3>1 DEF Position
      <4>2. packetsSent \in {packetsSent, packetsSent + 1} /\ packetsSent # packetsSent + 1
        BY <1>2
      <4> HIDE DEF next
      <4> QED
        BY <1>1, <1>2, <3>2, <4>1, <4>2, InOrderAppended
    <3>5. FirstNumber' = FirstNumber /\ Position(conn["server"].expected)' = next
      BY <2>1 DEF FirstNumber, Position, StreamKept, ServerKept
    <3> HIDE DEF next
    <3> QED
      BY <1>3, <2>1, <3>3, <3>4, <3>5
         DEF OrderInv, StreamKept, ServerKept, FaultsKept, IsEstablished
  <2> QED
    BY <2>2, <2>3
<1>8. CASE PacketGeneration
  <2> DEFINE data == BuildData(client, client.seq)
  <2>1. /\ Transmit("server", data, TRUE) /\ packetsSent' = packetsSent + 1
        /\ conn' = [conn EXCEPT !["client"] = QueueSentSegment(client)]
        /\ IsEstablished(client)
    BY <1>1, <1>8 DEF PacketGeneration, BothEstablished, historyVars
  <2>2. conn'["client"] = QueueSentSegment(client) /\ conn'["server"] = server
    BY <1>1, <2>1 DEF TypeOK
  <2>3. conn'["client"].seq = SeqAfter(client.seq)
    BY <1>1, <2>2 DEF QueueSentSegment, Connection
  <2>4. data \in Segment /\ data.type = "DATA" /\ data.seq = client.seq
    BY <1>1, BuildType DEF BuildData, Connection
  <2>5. net'["server"] = q \o <<data>>
    BY <1>1, <2>1 DEF Transmit, Taken, TypeOK
  <2> HIDE DEF data
  <2>6. packetsSent + 1 < SeqSize /\ client.seq \in SeqNumber
    <3>1. packetsSent + 1 <= PacketsPerRoute
      BY <2>1, SessionAssumption DEF TypeOK
    <3> QED
      BY <1>1, <1>2, <3>1, StreamAssumption, SessionAssumption, SeqSizeAssumption
         DEF Connection
  <2>7. FirstNumber' = FirstNumber
    BY <1>1, <1>2, <2>1, <2>3, <2>6, PositionType, FirstOfStream DEF FirstNumber
  <2>8. Position(conn["server"].expected)' = next
    BY <2>2, <2>7 DEF Position
  <2>9. InOrder(q, FirstNumber, next, packetsSent)
          => InOrder(net'["server"], FirstNumber, next, packetsSent + 1)
    <3>1. Offset(FirstNumber, data.seq) = packetsSent
      BY <1>2, <2>4 DEF Position
    <3>2. \A k \in Nat : data.type = "DATA" /\ Offset(FirstNumber, data.seq) = k
            => k <= packetsSent /\ k < packetsSent + 1
      BY <1>2, <3>1
    <3>3. packetsSent + 1 \in {packetsSent, packetsSent + 1}
      OBVIOUS
    <3> HIDE DEF next
    <3> QED
      BY <1>1, <1>2, <2>4, <2>5, <3>1, <3>2, <3>3, InOrderAppended
  <2>10. net'["server"] = q \o Taken(data, TRUE)
    BY <2>5 DEF Taken
  <2>11. OnlyAcksBehindFin(net'["server"])
    BY <1>1, <1>3, <1>4, <2>1, <2>4, <2>10, OrderAppended
  <2> HIDE DEF next
  <2> QED
    BY <1>3, <1>4, <2>1, <2>2, <2>7, <2>8, <2>9, <2>11 DEF OrderInv, FaultsKept
<1> QED
  BY <1>6, <1>7, <1>8

\* What arrives at the server, and what is lost.
LEMMA ServerOrderNext ==
  ASSUME TypeOK, TypeOK', Flow, OrderInv, generated, generated', FaultsKept,
         ServerIgnores \/ ServerReceives \/ ServerEnds \/ ServerCloses \/ PacketLost
  PROVE  OrderInv'
<1> DEFINE q == net["server"]
           server == conn["server"]
           client == conn["client"]
           next == Position(server.expected)
           s == q[1].seq
<1>1. /\ q \in Seq(Segment) /\ server \in Connection /\ server.expected \in SeqNumber
      /\ server.rcvBuf \subseteq SeqNumber
      /\ "server" \in Endpoint /\ arrived \in SUBSET SeqNumber
      /\ losses \in Nat /\ refusals \in Nat /\ losses' \in Nat /\ refusals' \in Nat
  <2>1. "server" \in Endpoint
    BY DEF Endpoint
  <2>2. /\ losses \in Nat /\ refusals \in Nat /\ losses' \in Nat /\ refusals' \in Nat
    BY SessionAssumption DEF TypeOK
  <2>3. q \in Seq(Segment) /\ server \in Connection /\ arrived \in SUBSET SeqNumber
    BY <2>1 DEF TypeOK
  <2> QED
    BY <2>1, <2>2, <2>3 DEF Connection
<1>2. /\ FirstNumber \in SeqNumber /\ packetsSent \in Nat /\ next \in Nat
      /\ packetsSent < SeqSize
      /\ \A n \in SeqNumber : Position(n) \in Nat
  BY <1>1, PositionType
<1>3. /\ server.seq # 0 /\ server.state # "SYN_RECEIVED"
      /\ OnlyAcksBehindFin(q)
      /\ ~ IsEstablished(server) => OnlyAcks(q)
      /\ IsEstablished(server) /\ Smooth =>
           InOrder(q, FirstNumber, next, packetsSent)
  BY DEF OrderInv
<1>4. StreamKept /\ FirstNumber' = FirstNumber
  <2>1. StreamKept
    BY DEF ServerIgnores, ServerReceives, ServerEnds, ServerCloses, PacketLost, ServerTakes
  <2> QED
    BY <2>1 DEF StreamKept, FirstNumber
<1>5. CASE PacketLost
  <2>1. ~ Smooth'
    BY <1>1, <1>5 DEF PacketLost, Smooth
  <2>2. /\ OnlyAcksBehindFin(net'["server"])
        /\ OnlyAcks(q) => OnlyAcks(net'["server"])
    BY <1>1, <1>3, <1>5, OrderRemoved DEF PacketLost
  <2> QED
    BY <1>3, <1>5, <2>1, <2>2 DEF OrderInv, PacketLost, ServerKept, IsEstablished
<1>6. CASE ~ PacketLost
  <2>1. /\ 1 \in DOMAIN q /\ net'["server"] = RemoveAt(q, 1)
        /\ conn'["server"].seq = server.seq
    BY <1>6 DEF ServerIgnores, ServerReceives, ServerEnds, ServerCloses, ServerTakes
  <2>2. /\ OnlyAcksBehindFin(net'["server"])
        /\ OnlyAcks(q) => OnlyAcks(net'["server"])
        /\ q[1].type = "FIN" => OnlyAcks(net'["server"])
    BY <1>1, <1>3, <2>1, OrderRemoved
  <2>3. q[1] \in Range(q) /\ s \in SeqNumber
    <3>1. q[1] \in Range(q)
      BY <2>1 DEF Range
    <3> QED
      BY <1>1, <3>1, PacketType
  <2>4. q[1].type = "DATA" => Position(s) < packetsSent /\ IsEstablished(server)
    BY <1>3, <2>1, <2>3 DEF Flow, OnlyAcks
  <2>5. ASSUME IsEstablished(server), Smooth
        PROVE  \A k \in Nat : Carries(q, 1, FirstNumber, k) => k <= next
    BY <1>1, <1>2, <1>3, <2>1, <2>5, FirstInOrder
  <2>6. CASE ServerEnds
    <3>1. q[1].type = "FIN" /\ conn'["server"].state = "LAST_ACK"
      BY <2>6 DEF ServerEnds, ServerTakes
    <3> QED
      BY <1>3, <2>1, <2>2, <3>1 DEF OrderInv, IsEstablished
  <2>7. CASE ServerCloses
    <3>1. server.state = "LAST_ACK" /\ conn'["server"].state = "CLOSED"
      BY <2>7 DEF ServerCloses
    <3> QED
      BY <1>3, <2>1, <2>2, <3>1 DEF OrderInv, IsEstablished
  <2>8. CASE ServerIgnores
    <3>1. ServerKept
      BY <2>8 DEF ServerIgnores
    <3>2. ASSUME IsEstablished(server), Smooth,
                 NEW k \in Nat, Carries(q, 1, FirstNumber, k)
          PROVE  k < next
      <4>1. k <= next
        BY <2>5, <3>2
      <4>2. q[1].type = "DATA" /\ Position(s) = k
        BY <3>2 DEF Carries, Position
      <4>3. k # next
        <5> SUFFICES ASSUME k = next PROVE FALSE
          OBVIOUS
        <5>1. s = server.expected
          BY <1>1, <1>2, <2>3, <4>2, OffsetInjective DEF Position
        <5>2. AcceptsData(server, server.expected)
          BY <1>1, <2>4, <3>2, <4>2, <5>1, ExpectedAccepted DEF Smooth
        <5> QED
          BY <2>8, <4>2, <5>1, <5>2 DEF ServerIgnores
      <4> QED
        BY <1>2, <3>2, <4>1, <4>3
    <3>3. ASSUME IsEstablished(server), Smooth
          PROVE  InOrder(net'["server"], FirstNumber, next, packetsSent)
      <4> HIDE DEF next
      <4> QED
        BY <1>1, <1>2, <1>3, <2>1, <3>2, <3>3, InOrderArrived
    <3>4. Position(conn["server"].expected)' = next
      BY <1>4, <3>1 DEF Position, ServerKept
    <3> HIDE DEF next
    <3> QED
      BY <1>3, <1>4, <2>1, <2>2, <3>1, <3>3, <3>4
         DEF OrderInv, ServerKept, StreamKept, FaultsKept, IsEstablished
  <2>9. CASE ServerReceives
    <3> DEFINE r == ReceiveData(server, s)
               after == Offset(FirstNumber, r.expected)
    <3>1. /\ q[1].type = "DATA" /\ AcceptsData(server, s)
          /\ conn'["server"].state = server.state
          /\ conn'["server"].expected = r.expected
      BY <2>9 DEF ServerReceives, ServerTakes
    <3>2. IsEstablished(server) /\ Position(s) < packetsSent
      BY <2>4, <3>1
    <3>3. next <= after /\ (s = server.expected => next < after)
      <4>1. Received(FirstNumber, packetsSent, server, arrived)
        BY <3>2 DEF Flow
      <4> QED
        BY <1>1, <1>2, <2>3, <3>1, <3>2, <4>1, ReceiveDataReceived DEF Position
    <3>4. after \in Nat
      <4>1. r \in Connection
        BY <1>1, <2>3, <3>1, ReceiveDataType
      <4>2. r.expected \in SeqNumber
        BY <4>1 DEF Connection
      <4> QED
        BY <1>2, <4>2 DEF Position
    <3>5. Position(conn["server"].expected)' = after
      BY <1>4, <3>1 DEF Position
    <3> HIDE DEF r, after
    <3>6. ASSUME Smooth, NEW k \in Nat, Carries(q, 1, FirstNumber, k)
          PROVE  k < after
      <4>1. k <= next
        BY <2>5, <3>2, <3>6
      <4>2. Position(s) = k
        BY <3>6 DEF Carries, Position
      <4>3. k = next => s = server.expected
        BY <1>1, <1>2, <2>3, <4>2, OffsetInjective DEF Position
      <4> HIDE DEF next
      <4> QED
        BY <1>2, <3>3, <3>4, <3>6, <4>1, <4>3
    <3>7. ASSUME Smooth
          PROVE  InOrder(net'["server"], FirstNumber, after, packetsSent)
      <4> HIDE DEF next
      <4> QED
        BY <1>1, <1>2, <1>3, <2>1, <3>2, <3>3, <3>4, <3>6, <3>7, InOrderArrived
    <3> HIDE DEF next
    <3> QED
      BY <1>3, <1>4, <2>1, <2>2, <3>1, <3>2, <3>5, <3>7
         DEF OrderInv, StreamKept, FaultsKept, IsEstablished
  <2> QED
    BY <1>6, <2>6, <2>7, <2>8, <2>9
<1> QED
  BY <1>5, <1>6

\* The handshake: the server's numbers leave 0 when it is over.
LEMMA OpeningOrderNext ==
  ASSUME SessionInv, SessionInv', Opening, ~ generated, OrderInv, [Next]_vars
  PROVE  OrderInv'
<1> DEFINE server == conn["server"]
           client == conn["client"]
<1> USE DEF sessionVars, historyVars, timerVars
<1>1. /\ TypeInv /\ TypeOK /\ TypeOK'
      /\ "server" \in Endpoint /\ "client" \in Endpoint /\ server \in Connection
      /\ server.seq = 0
  <2>1. TypeInv /\ TypeOK /\ TypeOK' /\ "server" \in Endpoint /\ "client" \in Endpoint
    BY DEF SessionInv, TimerInv, TypeInv, Endpoint
  <2> QED
    BY <2>1 DEF TypeOK, OrderInv
<1>2. ASSUME generated' = generated, conn'["server"].seq = server.seq
      PROVE  OrderInv'
  BY <1>1, <1>2 DEF OrderInv
<1>3. \A type : Due(type) => type = "handshake"
  BY <1>1, OpeningEvents
<1>4. ASSUME NEW i, NEW type, Arrives("server", i, type)
      PROVE  type \in {"SYN", "ACK"}
  BY <1>4 DEF Arrives, Opening, Range
<1>5. ASSUME NEW i, NEW type, Arrives("client", i, type)
      PROVE  type = "SYN_ACK"
  BY <1>5 DEF Arrives, Opening, Range
<1>6. CASE RunDueEvent
  <2>1. HandshakeEvent
    BY <1>3, <1>6
       DEF RunDueEvent, GenerationEnds, PacketGeneration, Retransmission,
           FastRetransmit, ConnectionClose
  <2>2. generated' = generated /\ conn'["server"] = server
    BY <1>1, <2>1 DEF HandshakeEvent, TypeOK
  <2> QED
    BY <1>2, <2>2
<1>7. CASE ReceiveAtServer
  <2>1. \A i : /\ ~ ReceiveDataRejected(i) /\ ~ ReceiveDataAcked(i)
               /\ ~ ReceiveDataDelayed(i) /\ ~ ReceiveFinPacket("server", i)
    <3>1. \A i : ~ Arrives("server", i, "DATA") /\ ~ Arrives("server", i, "FIN")
      BY <1>4
    <3> QED
      BY <3>1 DEF ReceiveDataRejected, ReceiveDataAcked, ReceiveDataDelayed,
                  ReceiveFinPacket
  <2>2. PICK i : ReceiveSynPacket(i) \/ ReceiveAckPacket("server", i)
    BY <1>7, <2>1 DEF ReceiveAtServer
  <2>3. CASE ReceiveSynPacket(i)
    <3>1. /\ generated' = generated
          /\ \/ conn'["server"] = server
             \/ \E n : conn'["server"] = ReceiveSyn(server, n)
      BY <1>1, <2>3 DEF ReceiveSynPacket, TypeOK
    <3>2. conn'["server"].seq = server.seq
      BY <1>1, <3>1 DEF ReceiveSyn, Connection
    <3> QED
      BY <1>2, <3>1, <3>2
  <2>4. CASE ReceiveAckPacket("server", i)
    <3> DEFINE ack == net["server"][i].ack
               observed == ReceiveAck(server, ack)
               after == IF ShouldFastRetransmit(observed)
                          THEN ResetLossDetection(observed) ELSE observed
    <3>1. /\ Arrives("server", i, "ACK") /\ net["server"][i].type = "ACK"
          /\ i \in DOMAIN net["server"] /\ ack \in SeqNumber
          /\ packetsSent' = packetsSent /\ Consume("server", i, <<>>)
      BY <1>1, <2>4, ArrivesType DEF ReceiveAckPacket, Arrives
    <3>2. conn'["server"] = after /\ conn'["client"] = client
      BY <1>1, <2>4 DEF ReceiveAckPacket, TypeOK
    <3>3. net["server"][i] \in Range(net["server"])
      BY <3>1 DEF Range
    <3>4. /\ IsEstablished(client) /\ server.state = "SYN_RECEIVED"
          /\ server.expected = client.seq
      BY <3>1, <3>3 DEF Opening
    <3>5. CASE ~ AckEstablishes(server, ack)
      <4>1. observed = server
        BY <3>4, <3>5 DEF ReceiveAck, AckOfFin, AckDuplicate, AckAdvances, IsEstablished
      <4>2. conn'["server"].state = server.state /\ conn'["server"].seq = server.seq
        BY SMTT(40), <1>1, <3>2, <4>1 DEF ResetLossDetection, Connection
      <4>3. ~ generated'
        BY <1>1, <2>4, <3>4, <4>2 DEF BothEstablished, IsEstablished, ReceiveAckPacket
      <4> QED
        BY <1>1, <1>2, <4>2, <4>3 DEF TypeOK
    <3>6. CASE AckEstablishes(server, ack)
      <4>1. observed = [server EXCEPT !.state = "ESTABLISHED", !.seq = ack, !.una = ack,
                                      !.synRetries = 0, !.dup = 0]
        BY <3>4, <3>6
           DEF ReceiveAck, OnEstablished, AckOfFin, AckDuplicate, AckAdvances,
               IsEstablished
      <4>2. after.state = "ESTABLISHED" /\ after.seq = ack
        BY <1>1, <4>1 DEF ResetLossDetection, Connection
      <4> HIDE DEF after
      <4>3. \A e \in Endpoint : IsEstablished(conn'[e])
        BY SMTT(40), <3>2, <3>4, <4>2 DEF IsEstablished, Endpoint
      <4>4. BothEstablished' /\ generated'
        BY <2>4, <4>3 DEF BothEstablished, ReceiveAckPacket
      <4>5. ack # 0
        <5>1. SeqSize \in Nat /\ 1 < SeqSize
          BY SeqSizeAssumption, SessionAssumption, StreamAssumption
        <5>2. 0 \in SeqNumber /\ 1 \in SeqNumber
          BY <5>1 DEF SeqNumber
        <5>3. (0 + 1) % SeqSize = 1
          BY <5>1, <5>2, Around
        <5> QED
          BY <1>1, <3>6, <5>3 DEF AckEstablishes, SeqAfter
      <4>6. /\ Range(net'["server"]) \subseteq Range(net["server"])
            /\ AtMostOne(net["server"], "ACK") => Without(net'["server"], "ACK")
        BY <1>1, <3>1, ConsumePackets, EmptySeq DEF Peer
      <4>7. \A k \in DOMAIN net'["server"] : net'["server"][k].type = "SYN"
        <5>1. \A p \in Range(net'["server"]) : p.type = "SYN"
          BY <4>6 DEF Opening, Without
        <5> QED
          BY <5>1 DEF Range
      <4>8. packetsSent' = 0
        BY <3>1 DEF Opening
      <4>9. Position(conn["server"].expected)' \in Nat
        <5>1. /\ conn'["client"].seq \in SeqNumber
              /\ conn'["server"].expected \in SeqNumber
          BY <1>1 DEF TypeOK, Connection
        <5>2. 0 \in SeqNumber
          BY SeqSizeAssumption DEF SeqNumber
        <5>3. FirstNumber' \in SeqNumber
          BY <4>8, <5>1, <5>2, FirstOfStream DEF FirstNumber
        <5> QED
          BY <5>1, <5>3, OffsetType DEF Position
      <4>10. InOrder(net'["server"], FirstNumber', Position(conn["server"].expected)', 0)
        BY <4>7, <4>9 DEF InOrder, Carries
      <4>11. OnlyAcksBehindFin(net'["server"])
        BY <4>7 DEF OnlyAcksBehindFin
      <4> QED
        BY <3>2, <4>2, <4>4, <4>5, <4>8, <4>10, <4>11 DEF OrderInv, IsEstablished
    <3> QED
      BY <3>5, <3>6
  <2> QED
    BY <2>2, <2>3, <2>4
<1>8. CASE ReceiveAtClient
  <2>1. PICK i : ReceiveSynAckPacket(i)
    BY <1>5, <1>8 DEF ReceiveAtClient, ReceiveAckPacket, ReceiveFinPacket
  <2>2. generated' = generated /\ conn'["server"] = server
    BY <1>1, <2>1 DEF ReceiveSynAckPacket, TypeOK
  <2> QED
    BY <1>2, <2>2
<1>9. CASE FireTimer \/ Lose \/ UNCHANGED vars
  <2>1. generated' = generated
    BY <1>9
       DEF FireTimer, HandshakeTimeoutIgnored, HandshakeTimeout, TimeWaitTimeout,
           Timeout, DelayedAckIgnored, DelayedAckObsolete, DelayedAckSent,
           Lose, LoseInTransit, vars
  <2>2. \/ conn'["server"] = server
        \/ conn' = [conn EXCEPT !["server"].delayedAck = FALSE]
    BY <1>1, <1>9
       DEF FireTimer, HandshakeTimeoutIgnored, HandshakeTimeout, TimeWaitTimeout,
           Timeout, DelayedAckIgnored, DelayedAckObsolete, DelayedAckSent,
           Lose, LoseInTransit, vars, TypeOK
  <2>3. conn'["server"].seq = server.seq
    BY ZenonT(60), <1>1, <2>2 DEF TypeOK, Connection
  <2> QED
    BY <1>2, <2>1, <2>3
<1> QED
  BY <1>6, <1>7, <1>8, <1>9 DEF Next

LEMMA InitOrder ==
  ASSUME Init
  PROVE  OrderInv
<1>1. ~ generated /\ conn["server"].seq = 0
  BY DEF Init, NewConnection, Endpoint
<1> QED
  BY <1>1 DEF OrderInv

LEMMA NextOrderInv ==
  ASSUME SessionInv, SessionInv', StreamInv, StreamInv', OrderInv,
         ~ Reordering, [Next]_vars
  PROVE  OrderInv'
<1>1. TypeOK /\ TypeOK'
  BY DEF SessionInv, TimerInv, TypeInv
<1>2. CASE ~ generated
  BY <1>2, OpeningOrderNext DEF StreamInv
<1>3. CASE generated
  <2>1. Flow /\ generated' /\ StreamStep /\ FaultsKept
    BY <1>1, <1>3, NextStreamStep, FaultsCounted DEF StreamInv
  <2> QED
    BY <1>1, <1>3, <2>1, ClientOrderNext, ServerOrderNext DEF StreamStep
<1> QED
  BY <1>2, <1>3

LEMMA OrderInvariance ==
  ASSUME ~ Reordering
  PROVE  Spec => [](SessionInv /\ StreamInv /\ OrderInv)
<1>1. Init => OrderInv
  BY InitOrder
<1>2. (SessionInv /\ StreamInv) /\ (SessionInv /\ StreamInv)'
        /\ OrderInv /\ [Next]_vars => OrderInv'
  BY NextOrderInv
<1> QED
  BY <1>1, <1>2, StreamInvariance, PTL DEF Spec

-----------------------------------------------------------------------------
(* The passive closer does not open again. *)

LEMMA ClosedServerStays ==
  ASSUME SessionInv, StreamInv, OrderInv, ~ Reordering, [Next]_vars,
         conn["server"].state = "CLOSED", conn["server"].seq # 0
  PROVE  conn'["server"].state = "CLOSED"
<1>1. generated /\ Flow
  BY DEF OrderInv, StreamInv
<1>2. StreamStep /\ TypeOK /\ "server" \in Endpoint /\ "client" \in Endpoint
  BY <1>1, NextStreamStep DEF SessionInv, TimerInv, TypeInv, Endpoint
<1>3. ~ IsEstablished(conn["server"])
  BY DEF IsEstablished
<1>4. ~ PacketGeneration
  BY <1>2, <1>3 DEF PacketGeneration, BothEstablished
<1> QED
  BY <1>2, <1>3, <1>4
     DEF StreamStep, ClientActs, ClientLearns, PacketLost, ServerIgnores,
         ServerReceives, ServerEnds, ServerCloses, ServerKept

(***************************************************************************)
(* On routes that keep order no retransmitted SYN is left behind to open a *)
(* server connection that has been through to CLOSED (receive_syn accepts  *)
(* a SYN in CLOSED): all SYNs come before the ACK that ends the handshake, *)
(* and the FIN comes last but for acknowledgements.                        *)
(***************************************************************************)
THEOREM ServerClosedForGood ==
  ASSUME ~ Reordering
  PROVE  Spec => ServerStaysClosed
<1>1. SessionInv /\ StreamInv /\ OrderInv /\ [Next]_vars
        => [conn["server"].state = "CLOSED" /\ conn["server"].seq # 0
              => conn'["server"].state = "CLOSED"]_vars
  BY ClosedServerStays
<1> QED
  BY <1>1, OrderInvariance, PTL DEF Spec, ServerStaysClosed

-----------------------------------------------------------------------------
(* The session implements the stream of ReliableStream. *)

\* How many of the n payloads sent come before number a.
LEMMA LengthBefore ==
  ASSUME NEW last \in SeqNumber, NEW n \in SeqNumber, NEW a \in SeqNumber,
         Offset((last - n) % SeqSize, a) <= n
  PROVE  n - ((last - a) % SeqSize) = Offset((last - n) % SeqSize, a)
<1> DEFINE first == (last - n) % SeqSize
<1>1. first \in SeqNumber /\ Offset(first, last) = n
  BY FirstOfStream
<1> HIDE DEF first
<1>2. Offset(first, a) <= n => (last - a) % SeqSize = n - Offset(first, a)
  BY <1>1, OffsetBetween
<1>3. n \in Int /\ Offset(first, a) \in Int
  BY <1>1, OffsetType, SeqSizeAssumption DEF SeqNumber
<1> QED
  BY <1>2, <1>3 DEF first

LEMMA OffsetAdvances ==
  ASSUME NEW first \in SeqNumber, NEW a \in SeqNumber, NEW b \in SeqNumber,
         NEW c \in SeqNumber,
         Offset(first, a) <= Offset(first, c), a < b, b <= c
  PROVE  Offset(first, a) < Offset(first, b)
<1>1. /\ Offset(first, a) = IF a >= first THEN a - first ELSE a - first + SeqSize
      /\ Offset(first, b) = IF b >= first THEN b - first ELSE b - first + SeqSize
      /\ Offset(first, c) = IF c >= first THEN c - first ELSE c - first + SeqSize
  BY OffsetType
<1> QED
  BY <1>1, SeqSizeAssumption DEF SeqNumber

LEMMA LongestChosen ==
  ASSUME NEW n \in Nat
  PROVE  (CHOOSE k \in 0 .. n : \A j \in 0 .. n : j <= k) = n
<1>1. n \in 0 .. n /\ \A j \in 0 .. n : j <= n
  OBVIOUS
<1>2. \A k \in 0 .. n : (\A j \in 0 .. n : j <= k) => k = n
  BY <1>1
<1> QED
  BY <1>1, <1>2

\* Nothing of the stream is missing up to RCV.NXT, and RCV.NXT is missing.
LEMMA GaplessUpToExpected ==
  ASSUME TypeOK, Flow, IsEstablished(conn["server"])
  PROVE  (CHOOSE k \in Gapless : \A j \in Gapless : j <= k)
           = Position(conn["server"].expected)
<1> DEFINE server == conn["server"]
           next == Position(server.expected)
           number(j) == (FirstNumber + j) % SeqSize
<1>1. /\ server.expected \in SeqNumber /\ server.rcvBuf \subseteq SeqNumber
  BY DEF TypeOK, Endpoint, Connection
<1>2. /\ FirstNumber \in SeqNumber /\ packetsSent \in Nat /\ next \in Nat
      /\ packetsSent < SeqSize
      /\ \A n \in SeqNumber : Position(n) \in Nat
  BY <1>1, PositionType
<1>3. Received(FirstNumber, packetsSent, server, arrived)
  BY DEF Flow
<1>4. next <= packetsSent
  BY <1>3 DEF Received, Position
<1>5. ASSUME NEW j \in 0 .. packetsSent
      PROVE  number(j) \in SeqNumber /\ Offset(FirstNumber, number(j)) = j
  <2>1. Offset(FirstNumber, FirstNumber) = 0
    BY <1>2, OffsetType
  <2>2. j \in Nat /\ Offset(FirstNumber, FirstNumber) + j < SeqSize
    BY <1>2, <2>1, SeqSizeAssumption
  <2>3. Offset(FirstNumber, number(j)) = 0 + j /\ number(j) \in SeqNumber
    BY <1>2, <2>1, <2>2, OffsetStep
  <2> QED
    BY <2>2, <2>3
<1>6. ASSUME NEW j \in 0 .. packetsSent, j < next
      PROVE  number(j) \in arrived
  BY <1>3, <1>5, <1>6 DEF Received, Before, Position
<1>7. number(next) = server.expected
  <2>1. next \in 0 .. packetsSent
    BY <1>2, <1>4
  <2> HIDE DEF number
  <2>2. number(next) \in SeqNumber /\ Offset(FirstNumber, number(next)) = next
    BY <1>5, <2>1
  <2> QED
    BY <1>1, <1>2, <2>2, OffsetInjective DEF Position
<1>8. server.expected \notin arrived
  <2>1. server.expected \notin Before(FirstNumber, server.expected)
    BY <1>2 DEF Before, Position
  <2>2. server.expected \notin server.rcvBuf
    <3>1. \A x \in server.rcvBuf : x > server.expected
      BY <1>3 DEF Received
    <3>2. server.expected \in Int
      BY <1>1, SeqSizeAssumption DEF SeqNumber
    <3> QED
      BY <3>1, <3>2
  <2> QED
    BY <1>3, <2>1, <2>2 DEF Received
<1>9. Gapless = 0 .. next
  <2>1. ASSUME NEW k \in 0 .. packetsSent
        PROVE  (\A j \in 0 .. k - 1 : number(j) \in arrived) <=> k <= next
    <3>1. CASE k <= next
      <4> \A j \in 0 .. k - 1 : j \in 0 .. packetsSent /\ j < next
        BY <1>2, <3>1
      <4> HIDE DEF number, next
      <4> QED
        BY <1>6, <3>1
    <3>2. CASE ~ k <= next
      <4>1. next \in 0 .. k - 1
        BY <1>2, <3>2
      <4> HIDE DEF number, next
      <4> QED
        BY <1>7, <1>8, <3>2, <4>1
    <3> QED
      BY <3>1, <3>2
  <2>2. Gapless = {k \in 0 .. packetsSent : k <= next}
    BY <2>1 DEF Gapless
  <2> HIDE DEF next
  <2> QED
    BY <1>2, <1>4, <2>2
<1> HIDE DEF next
<1> QED
  BY <1>2, <1>9, LongestChosen DEF next

\* What the server has delivered and the client knows of, while the server
\* is established and after that.
Measured ==
  LET server == conn["server"]
      client == conn["client"]
  IN
  /\ StreamEnded <=> ~ IsEstablished(server)
  /\ IsEstablished(server) =>
       /\ DeliveredLength = Position(server.expected)
       /\ packetsSent - InFlight(client) = Position(client.una)
       /\ Position(client.una) \in Nat /\ Position(server.expected) \in Nat
       /\ Position(client.una) <= Position(server.expected)
       /\ Position(server.expected) <= packetsSent
  /\ ~ IsEstablished(server) =>
       DeliveredLength = (CHOOSE k \in Gapless : \A j \in Gapless : j <= k)

LEMMA StreamMeasured == TypeOK /\ Flow /\ OrderInv /\ generated => Measured
<1> SUFFICES ASSUME TypeOK, Flow, OrderInv, generated PROVE Measured
  OBVIOUS
<1> DEFINE server == conn["server"]
           client == conn["client"]
<1>1. /\ server.expected \in SeqNumber /\ client.una \in SeqNumber
      /\ client.seq \in SeqNumber
  BY DEF TypeOK, Endpoint, Connection
<1>2. /\ packetsSent \in SeqNumber /\ packetsSent \in Nat
      /\ \A n \in SeqNumber : Position(n) \in Nat
  BY PositionType
<1>3. StreamEnded <=> ~ IsEstablished(server)
  BY DEF StreamEnded, OrderInv, Flow, IsEstablished
<1>4. ~ IsEstablished(server) =>
        DeliveredLength = (CHOOSE k \in Gapless : \A j \in Gapless : j <= k)
  BY <1>3 DEF DeliveredLength
<1>5. IsEstablished(server) =>
        DeliveredLength = packetsSent - ((client.seq - server.expected) % SeqSize)
  BY <1>3 DEF DeliveredLength
<1>6. ASSUME IsEstablished(server)
      PROVE  /\ Position(client.una) <= Position(server.expected)
             /\ Position(server.expected) <= packetsSent
             /\ Position(client.una) <= packetsSent
  <2>1. /\ Position(client.una) <= Position(server.expected)
        /\ Position(server.expected) <= packetsSent
    BY <1>6 DEF Flow, Received, Position
  <2>2. Position(client.una) \in Nat /\ Position(server.expected) \in Nat
    BY <1>1, <1>2
  <2> QED
    BY <1>2, <2>1, <2>2
<1>7. \A a \in SeqNumber : Position(a) <= packetsSent
        => packetsSent - ((client.seq - a) % SeqSize) = Position(a)
  BY <1>1, <1>2, LengthBefore DEF Position, FirstNumber
<1> QED
  BY <1>1, <1>2, <1>3, <1>4, <1>5, <1>6, <1>7 DEF Measured, InFlight

\* With the prime, for the state after a step.
LEMMA MeasuredNext ==
  TypeOK' /\ Flow' /\ OrderInv' /\ generated' => Measured'
BY StreamMeasured, PTL

LEMMA NetworkFails ==
  ASSUME TypeOK, TypeOK', [Next]_vars, RoomForAll
  PROVE  Stream!NetworkMayFail
<1>1. FaultsKept
  BY FaultsCounted
<1>2. /\ losses \in Nat /\ refusals \in Nat /\ losses' \in Nat /\ refusals' \in Nat
  BY SessionAssumption DEF TypeOK
<1>3. losses' + refusals' = 0 => losses + refusals = 0
  BY <1>1 DEF FaultsKept, Smooth, RoomForAll
<1>4. /\ losses' + refusals' \in Nat /\ losses + refusals \in Nat
  <2>1. \A a, b \in Nat : a + b \in Nat
    OBVIOUS
  <2> QED
    BY <1>2, <2>1
<1>5. (losses' + refusals' > 0) = (losses + refusals > 0)
        \/ (losses' + refusals' > 0) = TRUE
  BY <1>3, <1>4
<1> QED
  BY <1>5 DEF Stream!NetworkMayFail

\* Until the traffic starts nothing of the stream is seen.
LEMMA GenerationStarts ==
  ASSUME SessionInv, Opening, ~ generated, [Next]_vars
  PROVE  /\ packetsSent' = 0
         /\ generated' => BothEstablished'
<1> USE DEF sessionVars, historyVars, timerVars
<1>1. TypeOK
  BY DEF SessionInv, TimerInv, TypeInv
<1>2. ~ PacketGeneration
  <2>1. \A type : Due(type) => type = "handshake"
    BY <1>1, OpeningEvents
  <2> QED
    BY <2>1 DEF PacketGeneration
<1>3. ASSUME packetsSent' = packetsSent, generated' = generated
      PROVE  packetsSent' = 0 /\ (generated' => BothEstablished')
  BY <1>3 DEF Opening
<1>4. ASSUME NEW e, NEW i, ReceiveAckPacket(e, i)
      PROVE  packetsSent' = 0 /\ (generated' => BothEstablished')
  BY <1>4 DEF ReceiveAckPacket, Opening
<1>5. CASE RunDueEvent
  <2>1. packetsSent' = packetsSent /\ generated' = generated
    BY <1>2, <1>5
       DEF RunDueEvent, HandshakeEvent, GenerationEnds, Retransmission,
           FastRetransmit, ConnectionClose
  <2> QED
    BY <1>3, <2>1
<1>6. CASE ReceiveAtServer \/ ReceiveAtClient
  <2>1. CASE \E e, i : ReceiveAckPacket(e, i)
    BY <1>4, <2>1
  <2>2. CASE ~ \E e, i : ReceiveAckPacket(e, i)
    <3>1. packetsSent' = packetsSent /\ generated' = generated
      BY <1>6, <2>2
         DEF ReceiveAtServer, ReceiveAtClient, ReceiveSynPacket, ReceiveSynAckPacket,
             ReceiveDataRejected, ReceiveDataAcked, ReceiveDataDelayed,
             ReceiveFinPacket
    <3> QED
      BY <1>3, <3>1
  <2> QED
    BY <2>1, <2>2
<1>7. CASE FireTimer \/ Lose \/ UNCHANGED vars
  <2>1. packetsSent' = packetsSent /\ generated' = generated
    BY <1>7
       DEF FireTimer, HandshakeTimeoutIgnored, HandshakeTimeout, TimeWaitTimeout,
           Timeout, DelayedAckIgnored, DelayedAckObsolete, DelayedAckSent,
           Lose, LoseInTransit, vars
  <2> QED
    BY <1>3, <2>1
<1> QED
  BY <1>5, <1>6, <1>7 DEF Next

Unstarted ==
  /\ ~ StreamEnded
  /\ packetsSent = 0 /\ DeliveredLength = 0 /\ InFlight(conn["client"]) = 0

LEMMA OpeningMeasured == TypeOK /\ Opening /\ OrderInv /\ ~ generated => Unstarted
<1> SUFFICES ASSUME TypeOK, Opening, OrderInv, ~ generated PROVE Unstarted
  OBVIOUS
<1>1. ~ StreamEnded
  BY DEF StreamEnded, Opening, OrderInv
<1>2. DeliveredLength = 0
  BY <1>1 DEF DeliveredLength
<1>3. conn["client"].una = conn["client"].seq /\ conn["client"].seq \in SeqNumber
  BY DEF Opening, TypeOK, Endpoint, Connection
<1>4. InFlight(conn["client"]) = 0
  <2>1. conn["client"].seq - conn["client"].una = 0
    BY <1>3, SeqSizeAssumption DEF SeqNumber
  <2>2. 0 % SeqSize = 0
    BY SeqSizeAssumption
  <2> QED
    BY <2>1, <2>2 DEF InFlight
<1> QED
  BY <1>1, <1>2, <1>4 DEF Opening, Unstarted

LEMMA OpeningMeasuredNext ==
  TypeOK' /\ Opening' /\ OrderInv' /\ ~ generated' => Unstarted'
BY OpeningMeasured, PTL

LEMMA InitStream ==
  ASSUME Init
  PROVE  Stream!Init
<1>1. /\ ~ generated /\ packetsSent = 0 /\ losses = 0 /\ refusals = 0
      /\ conn["server"].state = "CLOSED" /\ conn["server"].seq = 0
      /\ conn["client"].seq = 0 /\ conn["client"].una = 0
  BY DEF Init, NewConnection, Endpoint
<1>2. ~ StreamEnded
  BY <1>1 DEF StreamEnded
<1>3. DeliveredLength = 0
  BY <1>1, <1>2 DEF DeliveredLength
<1>4. InFlight(conn["client"]) = 0
  <2>1. 0 - 0 = 0 /\ 0 % SeqSize = 0
    BY SeqSizeAssumption
  <2> QED
    BY <1>1, <2>1 DEF InFlight
<1>5. packetsSent - InFlight(conn["client"]) = 0 /\ ~ losses + refusals > 0
  BY <1>1, <1>4
<1> QED
  BY <1>1, <1>2, <1>3, <1>5 DEF Stream!Init

\* A step of the handshake, and the one that starts the traffic.
LEMMA OpeningStream ==
  ASSUME SessionInv, SessionInv', StreamInv, StreamInv', OrderInv, OrderInv',
         ~ generated, RoomForAll, [Next]_vars
  PROVE  Stream!Next
<1>1. TypeOK /\ TypeOK' /\ Opening
  BY DEF SessionInv, TimerInv, TypeInv, StreamInv
<1>2. Stream!NetworkMayFail
  BY <1>1, NetworkFails
<1>3. /\ ~ StreamEnded /\ packetsSent = 0 /\ DeliveredLength = 0
      /\ packetsSent - InFlight(conn["client"]) = 0
  BY <1>1, OpeningMeasured DEF Unstarted
<1>4. packetsSent' = 0 /\ (generated' => BothEstablished')
  BY <1>1, GenerationStarts
<1>5. /\ ~ StreamEnded' /\ DeliveredLength' = 0
      /\ (packetsSent - InFlight(conn["client"]))' = 0
      /\ generated' => IsEstablished(conn["client"])'
  <2>1. CASE ~ generated'
    BY <1>1, <2>1, OpeningMeasuredNext DEF Unstarted, StreamInv
  <2>2. CASE generated'
    <3>1. IsEstablished(conn["server"])' /\ IsEstablished(conn["client"])'
      BY <1>4, <2>2 DEF BothEstablished, Endpoint
    <3>2. Measured'
      BY <1>1, <2>2, MeasuredNext DEF StreamInv
    <3> DEFINE known == Position(conn["client"].una)
               next == Position(conn["server"].expected)
    <3>3. /\ ~ StreamEnded' /\ DeliveredLength' = next'
          /\ (packetsSent - InFlight(conn["client"]))' = known'
          /\ known' \in Nat /\ next' \in Nat /\ known' <= next'
          /\ next' <= packetsSent'
      BY <3>1, <3>2 DEF Measured
    <3> HIDE DEF known, next
    <3>4. known' = 0 /\ next' = 0
      BY <1>4, <3>3
    <3> QED
      BY <3>1, <3>3, <3>4
  <2> QED
    BY <2>1, <2>2
<1>6. /\ ~ (generated /\ ~ IsEstablished(conn["client"]))
      /\ (~ (generated /\ ~ IsEstablished(conn["client"])))'
  BY <1>5
<1>7. StreamEnded' = StreamEnded
  BY <1>3, <1>5 DEF StreamEnded
<1>8. /\ packetsSent' = packetsSent /\ DeliveredLength' = DeliveredLength
      /\ (packetsSent - InFlight(conn["client"]))'
           = packetsSent - InFlight(conn["client"])
      /\ (~ (generated /\ ~ IsEstablished(conn["client"])))'
           = ~ (generated /\ ~ IsEstablished(conn["client"]))
  BY <1>3, <1>4, <1>5, <1>6
<1> QED
  BY <1>2, <1>7, <1>8 DEF Stream!Next

\* What the mapping reads of the two connections stays as it is.
LEMMA AckedKept ==
  ASSUME StreamKept, conn'["client"].una = conn["client"].una
  PROVE  (packetsSent - InFlight(conn["client"]))'
           = packetsSent - InFlight(conn["client"])
BY DEF StreamKept, InFlight

LEMMA DeliveredKept ==
  ASSUME StreamKept, arrived' = arrived, Measured, Measured',
         IsEstablished(conn["server"])' <=> IsEstablished(conn["server"]),
         conn'["server"].expected = conn["server"].expected
           \/ ~ IsEstablished(conn["server"])
  PROVE  DeliveredLength' = DeliveredLength /\ (StreamEnded' <=> StreamEnded)
<1>1. FirstNumber' = FirstNumber /\ packetsSent' = packetsSent
  BY DEF StreamKept, FirstNumber
<1>2. CASE IsEstablished(conn["server"])
  <2>1. Position(conn["server"].expected)' = Position(conn["server"].expected)
    BY <1>1, <1>2 DEF Position
  <2> QED
    BY <1>2, <2>1 DEF Measured
<1>3. CASE ~ IsEstablished(conn["server"])
  <2>1. Gapless' = Gapless
    BY <1>1 DEF Gapless
  <2> QED
    BY <1>3, <2>1 DEF Measured
<1> QED
  BY <1>2, <1>3

\* A new payload, sent once the handshake is over.
LEMMA GenerationStream ==
  ASSUME TypeOK, TypeOK', Flow, generated, generated', Measured, Measured',
         PacketGeneration
  PROVE  Stream!Write
<1> DEFINE server == conn["server"]
           client == conn["client"]
<1>1. /\ "server" \in Endpoint /\ "client" \in Endpoint
      /\ client \in Connection /\ server \in Connection
      /\ client.seq \in SeqNumber
  BY DEF TypeOK, Endpoint, Connection
<1>2. /\ packetsSent' = packetsSent + 1 /\ arrived' = arrived
      /\ conn' = [conn EXCEPT !["client"] = QueueSentSegment(client)]
      /\ IsEstablished(client) /\ IsEstablished(server)
  BY <1>1 DEF PacketGeneration, BothEstablished, historyVars
<1>3. conn'["client"] = QueueSentSegment(client) /\ conn'["server"] = server
  BY <1>1, <1>2 DEF TypeOK
<1>4. /\ conn'["client"].seq = SeqAfter(client.seq) /\ conn'["client"].una = client.una
      /\ conn'["client"].state = client.state
  BY <1>1, <1>3 DEF QueueSentSegment, Connection
<1>5. packetsSent < PacketsPerRoute /\ packetsSent \in SeqNumber /\ packetsSent + 1 < SeqSize
  <2>1. packetsSent + 1 <= PacketsPerRoute
    BY <1>2, SessionAssumption DEF TypeOK
  <2>2. packetsSent \in Nat /\ packetsSent \in SeqNumber /\ PacketsPerRoute < SeqSize
    BY PositionType
  <2> QED
    BY <2>1, <2>2, SessionAssumption, SeqSizeAssumption
<1>6. FirstNumber' = FirstNumber
  BY <1>1, <1>2, <1>4, <1>5, FirstOfStream DEF FirstNumber
<1>7. /\ Position(conn["server"].expected)' = Position(server.expected)
      /\ Position(conn["client"].una)' = Position(client.una)
  BY <1>3, <1>4, <1>6 DEF Position
<1>8. IsEstablished(conn["server"])' /\ IsEstablished(conn["client"])'
  BY <1>2, <1>3, <1>4 DEF IsEstablished
<1>9. /\ DeliveredLength' = DeliveredLength
      /\ (packetsSent - InFlight(conn["client"]))' = packetsSent - InFlight(client)
  BY <1>2, <1>7, <1>8 DEF Measured
<1>10. StreamEnded' = StreamEnded
  BY <1>3 DEF StreamEnded
<1>11. /\ ~ (generated /\ ~ IsEstablished(client))
       /\ (~ (generated /\ ~ IsEstablished(conn["client"])))'
            = ~ (generated /\ ~ IsEstablished(client))
  BY <1>2, <1>8
<1> QED
  BY <1>2, <1>5, <1>9, <1>10, <1>11 DEF Stream!Write

\* An acknowledgement reaches the client.
LEMMA LearningStream ==
  ASSUME TypeOK, TypeOK', Flow, Flow', generated, generated', Measured, Measured',
         ClientLearns
  PROVE  Stream!Acknowledge
<1> DEFINE server == conn["server"]
           client == conn["client"]
           una == conn'["client"].una
<1>1. /\ "server" \in Endpoint /\ "client" \in Endpoint
      /\ client.seq \in SeqNumber /\ client.una \in SeqNumber /\ una \in SeqNumber
  BY DEF TypeOK, Endpoint, Connection
<1>2. /\ StreamKept /\ ServerKept /\ IsEstablished(client)
      /\ IsEstablished(conn["client"])' /\ client.una < una /\ una <= client.seq
  BY DEF ClientLearns, AckAdvances
<1>3. IsEstablished(server) /\ IsEstablished(conn["server"])'
  BY <1>2 DEF Flow, ServerKept, IsEstablished
<1>4. FirstNumber' = FirstNumber /\ packetsSent' = packetsSent /\ FirstNumber \in SeqNumber
  BY <1>2, PositionType DEF StreamKept, FirstNumber
<1>5. /\ DeliveredLength = Position(server.expected)
      /\ packetsSent - InFlight(client) = Position(client.una)
      /\ Position(client.una) <= Position(server.expected)
      /\ Position(server.expected) <= packetsSent
      /\ Position(client.una) \in Nat /\ Position(server.expected) \in Nat
  BY <1>3 DEF Measured
<1>6. /\ Position(conn["server"].expected)' = Position(server.expected)
      /\ Position(conn["client"].una)' = Position(una)
  BY <1>2, <1>4 DEF Position, ServerKept
<1>7. /\ DeliveredLength' = Position(server.expected)
      /\ (packetsSent - InFlight(conn["client"]))' = Position(una)
      /\ Position(una) <= Position(server.expected)
      /\ Position(una) \in Nat
  BY <1>3, <1>6 DEF Measured
<1>8. Position(client.una) < Position(una)
  <2>1. Position(client.seq) = packetsSent /\ packetsSent \in Nat
    BY PositionType
  <2>2. Position(client.una) <= Position(client.seq)
    BY <1>5, <2>1
  <2> QED
    BY <1>1, <1>2, <1>4, <2>2, OffsetAdvances DEF Position
<1>9. StreamEnded' = StreamEnded
  BY <1>2 DEF StreamEnded, ServerKept
<1>10. /\ ~ (generated /\ ~ IsEstablished(client))
       /\ (~ (generated /\ ~ IsEstablished(conn["client"])))'
            = ~ (generated /\ ~ IsEstablished(client))
  BY <1>2
<1>11. (packetsSent - InFlight(conn["client"]))'
         \in (packetsSent - InFlight(client)) + 1 .. DeliveredLength
  BY <1>5, <1>7, <1>8
<1>12. DeliveredLength' = DeliveredLength /\ packetsSent' = packetsSent
  BY <1>4, <1>5, <1>7
<1> QED
  BY <1>9, <1>10, <1>11, <1>12 DEF Stream!Acknowledge

\* The client sends, or leaves ESTABLISHED.
LEMMA ActingStream ==
  ASSUME generated, generated', Measured, Measured', ClientActs
  PROVE  \/ Stream!Finish
         \/ UNCHANGED <<packetsSent, DeliveredLength,
                        packetsSent - InFlight(conn["client"]),
                        ~ (generated /\ ~ IsEstablished(conn["client"])),
                        StreamEnded>>
<1>1. /\ StreamKept /\ ServerKept /\ conn'["client"].una = conn["client"].una
      /\ IsEstablished(conn["client"])' => IsEstablished(conn["client"])
  BY DEF ClientActs
<1>2. (packetsSent - InFlight(conn["client"]))' = packetsSent - InFlight(conn["client"])
  BY <1>1, AckedKept
<1>3. IsEstablished(conn["server"])' <=> IsEstablished(conn["server"])
  BY <1>1 DEF ServerKept, IsEstablished
<1>4. DeliveredLength' = DeliveredLength /\ packetsSent' = packetsSent
  BY <1>1, <1>3, DeliveredKept DEF ServerKept, StreamKept
<1>5. StreamEnded' = StreamEnded
  BY <1>1 DEF StreamEnded, ServerKept
<1>6. CASE IsEstablished(conn["client"])' <=> IsEstablished(conn["client"])
  <2>1. (~ (generated /\ ~ IsEstablished(conn["client"])))'
          = ~ (generated /\ ~ IsEstablished(conn["client"]))
    BY <1>6
  <2> QED
    BY <1>2, <1>4, <1>5, <2>1
<1>7. CASE ~ (IsEstablished(conn["client"])' <=> IsEstablished(conn["client"]))
  <2>1. /\ ~ (generated /\ ~ IsEstablished(conn["client"]))
        /\ (~ (generated /\ ~ IsEstablished(conn["client"])))' = FALSE
    BY <1>1, <1>7
  <2> QED
    BY <1>2, <1>4, <1>5, <2>1 DEF Stream!Finish
<1> QED
  BY <1>6, <1>7

\* What arrives at the server leaves the client as it was.
LEMMA ServerLeavesClient ==
  ASSUME generated, generated', StreamKept, conn'["client"] = conn["client"]
  PROVE  /\ packetsSent' = packetsSent
         /\ (packetsSent - InFlight(conn["client"]))'
              = packetsSent - InFlight(conn["client"])
         /\ (~ (generated /\ ~ IsEstablished(conn["client"])))'
              = ~ (generated /\ ~ IsEstablished(conn["client"]))
<1>1. (packetsSent - InFlight(conn["client"]))' = packetsSent - InFlight(conn["client"])
  BY AckedKept
<1>2. IsEstablished(conn["client"])' = IsEstablished(conn["client"])
  OBVIOUS
<1> QED
  BY <1>1, <1>2 DEF StreamKept

LEMMA QuietServerStream ==
  ASSUME generated, generated', Measured, Measured',
         ServerIgnores \/ ServerCloses \/ PacketLost
  PROVE  UNCHANGED <<packetsSent, DeliveredLength,
                     packetsSent - InFlight(conn["client"]),
                     ~ (generated /\ ~ IsEstablished(conn["client"])), StreamEnded>>
<1>1. /\ StreamKept /\ conn'["client"] = conn["client"] /\ arrived' = arrived
      /\ \/ ServerKept
         \/ /\ ServerCloses
            /\ conn["server"].state = "LAST_ACK" /\ conn'["server"].state = "CLOSED"
  BY DEF ServerIgnores, ServerCloses, PacketLost, ServerTakes, ServerKept
<1>2. /\ IsEstablished(conn["server"])' <=> IsEstablished(conn["server"])
      /\ \/ conn'["server"].expected = conn["server"].expected
         \/ ~ IsEstablished(conn["server"])
  BY <1>1 DEF ServerKept, IsEstablished
<1>3. DeliveredLength' = DeliveredLength /\ (StreamEnded' <=> StreamEnded)
  BY <1>1, <1>2, DeliveredKept
<1>4. StreamEnded' = StreamEnded
  BY <1>3 DEF StreamEnded
<1> QED
  BY <1>1, <1>3, <1>4, ServerLeavesClient

\* DATA the server takes is delivered with what was buffered behind it, or
\* waits for what is missing.
LEMMA ReceivingStream ==
  ASSUME TypeOK, TypeOK', Flow, OrderInv, generated, generated', Measured, Measured',
         ServerReceives
  PROVE  \/ Stream!Deliver
         \/ UNCHANGED <<packetsSent, DeliveredLength,
                        packetsSent - InFlight(conn["client"]),
                        ~ (generated /\ ~ IsEstablished(conn["client"])),
                        StreamEnded>>
<1> DEFINE server == conn["server"]
           s == net["server"][1].seq
           r == ReceiveData(server, s)
<1>1. /\ "server" \in Endpoint /\ server \in Connection
      /\ arrived \in SUBSET SeqNumber
      /\ server.expected \in SeqNumber
  BY DEF TypeOK, Endpoint, Connection
<1>2. /\ StreamKept /\ conn'["client"] = conn["client"]
      /\ 1 \in DOMAIN net["server"] /\ net["server"][1].type = "DATA"
      /\ AcceptsData(server, s) /\ conn'["server"].state = server.state
      /\ conn'["server"].expected = r.expected
  BY DEF ServerReceives, ServerTakes
<1>3. net["server"][1] \in Range(net["server"])
  BY <1>2 DEF Range
<1>4. s \in SeqNumber /\ Position(s) < packetsSent
  BY <1>1, <1>2, <1>3, PacketType DEF Flow
<1>5. IsEstablished(server) /\ IsEstablished(conn["server"])'
  <2>1. IsEstablished(server)
    BY <1>2 DEF OrderInv, OnlyAcks
  <2> QED
    BY <1>2, <2>1 DEF IsEstablished
<1>6. /\ FirstNumber \in SeqNumber /\ packetsSent \in Nat /\ packetsSent < SeqSize
      /\ FirstNumber' = FirstNumber
  BY <1>2, PositionType DEF StreamKept, FirstNumber
<1>7. Offset(FirstNumber, server.expected) <= Offset(FirstNumber, r.expected)
  <2>1. Received(FirstNumber, packetsSent, server, arrived)
    BY <1>5 DEF Flow
  <2> QED
    BY <1>1, <1>2, <1>4, <1>6, <2>1, ReceiveDataReceived DEF Position
<1> DEFINE before == Position(server.expected)
           after == Offset(FirstNumber, r.expected)
<1>8. /\ DeliveredLength = before /\ before \in Nat /\ ~ StreamEnded
  BY <1>5 DEF Measured
<1>9. /\ Position(conn["server"].expected)' = after /\ packetsSent' = packetsSent
  BY <1>2, <1>6 DEF Position, StreamKept
<1>10. /\ DeliveredLength' = after /\ after \in Nat /\ ~ StreamEnded'
       /\ after <= packetsSent
  BY <1>5, <1>9 DEF Measured
<1>11. before <= after
  BY <1>7 DEF Position
<1>12. StreamEnded' = StreamEnded
  BY <1>8, <1>10 DEF StreamEnded
<1> HIDE DEF before, after
<1>13. /\ packetsSent' = packetsSent
       /\ (packetsSent - InFlight(conn["client"]))'
            = packetsSent - InFlight(conn["client"])
       /\ (~ (generated /\ ~ IsEstablished(conn["client"])))'
            = ~ (generated /\ ~ IsEstablished(conn["client"]))
  BY <1>2, ServerLeavesClient
<1>14. CASE before = after
  BY <1>8, <1>10, <1>12, <1>13, <1>14
<1>15. CASE before # after
  <2>1. after \in before + 1 .. packetsSent
    BY <1>6, <1>8, <1>10, <1>11, <1>15
  <2>2. DeliveredLength' \in DeliveredLength + 1 .. packetsSent
    BY <1>8, <1>10, <2>1
  <2> QED
    BY <1>8, <1>12, <1>13, <2>2 DEF Stream!Deliver
<1> QED
  BY <1>14, <1>15

\* The FIN: nothing is behind it, so nothing sent is missing, unless packets
\* were lost or refused.
LEMMA EndingStream ==
  ASSUME TypeOK, TypeOK', Flow, OrderInv, generated, generated', Measured, Measured',
         RoomForAll, ServerEnds
  PROVE  Stream!End
<1> DEFINE server == conn["server"]
           q == net["server"]
<1>1. /\ StreamKept /\ conn'["client"] = conn["client"] /\ arrived' = arrived
      /\ 1 \in DOMAIN q /\ q[1].type = "FIN"
      /\ IsEstablished(server) /\ conn'["server"].state = "LAST_ACK"
  BY DEF ServerEnds, ServerTakes
<1>2. /\ packetsSent' = packetsSent
      /\ (packetsSent - InFlight(conn["client"]))'
           = packetsSent - InFlight(conn["client"])
      /\ (~ (generated /\ ~ IsEstablished(conn["client"])))'
           = ~ (generated /\ ~ IsEstablished(conn["client"]))
  BY <1>1, ServerLeavesClient
<1>3. ~ IsEstablished(conn["client"])
  <2>1. q[1] \in Range(q)
    BY <1>1 DEF Range
  <2> QED
    BY <1>1, <2>1 DEF Flow, Without
<1>4. /\ ~ IsEstablished(conn["server"])' /\ ~ StreamEnded
      /\ StreamEnded' = TRUE
      /\ DeliveredLength = Position(server.expected)
  BY <1>1 DEF Measured, IsEstablished, StreamEnded
<1>5. DeliveredLength' = DeliveredLength
  <2>1. FirstNumber' = FirstNumber
    BY <1>1 DEF StreamKept, FirstNumber
  <2>2. Gapless' = Gapless
    BY <1>1, <1>2, <2>1 DEF Gapless
  <2>3. DeliveredLength' = CHOOSE k \in Gapless : \A j \in Gapless : j <= k
    BY <1>4, <2>2 DEF Measured
  <2> QED
    BY <1>1, <1>4, <2>3, GaplessUpToExpected
<1>6. losses + refusals > 0 \/ DeliveredLength = packetsSent
  <2>1. losses \in Nat /\ refusals \in Nat /\ packetsSent \in Nat
    BY SessionAssumption, PositionType DEF TypeOK
  <2>2. /\ Position(server.expected) \in Nat
        /\ Position(server.expected) <= packetsSent
    BY <1>1 DEF Measured
  <2>3. SUFFICES ASSUME losses + refusals = 0, Position(server.expected) < packetsSent
                 PROVE  FALSE
    BY <1>4, <2>1, <2>2
  <2>4. InOrder(q, FirstNumber, Position(server.expected), packetsSent)
    BY <1>1, <2>3 DEF OrderInv, Smooth
  <2>5. Position(server.expected) \in Position(server.expected) .. packetsSent - 1
    BY <2>1, <2>2, <2>3
  <2>6. PICK i \in DOMAIN q : q[i].type = "DATA"
    BY <2>4, <2>5 DEF InOrder, Carries
  <2>7. q \in Seq(Segment)
    BY DEF TypeOK, Endpoint
  <2>8. i # 1 /\ 1 < i
    BY <1>1, <2>6, <2>7, LenProperties
  <2> QED
    BY <1>1, <2>6, <2>8 DEF OrderInv, OnlyAcksBehindFin
<1> QED
  BY <1>2, <1>3, <1>4, <1>5, <1>6 DEF Stream!End

LEMMA FlowStream ==
  ASSUME SessionInv, SessionInv', StreamInv, StreamInv', OrderInv, OrderInv',
         generated, ~ Reordering, RoomForAll, [Next]_vars
  PROVE  Stream!Next
<1>1. TypeOK /\ TypeOK' /\ Flow
  BY DEF SessionInv, TimerInv, TypeInv, StreamInv
<1>2. generated' /\ StreamStep
  BY <1>1, NextStreamStep
<1>3. Flow'
  BY <1>2 DEF StreamInv
<1>4. Measured /\ Measured'
  BY <1>1, <1>2, <1>3, StreamMeasured, MeasuredNext
<1>5. Stream!NetworkMayFail
  BY <1>1, NetworkFails
<1>6. CASE ClientActs
  BY <1>2, <1>4, <1>5, <1>6, ActingStream DEF Stream!Next
<1>7. CASE ClientLearns
  BY <1>1, <1>2, <1>3, <1>4, <1>5, <1>7, LearningStream DEF Stream!Next
<1>8. CASE PacketGeneration
  BY <1>1, <1>2, <1>4, <1>5, <1>8, GenerationStream DEF Stream!Next
<1>9. CASE PacketLost \/ ServerIgnores \/ ServerCloses
  BY <1>2, <1>4, <1>5, <1>9, QuietServerStream DEF Stream!Next
<1>10. CASE ServerReceives
  BY <1>1, <1>2, <1>4, <1>5, <1>10, ReceivingStream DEF Stream!Next
<1>11. CASE ServerEnds
  BY <1>1, <1>2, <1>4, <1>5, <1>11, EndingStream DEF Stream!Next
<1> QED
  BY <1>2, <1>6, <1>7, <1>8, <1>9, <1>10, <1>11 DEF StreamStep

(***************************************************************************)
(* On routes that keep order, and with a receive buffer that takes the     *)
(* whole stream, the session is a reliable stream: in-order, gapless,      *)
(* exactly-once delivery, acknowledgements of delivered data only, and     *)
(* nothing sent is cut off by the FIN as long as no packet was lost or     *)
(* refused (receive_data, receive_ack, TCPConnectionCloseEvent).           *)
(***************************************************************************)
THEOREM SessionIsAStream ==
  ASSUME ~ Reordering, ReceiveWindow >= PacketsPerRoute
  PROVE  Spec => ImplementsStream
<1>1. RoomForAll
  BY DEF RoomForAll
<1>2. Init => Stream!Init
  BY InitStream
<1>3. (SessionInv /\ StreamInv /\ OrderInv) /\ (SessionInv /\ StreamInv /\ OrderInv)'
        /\ [Next]_vars => [Stream!Next]_(Stream!vars)
  BY <1>1, OpeningStream, FlowStream
<1> QED
  BY <1>2, <1>3, OrderInvariance, PTL DEF Spec, ImplementsStream, Stream!Spec

-----------------------------------------------------------------------------
(* What the session therefore promises. *)

\* Inductive: a stream that has ended is no longer written to.
StreamPromise ==
  /\ packetsSent \in Nat /\ DeliveredLength \in Int
  /\ packetsSent - InFlight(conn["client"]) \in Int
  /\ Stream!Promise
  /\ StreamEnded => generated /\ ~ IsEstablished(conn["client"])

LEMMA PromiseInitially == Stream!Init => StreamPromise
BY SessionAssumption DEF Stream!Init, StreamPromise, Stream!Promise

LEMMA PromiseKept ==
  ASSUME StreamPromise, [Stream!Next]_(Stream!vars)
  PROVE  StreamPromise'
<1> USE SessionAssumption DEF StreamPromise, Stream!Promise
<1>1. CASE UNCHANGED Stream!vars
  BY <1>1 DEF Stream!vars
<1>2. CASE Stream!Next
  <2>1. losses + refusals > 0 => losses' + refusals' > 0
    BY <1>2 DEF Stream!Next, Stream!NetworkMayFail
  <2>2. CASE Stream!Write
    BY <2>1, <2>2 DEF Stream!Write
  <2>3. CASE Stream!Deliver
    BY <2>1, <2>3 DEF Stream!Deliver
  <2>4. CASE Stream!Acknowledge
    BY <2>1, <2>4 DEF Stream!Acknowledge
  <2>5. CASE Stream!Finish
    BY <2>1, <2>5 DEF Stream!Finish
  <2>6. CASE Stream!End
    BY <2>1, <2>6 DEF Stream!End
  <2> QED
    BY <1>2, <2>1, <2>2, <2>3, <2>4, <2>5, <2>6 DEF Stream!Next
<1> QED
  BY <1>1, <1>2

(***************************************************************************)
(* At any moment what the sender holds for acknowledged is at most what    *)
(* the receiver has got, and that at most what was sent; and if no packet  *)
(* was lost or refused, the FIN ends the stream after the last payload     *)
(* sent (receive_data, receive_ack, TCPConnectionCloseEvent).              *)
(***************************************************************************)
THEOREM SessionKeepsPromise ==
  ASSUME ~ Reordering, ReceiveWindow >= PacketsPerRoute
  PROVE  Spec => []Stream!Promise
<1>1. Spec => Stream!Spec
  BY SessionIsAStream DEF ImplementsStream
<1>2. StreamPromise => Stream!Promise
  BY DEF StreamPromise
<1> QED
  BY <1>1, <1>2, PromiseInitially, PromiseKept, PTL DEF Stream!Spec

=============================================================================
