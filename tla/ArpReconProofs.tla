--------------------------- MODULE ArpReconProofs ---------------------------
(***************************************************************************)
(* The safety properties of ArpRecon for every table size, queue size,     *)
(* clock bound and set of addresses.                                       *)
(*                                                                         *)
(* The counters of a context are words, so that they count is part of the  *)
(* invariant: replies no more than were heard, timeouts no more than were  *)
(* asked, and conflicts no more than there are pairs in the table.         *)
(***************************************************************************)
EXTENDS ArpRecon, ContextProofs, FiniteSetTheorems

CountsBounded ==
  /\ stats.replies <= Len(heard)
  /\ stats.timeouts + (IF waiting THEN 1 ELSE 0) <= asked.no

Inv == TypeOK /\ TableIsFirstHeard /\ DupsCountConflicts /\ CountsBounded

LEMMA EventTypes ==
  /\ ZeroEvent \in Event /\ SpoofEvent \in Event /\ TimeoutEvent \in Event
  /\ \A mac \in Mac, lat \in Word : ReplyEvent(mac, lat) \in Event
  BY WordAssumption DEF Event, ZeroEvent, SpoofEvent, TimeoutEvent, ReplyEvent, Word

----------------------------------------------------------------------------
(* The burst of spoof events. *)

\* The remainder of a sum of two indices.
LEMMA Wrap ==
  ASSUME NEW m \in Nat, NEW x \in Nat, x < 2 * m
  PROVE  x % m = IF x < m THEN x ELSE x - m
<1>1. CASE x < m
  BY <1>1
<1>2. CASE x >= m
  <2>1. x - m \in 0..(m - 1) /\ x = (x - m) + m
    BY <1>2
  <2> QED
    BY <1>2, <2>1
<1> QED
  BY <1>1, <1>2

\* Pushing k spoof events leaves a well-formed queue, fills what room there
\* is and touches no event that was there.
LEMMA BurstOK ==
  ASSUME NEW r \in Rings(Event), RingOK(r), NEW k \in Nat
  PROVE  /\ PushSpoofs(r, k) \in Rings(Event)
         /\ RingOK(PushSpoofs(r, k))
         /\ PushSpoofs(r, k).qsz = r.qsz
         /\ PushSpoofs(r, k).cnt = r.cnt + Min2(k, r.qsz - r.cnt)
         /\ \A i \in 1..r.cnt : Contents(PushSpoofs(r, k))[i] = Contents(r)[i]
<1> DEFINE t == PushSpoofs(r, k)
<1>1. PICK m \in Nat, h \in Nat, l \in Nat, c \in Nat :
        /\ m = r.qsz /\ h = r.head /\ l = r.tail /\ c = r.cnt
        /\ 0 < m /\ m <= MAX_Q
        /\ h < m /\ l < m /\ c <= m
        /\ l = (h + c) % m
  BY RingFields
<1>2. PICK n \in Nat : n = Min2(k, r.qsz - r.cnt) /\ n <= m - c
  BY <1>1 DEF Min2
<1>nat. m \in Nat
  OBVIOUS
<1>wrap. \A x \in Nat : x < 2 * m => x % m = IF x < m THEN x ELSE x - m
  BY <1>nat, Wrap
<1>3. l = IF h + c < m THEN h + c ELSE h + c - m
  <2>1. h + c \in Nat /\ h + c < 2 * m
    BY <1>1
  <2> QED
    BY <1>1, <1>wrap, <2>1
<1>4. (l + n) % m = IF l + n < m THEN l + n ELSE l + n - m
  <2>1. l + n \in Nat /\ l + n < 2 * m
    BY <1>1, <1>2
  <2> QED
    BY <1>wrap, <2>1
<1>5. (h + (c + n)) % m = IF h + (c + n) < m THEN h + (c + n) ELSE h + (c + n) - m
  <2>1. h + (c + n) \in Nat /\ h + (c + n) < 2 * m
    BY <1>1, <1>2
  <2> QED
    BY <1>wrap, <2>1
<1>6. t = [qsz |-> m,
           q |-> [i \in Slots |-> IF i < m /\ (i + m - l) % m < n THEN SpoofEvent ELSE r.q[i]],
           head |-> h, tail |-> (l + n) % m, cnt |-> c + n]
  BY <1>1, <1>2 DEF PushSpoofs
<1>7. (l + n) % m \in 0..(m - 1) /\ (l + n) % m = (h + (c + n)) % m
  BY <1>1, <1>2, <1>3, <1>4, <1>5
<1>8. t \in Rings(Event)
  <2>1. t.q \in [Slots -> Event]
    BY <1>6, EventTypes, RingFields
  <2>2. m \in 1..MAX_Q /\ h \in Slots /\ c + n \in 0..MAX_Q /\ (l + n) % m \in Slots
    BY <1>1, <1>2, <1>7, QueueAssumption DEF Slots
  <2> QED
    BY <1>6, <2>1, <2>2 DEF Rings
<1>9. RingOK(t)
  <2>1. PICK p \in Nat : p = (l + n) % m /\ p < m
    BY <1>1, <1>7
  <2> QED
    BY <1>1, <1>2, <1>6, <1>7, <2>1 DEF RingOK
<1>10. ASSUME NEW i \in 1..c
       PROVE  Contents(t)[i] = Contents(r)[i]
  <2>1. PICK s \in Nat : s = (h + i - 1) % m /\ s < m
    BY <1>1
  <2>2. s = IF h + i - 1 < m THEN h + i - 1 ELSE h + i - 1 - m
    <3>1. h + i - 1 \in Nat /\ h + i - 1 < 2 * m
      BY <1>1
    <3> QED
      BY <1>wrap, <2>1, <3>1
  <2>3. (s + m - l) % m >= n
    <3>1. s + m - l \in Nat /\ s + m - l < 2 * m
      BY <1>1, <2>1
    <3>2. (s + m - l) % m = IF s + m - l < m THEN s + m - l ELSE s + m - l - m
      BY <1>wrap, <3>1
    <3> QED
      BY <1>1, <1>2, <1>3, <2>1, <2>2, <3>2
  <2>4. s \in Slots
    BY <1>1, <2>1, QueueAssumption DEF Slots
  <2>5. t.q[s] = r.q[s]
    <3>1. ~((s + m - l) % m < n)
      BY <1>1, <1>2, <2>1, <2>3
    <3> QED
      BY <1>6, <2>4, <3>1
  <2>6. Contents(t)[i] = t.q[(h + i - 1) % m]
    <3>1. i \in 1..(c + n) /\ t.cnt = c + n /\ t.head = h /\ t.qsz = m
      BY <1>1, <1>2, <1>6
    <3> QED
      BY <3>1 DEF Contents
  <2>7. Contents(r)[i] = r.q[(h + i - 1) % m]
    BY <1>1 DEF Contents
  <2> QED
    BY <2>1, <2>5, <2>6, <2>7
<1>11. t.qsz = r.qsz /\ t.cnt = r.cnt + Min2(k, r.qsz - r.cnt)
  BY <1>1, <1>2, <1>6
<1> QED
  BY <1>1, <1>8, <1>9, <1>10, <1>11

\* The slots that a burst fills hold spoof events.
LEMMA BurstFills ==
  ASSUME NEW r \in Rings(Event), RingOK(r), NEW k \in Nat,
         NEW i \in (r.cnt + 1)..PushSpoofs(r, k).cnt
  PROVE  Contents(PushSpoofs(r, k))[i] = SpoofEvent
<1> DEFINE t == PushSpoofs(r, k)
<1>1. PICK m \in Nat, h \in Nat, l \in Nat, c \in Nat :
        /\ m = r.qsz /\ h = r.head /\ l = r.tail /\ c = r.cnt
        /\ 0 < m /\ m <= MAX_Q
        /\ h < m /\ l < m /\ c <= m
        /\ l = (h + c) % m
  BY RingFields
<1>2. PICK n \in Nat : n = Min2(k, r.qsz - r.cnt) /\ n <= m - c
  BY <1>1 DEF Min2
<1>wrap. \A x \in Nat : x < 2 * m => x % m = IF x < m THEN x ELSE x - m
  <2>1. m \in Nat
    OBVIOUS
  <2> QED
    BY <2>1, Wrap
<1>3. l = IF h + c < m THEN h + c ELSE h + c - m
  <2>1. h + c \in Nat /\ h + c < 2 * m
    BY <1>1
  <2> QED
    BY <1>1, <1>wrap, <2>1
<1>4. /\ t.qsz = m /\ t.head = h /\ t.cnt = c + n
      /\ t.q = [s \in Slots |-> IF s < m /\ (s + m - l) % m < n THEN SpoofEvent ELSE r.q[s]]
  BY <1>1, <1>2 DEF PushSpoofs
<1>5. i \in (c + 1)..(c + n)
  BY <1>1, <1>4
<1>6. PICK s \in Nat : /\ s = (h + i - 1) % m
                       /\ s = IF h + i - 1 < m THEN h + i - 1 ELSE h + i - 1 - m
  <2>1. h + i - 1 \in Nat /\ h + i - 1 < 2 * m
    BY <1>1, <1>2, <1>5
  <2> QED
    BY <1>1, <1>wrap, <2>1
<1>7. s < m /\ s + m - l \in Nat /\ s + m - l < 2 * m
  BY <1>1, <1>2, <1>3, <1>5, <1>6
<1>8. (s + m - l) % m = IF s + m - l < m THEN s + m - l ELSE s + m - l - m
  BY <1>wrap, <1>7
<1>9. (s + m - l) % m < n
  BY <1>1, <1>2, <1>3, <1>5, <1>6, <1>7, <1>8
<1>10. s \in Slots
  BY <1>1, <1>7, QueueAssumption DEF Slots
<1>11. Contents(t)[i] = t.q[s]
  <2>1. i \in 1..t.cnt
    BY <1>1, <1>4, <1>5
  <2> QED
    BY <1>4, <1>6, <2>1 DEF Contents
<1> QED
  BY <1>4, <1>7, <1>9, <1>10, <1>11

\* No spoof event leaves the queue as it is.
LEMMA NoBurst ==
  ASSUME NEW r \in Rings(Event), RingOK(r)
  PROVE  PushSpoofs(r, 0) = r
<1>1. PICK m \in Nat, h \in Nat, l \in Nat, c \in Nat :
        /\ m = r.qsz /\ h = r.head /\ l = r.tail /\ c = r.cnt
        /\ 0 < m /\ m <= MAX_Q
        /\ h < m /\ l < m /\ c <= m
        /\ l = (h + c) % m
  BY RingFields
<1>2. Min2(0, r.qsz - r.cnt) = 0
  BY <1>1 DEF Min2
<1>3. ASSUME NEW i \in Slots, i < m PROVE ~((i + m - l) % m < 0)
  <2>1. i + m - l \in Nat /\ m \in Nat /\ m > 0
    BY <1>1, <1>3, QueueAssumption DEF Slots
  <2>2. (i + m - l) % m \in 0..(m - 1)
    BY <2>1
  <2> QED
    BY <2>1, <2>2
<1>4. r.q \in [Slots -> Event]
  BY RingFields
<1>5. [i \in Slots |-> IF i < m /\ (i + m - l) % m < 0 THEN SpoofEvent ELSE r.q[i]] = r.q
  <2> DEFINE f == [i \in Slots |-> IF i < m /\ (i + m - l) % m < 0 THEN SpoofEvent ELSE r.q[i]]
  <2>1. \A i \in Slots : f[i] = r.q[i]
    BY <1>3
  <2>2. f \in [Slots -> Event]
    BY <1>4, <2>1
  <2> HIDE DEF f
  <2>3. f = r.q
    BY <1>4, <2>1, <2>2
  <2> QED
    BY <2>3 DEF f
<1>6. (l + 0) % m = l /\ c + 0 = c
  <2>1. m \in Nat /\ l \in Nat /\ l < 2 * m /\ l < m
    BY <1>1
  <2>2. l % m = l
    BY <2>1, Wrap
  <2>3. l + 0 = l /\ c + 0 = c
    OBVIOUS
  <2> QED
    BY <2>2, <2>3, Zenon
<1>7. PushSpoofs(r, 0) = [qsz |-> m, q |-> r.q, head |-> h, tail |-> l, cnt |-> c]
  <2>1. PushSpoofs(r, 0) =
          [qsz |-> m,
           q |-> [i \in Slots |-> IF i < m /\ (i + m - l) % m < 0 THEN SpoofEvent ELSE r.q[i]],
           head |-> h, tail |-> (l + 0) % m, cnt |-> c + 0]
    BY <1>1, <1>2 DEF PushSpoofs
  <2> QED
    BY <1>5, <1>6, <2>1, Zenon
<1>8. r = [qsz |-> m, q |-> r.q, head |-> h, tail |-> l, cnt |-> c]
  BY <1>1 DEF Rings
<1> QED
  BY <1>7, <1>8, Zenon

\* A burst longer by one is a burst and a push.
LEMMA OneMoreSpoof ==
  ASSUME NEW r \in Rings(Event), RingOK(r), NEW k \in Nat
  PROVE  PushSpoofs(r, k + 1) = qpush(PushSpoofs(r, k), SpoofEvent)
<1> DEFINE t == PushSpoofs(r, k)
           Filled(n, m, l) ==
             [i \in Slots |-> IF i < m /\ (i + m - l) % m < n THEN SpoofEvent ELSE r.q[i]]
<1>1. PICK m \in Nat, h \in Nat, l \in Nat, c \in Nat :
        /\ m = r.qsz /\ h = r.head /\ l = r.tail /\ c = r.cnt
        /\ 0 < m /\ m <= MAX_Q
        /\ h < m /\ l < m /\ c <= m
        /\ l = (h + c) % m
  BY RingFields
<1>2. PICK n \in Nat : n = Min2(k, r.qsz - r.cnt) /\ n <= m - c
  BY <1>1 DEF Min2
<1>3. t = [qsz |-> m, q |-> Filled(n, m, l), head |-> h, tail |-> (l + n) % m, cnt |-> c + n]
  BY <1>1, <1>2 DEF PushSpoofs
<1>4. CASE n = m - c
  <2>1. Min2(k + 1, r.qsz - r.cnt) = n
    BY <1>1, <1>2, <1>4 DEF Min2
  <2>2. PushSpoofs(r, k + 1) = t
    BY <1>1, <1>3, <2>1 DEF PushSpoofs
  <2>3. t \in Rings(Event) /\ RingOK(t)
    BY BurstOK
  <2>4. t.cnt = t.qsz
    BY <1>1, <1>3, <1>4
  <2> HIDE DEF t
  <2>5. qpush(t, SpoofEvent) = t
    BY <2>3, <2>4, EventTypes, PushFull
  <2> QED
    BY <2>2, <2>5 DEF t
<1>5. CASE n # m - c
  <2>0. n < m - c /\ n < m
    BY <1>1, <1>2, <1>5
  <2>1. Min2(k + 1, r.qsz - r.cnt) = n + 1
    BY <1>1, <1>2, <2>0 DEF Min2
  <2>wrap. \A x \in Nat : x < 2 * m => x % m = IF x < m THEN x ELSE x - m
    <3>1. m \in Nat
      OBVIOUS
    <3> QED
      BY <3>1, Wrap
  <2>2. PICK p \in Nat : p = (l + n) % m /\ p = IF l + n < m THEN l + n ELSE l + n - m
    <3>1. l + n \in Nat /\ l + n < 2 * m
      BY <1>1, <2>0
    <3> QED
      BY <1>1, <2>wrap, <3>1
  <2>3. p < m /\ p \in Slots
    BY <1>1, <2>0, <2>2, QueueAssumption DEF Slots
  <2>4. (p + 1) % m = (l + (n + 1)) % m
    <3>1. p + 1 \in Nat /\ p + 1 < 2 * m
      BY <1>1, <2>3
    <3>2. (p + 1) % m = IF p + 1 < m THEN p + 1 ELSE p + 1 - m
      BY <2>wrap, <3>1
    <3>3. l + (n + 1) \in Nat /\ l + (n + 1) < 2 * m
      BY <1>1, <2>0
    <3>4. (l + (n + 1)) % m = IF l + (n + 1) < m THEN l + (n + 1) ELSE l + (n + 1) - m
      BY <2>wrap, <3>3
    <3> QED
      BY <1>1, <2>0, <2>2, <3>2, <3>4
  <2>5. \A i \in Slots : i < m => ((i + m - l) % m < n + 1 <=> (i + m - l) % m < n \/ i = p)
    <3> SUFFICES ASSUME NEW i \in Slots, i < m
                 PROVE  (i + m - l) % m < n + 1 <=> (i + m - l) % m < n \/ i = p
      OBVIOUS
    <3>1. i \in Nat /\ i + m - l \in Nat /\ i + m - l < 2 * m
      BY <1>1, QueueAssumption DEF Slots
    <3>2. (i + m - l) % m = IF i + m - l < m THEN i + m - l ELSE i + m - l - m
      BY <2>wrap, <3>1
    <3> QED
      BY <1>1, <2>0, <2>2, <3>1, <3>2
  <2>6. Filled(n + 1, m, l) = [Filled(n, m, l) EXCEPT ![p] = SpoofEvent]
    BY <2>3, <2>5
  <2>7. PushSpoofs(r, k + 1) =
          [qsz |-> m, q |-> Filled(n + 1, m, l), head |-> h,
           tail |-> (l + (n + 1)) % m, cnt |-> c + (n + 1)]
    BY <1>1, <2>1 DEF PushSpoofs
  <2> HIDE DEF Filled
  <2>8. /\ t.qsz = m /\ t.q = Filled(n, m, l) /\ t.head = h /\ t.tail = p /\ t.cnt = c + n
        /\ ~(t.cnt >= t.qsz)
    BY <1>1, <1>3, <2>0, <2>2
  <2> HIDE DEF t
  <2>9. qpush(t, SpoofEvent) =
          [qsz |-> m, q |-> [Filled(n, m, l) EXCEPT ![p] = SpoofEvent], head |-> h,
           tail |-> (p + 1) % m, cnt |-> (c + n) + 1]
    BY <2>8, Zenon DEF qpush
  <2>10. (c + n) + 1 = c + (n + 1)
    OBVIOUS
  <2>11. PushSpoofs(r, k + 1) = qpush(t, SpoofEvent)
    BY <2>4, <2>6, <2>7, <2>9, <2>10, Zenon
  <2> QED
    BY <2>11 DEF t
<1> QED
  BY <1>4, <1>5

(* The burst of spoof events is what the code's loop leaves: one qpush for *)
(* each conflict, of which those after the queue is full do nothing.       *)
THEOREM SpoofsArePushes ==
  ASSUME NEW r \in Rings(Event), RingOK(r), NEW k \in Nat
  PROVE  PushSpoofs(r, k) = FoldLeft(qpush, r, [i \in 1..k |-> SpoofEvent])
<1> DEFINE es == [i \in 1..k |-> SpoofEvent]
<1>1. es \in Seq(Event) /\ Len(es) = k /\ \A i \in 1..k : es[i] = SpoofEvent
  BY EventTypes
<1> HIDE DEF es
<1>2. PICK h : /\ h[0] = r /\ Burst(r, es) = h[Len(es)]
               /\ \A j \in 1..Len(es) : h[j] = qpush(h[j - 1], es[j])
  BY <1>1, PushFold
<1> DEFINE P == {j \in 0..k : h[j] = PushSpoofs(r, j)}
<1>3. 0 \in P
  BY <1>2, NoBurst
<1>4. ASSUME NEW j \in 1..k, j - 1 \in P PROVE j \in P
  <2>1. h[j] = qpush(PushSpoofs(r, j - 1), SpoofEvent)
    BY <1>1, <1>2, <1>4
  <2>2. j - 1 \in Nat /\ (j - 1) + 1 = j
    OBVIOUS
  <2>3. PushSpoofs(r, (j - 1) + 1) = qpush(PushSpoofs(r, j - 1), SpoofEvent)
    BY <2>2, OneMoreSpoof
  <2>4. h[j] = PushSpoofs(r, j)
    BY <2>1, <2>2, <2>3, Zenon
  <2> QED
    BY <2>4
<1>5. k \in P
  <2> HIDE DEF P
  <2>1. \A j \in 0..k : j \in P
    BY <1>3, <1>4, UpTo
  <2> QED
    BY <2>1
<1>6. Burst(r, es) = PushSpoofs(r, k)
  BY <1>1, <1>2, <1>5
<1> QED
  BY <1>6 DEF Burst, es

----------------------------------------------------------------------------
(* Conflicts in the table. *)

\* What Conflicts(mac, ip) is, for any table.
ConflictsIn(s, x) == {i \in 1..Len(s) : Conflicting(s[i], x)}

LEMMA ConflictsFinite ==
  ASSUME NEW s \in Seq(Neighbour), NEW x \in Neighbour
  PROVE  /\ IsFiniteSet(ConflictsIn(s, x)) /\ Cardinality(ConflictsIn(s, x)) \in Nat
         /\ IsFiniteSet(ConflictingPairs(s)) /\ Cardinality(ConflictingPairs(s)) \in Nat
         /\ Cardinality(ConflictingPairs(s)) <= Len(s) * Len(s)
<1>1. Len(s) \in Nat /\ IsFiniteSet(1..Len(s)) /\ Cardinality(1..Len(s)) = Len(s)
  <2>1. Len(s) \in Nat
    OBVIOUS
  <2> QED
    BY <2>1, FS_Interval
<1>2. /\ IsFiniteSet((1..Len(s)) \X (1..Len(s)))
      /\ Cardinality((1..Len(s)) \X (1..Len(s))) = Len(s) * Len(s)
  BY <1>1, FS_Product
<1>3. /\ ConflictsIn(s, x) \in SUBSET (1..Len(s))
      /\ ConflictingPairs(s) \in SUBSET ((1..Len(s)) \X (1..Len(s)))
  BY DEF ConflictsIn, ConflictingPairs
<1>4. IsFiniteSet(ConflictsIn(s, x)) /\ IsFiniteSet(ConflictingPairs(s))
  BY <1>1, <1>2, <1>3, FS_Subset
<1>5. Cardinality(ConflictingPairs(s)) <= Len(s) * Len(s)
  BY <1>2, <1>3, FS_Subset
<1> QED
  BY <1>4, <1>5, FS_CardinalityType

\* One sender more adds a pair for each earlier one that it conflicts with,
\* and each pair of the longer table is added once.
LEMMA PairsGrow ==
  ASSUME NEW s \in Seq(Neighbour), NEW x \in Neighbour
  PROVE  Cardinality(ConflictingPairs(Append(s, x))) =
           Cardinality(ConflictingPairs(s)) + Cardinality(ConflictsIn(s, x))
<1> DEFINE t == Append(s, x)
           z == Len(s) + 1
           C == ConflictsIn(s, x)
           P == C \X {z}
<1>1. /\ Len(s) \in Nat /\ Len(t) = z /\ t[z] = x
      /\ \A i \in 1..Len(s) : t[i] = s[i]
  BY AppendProperties
<1> HIDE DEF t
<1>2. \A i, j : i \in 1..z /\ j \in 1..z /\ i < j <=>
                  \/ i \in 1..Len(s) /\ j \in 1..Len(s) /\ i < j
                  \/ i \in 1..Len(s) /\ j = z
  BY <1>1
<1>3. \A i, j : <<i, j>> \in ConflictingPairs(t) <=>
                  <<i, j>> \in ConflictingPairs(s) \/ <<i, j>> \in P
  <2> SUFFICES ASSUME NEW i, NEW j
               PROVE  <<i, j>> \in ConflictingPairs(t) <=>
                        <<i, j>> \in ConflictingPairs(s) \/ <<i, j>> \in P
    OBVIOUS
  <2>1. <<i, j>> \in ConflictingPairs(t) <=>
          i \in 1..z /\ j \in 1..z /\ i < j /\ Conflicting(t[i], t[j])
    BY <1>1 DEF ConflictingPairs
  <2>2. <<i, j>> \in ConflictingPairs(s) <=>
          i \in 1..Len(s) /\ j \in 1..Len(s) /\ i < j /\ Conflicting(s[i], s[j])
    BY DEF ConflictingPairs
  <2>3. <<i, j>> \in P <=> i \in 1..Len(s) /\ j = z /\ Conflicting(s[i], x)
    BY DEF ConflictsIn
  <2> QED
    BY <1>1, <1>2, <2>1, <2>2, <2>3
<1>4. ConflictingPairs(t) = ConflictingPairs(s) \cup P
  <2>1. \A p \in ConflictingPairs(t) \cup ConflictingPairs(s) \cup P : p = <<p[1], p[2]>>
    BY DEF ConflictingPairs
  <2> QED
    BY <1>3, <2>1
<1>5. ConflictingPairs(s) \cap P = {}
  <2>1. \A p \in ConflictingPairs(s) : p[2] \in 1..Len(s)
    BY DEF ConflictingPairs
  <2>2. \A p \in P : p[2] = z
    OBVIOUS
  <2>3. z \notin 1..Len(s)
    BY <1>1
  <2> QED
    BY <2>1, <2>2, <2>3
<1>6. /\ IsFiniteSet(C) /\ Cardinality(C) \in Nat
      /\ IsFiniteSet(ConflictingPairs(s)) /\ Cardinality(ConflictingPairs(s)) \in Nat
  BY ConflictsFinite
<1>7. IsFiniteSet({z}) /\ Cardinality({z}) = 1
  BY FS_Singleton
<1>8. IsFiniteSet(P) /\ Cardinality(P) = Cardinality(C)
  BY <1>6, <1>7, FS_Product
<1>9. Cardinality(ConflictingPairs(s) \cap P) = 0
  BY <1>5, FS_EmptySet
<1>10. Cardinality(ConflictingPairs(s) \cup P) =
         Cardinality(ConflictingPairs(s)) + Cardinality(P) - Cardinality(ConflictingPairs(s) \cap P)
  BY <1>6, <1>8, FS_Union
<1> QED
  BY <1>4, <1>6, <1>8, <1>9, <1>10 DEF t

----------------------------------------------------------------------------
(* The invariant. *)

LEMMA InitInv == Init => Inv
<1> SUFFICES ASSUME Init PROVE Inv
  OBVIOUS
<1>1. PICK r \in Role, size \in QueueSizes : arprecon_create_with_config(r, size)
  BY DEF Init
<1>2. /\ role \in Role /\ ring = qinit(Allocated(ZeroEvent), size) /\ size \in Nat
      /\ send_ts = 0 /\ waiting = FALSE /\ stats = ZeroStats /\ neigh = <<>>
      /\ now = 0 /\ ev = ZeroEvent /\ heard = <<>> /\ asked = [no |-> 0, at |-> 0]
  BY <1>1, ArpReconAssumption DEF Init, arprecon_create_with_config
<1>3. ring \in Rings(Event) /\ RingOK(ring)
  BY <1>2, InitOK, AllocatedRaw, EventTypes
<1>4. TypeOK
  <2>1. /\ send_ts \in 0..MaxNow /\ now \in 0..MaxNow
        /\ asked \in [no : 0..MaxCount, at : 0..MaxNow]
    BY <1>2, ArpReconAssumption
  <2>2. waiting \in BOOLEAN
    BY <1>2
  <2>3. /\ neigh \in Seq(Neighbour) /\ Len(neigh) <= MAX_NEIGH
        /\ heard \in Seq(Neighbour) /\ Len(heard) <= MaxCount
    BY <1>2, ArpReconAssumption
  <2> QED
    BY <1>2, <1>3, <2>1, <2>2, <2>3, ZeroStatsOK, EventTypes DEF TypeOK
<1>5. TableIsFirstHeard
  <2>1. Min2(Len(heard), MAX_NEIGH) = 0
    BY <1>2, ArpReconAssumption DEF Min2
  <2> QED
    BY <1>2, <2>1 DEF TableIsFirstHeard
<1>6. DupsCountConflicts
  <2>1. ConflictingPairs(<<>>) = {}
    BY DEF ConflictingPairs
  <2> QED
    BY <1>2, <2>1, FS_EmptySet DEF DupsCountConflicts, ZeroStats
<1>7. CountsBounded
  BY <1>2 DEF CountsBounded, ZeroStats
<1> QED
  BY <1>4, <1>5, <1>6, <1>7 DEF Inv

\* How many spoof events a reply yields.
Spoofs(mac, ip) == IF TableFull THEN 0 ELSE Cardinality(Conflicts(mac, ip))

\* What a reply does to the table: nothing when it is full; otherwise the
\* sender goes behind the others and the pairs grow by its conflicts.
LEMMA TableGrows ==
  ASSUME Inv, NEW mac \in Mac, NEW ip \in Ip, NEW ts \in 0..now, FeedArpReply(mac, ip, ts)
  PROVE  /\ neigh' \in Seq(Neighbour) /\ Len(neigh') <= MAX_NEIGH
         /\ Spoofs(mac, ip) \in Nat
         /\ stats.dups + Spoofs(mac, ip) = Cardinality(ConflictingPairs(neigh'))
         /\ stats.dups + Spoofs(mac, ip) < U32
<1> DEFINE x == [mac |-> mac, ip |-> ip]
<1>1. /\ x \in Neighbour /\ neigh \in Seq(Neighbour) /\ Len(neigh) <= MAX_NEIGH
      /\ stats.dups = Cardinality(ConflictingPairs(neigh))
      /\ neigh' = IF TableFull THEN neigh ELSE Append(neigh, x)
  BY DEF Inv, TypeOK, Neighbour, DupsCountConflicts, FeedArpReply
<1>2. /\ Cardinality(ConflictsIn(neigh, x)) \in Nat /\ stats.dups \in Nat
  BY <1>1, ConflictsFinite
<1>3. Conflicts(mac, ip) = ConflictsIn(neigh, x)
  BY DEF Conflicts, ConflictsIn, Conflicting
<1>4. neigh' \in Seq(Neighbour) /\ Len(neigh') <= MAX_NEIGH
  <2>1. CASE TableFull
    BY <1>1, <2>1
  <2>2. CASE ~TableFull
    <3>1. Len(neigh) \in Nat /\ Len(neigh) # MAX_NEIGH
      BY <1>1, <2>2 DEF TableFull
    <3>2. neigh' \in Seq(Neighbour) /\ Len(neigh') = Len(neigh) + 1
      BY <1>1, <2>2, AppendProperties
    <3> QED
      BY <1>1, <3>1, <3>2, ArpReconAssumption
  <2> QED
    BY <2>1, <2>2
<1>5. /\ Spoofs(mac, ip) \in Nat
      /\ stats.dups + Spoofs(mac, ip) = Cardinality(ConflictingPairs(neigh'))
  <2>1. CASE TableFull
    BY <1>1, <1>2, <2>1 DEF Spoofs
  <2>2. CASE ~TableFull
    BY <1>1, <1>2, <1>3, <2>2, PairsGrow DEF Spoofs
  <2> QED
    BY <2>1, <2>2
<1>6. Cardinality(ConflictingPairs(neigh')) <= Len(neigh') * Len(neigh')
  BY <1>1, <1>4, ConflictsFinite
<1>7. Len(neigh') * Len(neigh') <= MAX_NEIGH * MAX_NEIGH
  <2>1. PICK a \in Nat : a = Len(neigh') /\ a <= MAX_NEIGH
    BY <1>4
  <2>2. a * a <= MAX_NEIGH * MAX_NEIGH
    BY <2>1, ArpReconAssumption
  <2> QED
    BY <2>1, <2>2
<1>8. /\ Len(neigh') * Len(neigh') \in Nat /\ MAX_NEIGH * MAX_NEIGH \in Nat
      /\ MAX_NEIGH * MAX_NEIGH < U32 /\ U32 \in Nat
      /\ Cardinality(ConflictingPairs(neigh')) \in Nat
  <2>1. Len(neigh') \in Nat
    BY <1>4
  <2>2. Cardinality(ConflictingPairs(neigh')) \in Nat
    BY <1>1, <1>4, ConflictsFinite
  <2> QED
    BY <2>1, <2>2, ArpReconAssumption, WordAssumption
<1>9. stats.dups + Spoofs(mac, ip) < U32
  BY <1>5, <1>6, <1>7, <1>8
<1> QED
  BY <1>4, <1>5, <1>9

\* The table stays the beginning of what was heard.
LEMMA TableFollows ==
  ASSUME Inv, NEW mac \in Mac, NEW ip \in Ip, NEW ts \in 0..now, FeedArpReply(mac, ip, ts)
  PROVE  /\ TableIsFirstHeard'
         /\ heard' \in Seq(Neighbour) /\ Len(heard') = Len(heard) + 1
         /\ Len(heard') <= MaxCount
<1> DEFINE x == [mac |-> mac, ip |-> ip]
<1>1. /\ x \in Neighbour /\ neigh \in Seq(Neighbour) /\ heard \in Seq(Neighbour)
      /\ Len(heard) \in Nat /\ Len(heard) < MaxCount
      /\ neigh = SubSeq(heard, 1, Min2(Len(heard), MAX_NEIGH))
      /\ neigh' = IF TableFull THEN neigh ELSE Append(neigh, x)
      /\ heard' = Append(heard, x)
  BY DEF Inv, TypeOK, Neighbour, TableIsFirstHeard, FeedArpReply
<1> HIDE DEF x
<1>2. /\ heard' \in Seq(Neighbour) /\ Len(heard') = Len(heard) + 1
      /\ \A i \in 1..Len(heard) : heard'[i] = heard[i]
  BY <1>1, AppendProperties
<1>3. MAX_NEIGH \in Nat /\ MAX_NEIGH > 0 /\ MaxCount \in Nat
  BY ArpReconAssumption
<1>4. PICK n \in Nat : n = Min2(Len(heard), MAX_NEIGH) /\ n <= Len(heard)
  BY <1>1, <1>3 DEF Min2
<1>5. Len(neigh) = n /\ \A i \in 1..n : neigh[i] = heard[i]
  <2>1. \A i \in 1..n : heard[i] \in Neighbour
    BY <1>1, <1>4
  <2> QED
    BY <1>1, <1>4, <2>1, SubSeqProperties
<1>6. TableIsFirstHeard'
  <2>1. CASE TableFull
    <3>1. n = MAX_NEIGH
      BY <1>5, <2>1 DEF TableFull
    <3>2. Min2(Len(heard'), MAX_NEIGH) = n
      BY <1>1, <1>2, <1>3, <1>4, <3>1 DEF Min2
    <3>3. \A i \in 1..n : heard'[i] \in Neighbour /\ heard'[i] = neigh[i]
      BY <1>1, <1>2, <1>4, <1>5
    <3>4. /\ SubSeq(heard', 1, n) \in Seq(Neighbour)
          /\ Len(SubSeq(heard', 1, n)) = n
          /\ \A i \in 1..n : SubSeq(heard', 1, n)[i] = neigh[i]
      BY <3>3, SubSeqProperties
    <3>5. SubSeq(heard', 1, n) = neigh
      BY <1>1, <1>5, <3>4, SeqEqual
    <3> QED
      BY <1>1, <2>1, <3>2, <3>5 DEF TableIsFirstHeard
  <2>2. CASE ~TableFull
    <3>1. n # MAX_NEIGH
      BY <1>5, <2>2 DEF TableFull
    <3>2. n = Len(heard) /\ Len(heard) < MAX_NEIGH
      BY <1>1, <1>3, <1>4, <3>1 DEF Min2
    <3>3. neigh = heard
      BY <1>1, <1>4, <3>2, SubSeqFull
    <3>4. Min2(Len(heard'), MAX_NEIGH) = Len(heard')
      BY <1>1, <1>2, <1>3, <3>2 DEF Min2
    <3>5. SubSeq(heard', 1, Len(heard')) = heard'
      BY <1>2, SubSeqFull
    <3> QED
      BY <1>1, <2>2, <3>3, <3>4, <3>5 DEF TableIsFirstHeard
  <2> QED
    BY <2>1, <2>2
<1> QED
  BY <1>1, <1>2, <1>3, <1>6

\* What a reply does to the queue and to the counters.
LEMMA ReplyCounts ==
  ASSUME Inv, NEW mac \in Mac, NEW ip \in Ip, NEW ts \in 0..now, FeedArpReply(mac, ip, ts)
  PROVE  \E k \in Nat, e \in Event :
           /\ ring' = PushSpoofs(qpush(ring, e), k)
           /\ stats' \in Counters
           /\ stats'.replies = stats.replies + 1
           /\ stats'.timeouts = stats.timeouts
           /\ stats'.dups = stats.dups + k
           /\ k = Spoofs(mac, ip)
<1> DEFINE lat == Latency(send_ts, ts)
           k == Spoofs(mac, ip)
<1>1. /\ stats' = CountDups(CountReply(stats, lat), k)
      /\ ring' = PushSpoofs(qpush(ring, ReplyEvent(mac, lat)), k)
      /\ Len(heard) < MaxCount
  BY DEF FeedArpReply, Spoofs
<1>2. /\ stats \in Counters /\ stats.replies \in Nat /\ stats.dups \in Nat
      /\ Len(heard) \in Nat /\ stats.replies <= Len(heard)
  BY WordAssumption DEF Inv, TypeOK, CountsBounded, Counters, Word
<1>3. lat \in Word
  BY LatencyOK DEF Inv, TypeOK
<1>4. k \in Nat /\ stats.dups + k < U32
  BY TableGrows
<1>5. stats.replies + 1 < U32
  BY <1>1, <1>2, ArpReconAssumption, WordAssumption
<1> HIDE DEF lat, k
<1>6. PICK s \in Counters : s = CountReply(stats, lat)
  BY <1>2, <1>3, CountReplyOK
<1>7. /\ s.replies = stats.replies + 1 /\ s.timeouts = stats.timeouts /\ s.dups = stats.dups
  BY <1>2, <1>3, <1>5, <1>6, CountReplyOK
<1>8. (s.dups + k) % U32 = stats.dups + k /\ stats.dups + k \in Word
  BY <1>2, <1>4, <1>7, ModWord
<1>9. stats' = [s EXCEPT !.dups = stats.dups + k]
  BY <1>1, <1>6, <1>8 DEF CountDups
<1>10. /\ stats' \in Counters /\ stats'.replies = stats.replies + 1
       /\ stats'.timeouts = stats.timeouts /\ stats'.dups = stats.dups + k
  BY <1>6, <1>7, <1>8, <1>9 DEF Counters
<1>11. ReplyEvent(mac, lat) \in Event
  BY <1>3, EventTypes
<1> QED
  BY <1>1, <1>4, <1>10, <1>11 DEF k

LEMMA ReplyStep ==
  ASSUME Inv, NEW mac \in Mac, NEW ip \in Ip, NEW ts \in 0..now, FeedArpReply(mac, ip, ts)
  PROVE  Inv'
<1>1. PICK k \in Nat, e \in Event :
        /\ ring' = PushSpoofs(qpush(ring, e), k)
        /\ stats' \in Counters
        /\ stats'.replies = stats.replies + 1
        /\ stats'.timeouts = stats.timeouts
        /\ stats'.dups = stats.dups + k
        /\ k = Spoofs(mac, ip)
  BY ReplyCounts
<1>2. /\ waiting' = FALSE /\ UNCHANGED <<role, send_ts, now, ev, asked>>
  BY DEF FeedArpReply
<1>3. ring' \in Rings(Event) /\ RingOK(ring')
  <2>1. qpush(ring, e) \in Rings(Event) /\ RingOK(qpush(ring, e))
    BY PushOK DEF Inv, TypeOK
  <2> QED
    BY <1>1, <2>1, BurstOK
<1>4. /\ neigh' \in Seq(Neighbour) /\ Len(neigh') <= MAX_NEIGH
      /\ stats'.dups = Cardinality(ConflictingPairs(neigh'))
  BY <1>1, TableGrows
<1>5. /\ TableIsFirstHeard' /\ heard' \in Seq(Neighbour)
      /\ Len(heard') = Len(heard) + 1 /\ Len(heard') <= MaxCount
  BY TableFollows
<1>6. TypeOK'
  BY <1>1, <1>2, <1>3, <1>4, <1>5 DEF Inv, TypeOK
<1>7. CountsBounded'
  <2>1. /\ stats.replies \in Nat /\ stats.timeouts \in Nat /\ Len(heard) \in Nat
        /\ asked.no \in Nat
    BY WordAssumption DEF Inv, TypeOK, Counters, Word
  <2>2. stats.replies <= Len(heard) /\ stats.timeouts <= asked.no
    BY <2>1 DEF Inv, CountsBounded
  <2> QED
    BY <1>1, <1>2, <1>5, <2>1, <2>2 DEF CountsBounded
<1> QED
  BY <1>4, <1>5, <1>6, <1>7 DEF Inv, DupsCountConflicts

LEMMA RequestStep ==
  ASSUME Inv, NEW ts \in 0..now, FeedArpRequest(ts)
  PROVE  Inv'
<1>1. /\ asked.no < MaxCount
      /\ send_ts' = IF ts # 0 THEN ts ELSE send_ts
      /\ waiting' = TRUE /\ asked' = [no |-> asked.no + 1, at |-> ts]
      /\ UNCHANGED <<role, ring, stats, neigh, now, ev, heard>>
  BY DEF FeedArpRequest
<1>2. /\ ts \in 0..MaxNow /\ asked.no \in Nat /\ stats.timeouts \in Nat
  BY ArpReconAssumption, WordAssumption DEF Inv, TypeOK, Counters, Word
<1>3. TypeOK'
  BY <1>1, <1>2, ArpReconAssumption DEF Inv, TypeOK
<1>4. TableIsFirstHeard' /\ DupsCountConflicts'
  BY <1>1 DEF Inv, TableIsFirstHeard, DupsCountConflicts, ConflictingPairs
<1>5. CountsBounded'
  BY <1>1, <1>2 DEF Inv, CountsBounded
<1> QED
  BY <1>3, <1>4, <1>5 DEF Inv

\* A timeout is counted without wrapping.
LEMMA TimeoutCounts ==
  ASSUME Inv, arprecon_process(now)
  PROVE  /\ stats' \in Counters
         /\ stats'.timeouts = stats.timeouts + 1 /\ stats'.timeouts <= asked.no
         /\ stats'.replies = stats.replies /\ stats'.dups = stats.dups
<1>1. stats' = CountTimeout(stats) /\ waiting
  BY DEF arprecon_process, Expired
<1>2. /\ stats \in Counters /\ stats.timeouts \in Nat /\ asked.no \in Nat
      /\ asked.no <= MaxCount /\ stats.timeouts + 1 <= asked.no
  BY <1>1, ArpReconAssumption, WordAssumption DEF Inv, TypeOK, CountsBounded, Counters, Word
<1>3. stats.timeouts + 1 < U32
  BY <1>2, ArpReconAssumption, WordAssumption
<1> QED
  BY <1>1, <1>2, <1>3, CountTimeoutOK

LEMMA ProcessStep == ASSUME Inv, arprecon_process(now) PROVE Inv'
<1>1. /\ ring' = qpush(ring, TimeoutEvent) /\ waiting' = FALSE
      /\ UNCHANGED <<role, send_ts, neigh, now, ev, heard, asked>>
  BY DEF arprecon_process, history
<1>2. ring' \in Rings(Event) /\ RingOK(ring')
  BY <1>1, EventTypes, PushOK DEF Inv, TypeOK
<1>3. TypeOK'
  BY <1>1, <1>2, TimeoutCounts DEF Inv, TypeOK
<1>4. TableIsFirstHeard' /\ DupsCountConflicts'
  BY <1>1, TimeoutCounts DEF Inv, TableIsFirstHeard, DupsCountConflicts, ConflictingPairs
<1>5. CountsBounded'
  <2>1. stats'.timeouts \in Nat /\ asked.no \in Nat
    BY TimeoutCounts, WordAssumption DEF Inv, TypeOK, Counters, Word
  <2> QED
    BY <1>1, <2>1, TimeoutCounts DEF Inv, CountsBounded
<1> QED
  BY <1>3, <1>4, <1>5 DEF Inv

LEMMA NextEventStep == ASSUME Inv, arprecon_next_event PROVE Inv'
<1>1. /\ ring.cnt > 0 /\ ring' = qpop(ring) /\ ev' = Oldest(ring)
      /\ UNCHANGED <<role, send_ts, waiting, stats, neigh, now, heard, asked>>
  BY DEF arprecon_next_event, history
<1>2. ring \in Rings(Event) /\ RingOK(ring) /\ ring.cnt # 0
  BY <1>1 DEF Inv, TypeOK
<1>3. ring' \in Rings(Event) /\ RingOK(ring') /\ ev' \in Event
  BY <1>1, <1>2, PopOK
<1>4. TypeOK'
  BY <1>1, <1>3 DEF Inv, TypeOK
<1> QED
  BY <1>1, <1>4 DEF Inv, TableIsFirstHeard, DupsCountConflicts, ConflictingPairs, CountsBounded

LEMMA ResetStep == ASSUME Inv, arprecon_reset PROVE Inv'
<1>1. /\ ring' = qinit(ring, ring.qsz) /\ stats' = ZeroStats /\ waiting' = FALSE
      /\ neigh' = <<>> /\ heard' = <<>> /\ asked' = [no |-> 0, at |-> 0]
      /\ UNCHANGED <<role, send_ts, now, ev>>
  BY DEF arprecon_reset
<1>2. ring \in RawRings(Event) /\ ring.qsz \in Nat
  BY RingIsRaw DEF Inv, TypeOK, RawRings
<1>3. ring' \in Rings(Event) /\ RingOK(ring')
  BY <1>1, <1>2, InitOK
<1>4. TypeOK'
  <2>1. /\ neigh' \in Seq(Neighbour) /\ Len(neigh') <= MAX_NEIGH
        /\ heard' \in Seq(Neighbour) /\ Len(heard') <= MaxCount
    BY <1>1, ArpReconAssumption
  <2>2. asked' \in [no : 0..MaxCount, at : 0..MaxNow]
    BY <1>1, ArpReconAssumption
  <2>3. waiting' \in BOOLEAN
    BY <1>1
  <2> QED
    BY <1>1, <1>3, <2>1, <2>2, <2>3, ZeroStatsOK DEF Inv, TypeOK
<1>5. TableIsFirstHeard'
  <2>1. Min2(0, MAX_NEIGH) = 0 /\ Len(heard') = 0
    BY <1>1, ArpReconAssumption DEF Min2
  <2> QED
    BY <1>1, <2>1 DEF TableIsFirstHeard
<1>6. DupsCountConflicts'
  <2>1. ConflictingPairs(<<>>) = {}
    BY DEF ConflictingPairs
  <2> QED
    BY <1>1, <2>1, FS_EmptySet DEF DupsCountConflicts, ConflictingPairs, ZeroStats
<1>7. CountsBounded'
  BY <1>1 DEF CountsBounded, ZeroStats
<1> QED
  BY <1>4, <1>5, <1>6, <1>7 DEF Inv

LEMMA TickStep == ASSUME Inv, Tick PROVE Inv'
<1>1. /\ now' = now + 1 /\ now < MaxNow
      /\ UNCHANGED <<role, ring, send_ts, waiting, stats, neigh, ev, heard, asked>>
  BY DEF Tick, ctx, history
<1>2. TypeOK'
  BY <1>1, ArpReconAssumption DEF Inv, TypeOK
<1> QED
  BY <1>1, <1>2 DEF Inv, TableIsFirstHeard, DupsCountConflicts, ConflictingPairs, CountsBounded

LEMMA StutterStep == ASSUME Inv, UNCHANGED vars PROVE Inv'
  BY DEF Inv, vars, TypeOK, TableIsFirstHeard, DupsCountConflicts, ConflictingPairs,
         CountsBounded

LEMMA InvAlways == Spec => []Inv
<1>1. Inv /\ [Next]_vars => Inv'
  <2> SUFFICES ASSUME Inv, [Next]_vars PROVE Inv'
    OBVIOUS
  <2>1. ASSUME NEW mac \in Mac, NEW ip \in Ip, NEW ts \in 0..now, FeedArpReply(mac, ip, ts)
        PROVE  Inv'
    BY <2>1, ReplyStep
  <2>2. ASSUME NEW ts \in 0..now, FeedArpRequest(ts)
        PROVE  Inv'
    BY <2>2, RequestStep
  <2>3. CASE arprecon_process(now)
    BY <2>3, ProcessStep
  <2>4. CASE arprecon_next_event
    BY <2>4, NextEventStep
  <2>5. CASE arprecon_reset
    BY <2>5, ResetStep
  <2>6. CASE Tick
    BY <2>6, TickStep
  <2>7. CASE UNCHANGED vars
    BY <2>7, StutterStep
  <2> QED
    BY <2>1, <2>2, <2>3, <2>4, <2>5, <2>6, <2>7 DEF Next
<1> QED
  BY InitInv, <1>1, PTL DEF Spec

(* Every variable keeps its type, and the queue's indices fit together     *)
(* also after a burst of spoof events.                                     *)
THEOREM TypeCorrect == Spec => []TypeOK
<1>1. Inv => TypeOK
  BY DEF Inv
<1> QED
  BY <1>1, InvAlways, PTL

(* The table holds the first senders since the reset, in their order.      *)
THEOREM TableIsPrefix == Spec => []TableIsFirstHeard
<1>1. Inv => TableIsFirstHeard
  BY DEF Inv
<1> QED
  BY <1>1, InvAlways, PTL

(* One pass over the table for each reply counts all conflicting pairs.    *)
THEOREM CountsAllPairs == Spec => []DupsCountConflicts
<1>1. Inv => DupsCountConflicts
  BY DEF Inv
<1> QED
  BY <1>1, InvAlways, PTL

----------------------------------------------------------------------------
(* The order of the reports. *)

\* What SpoofFollowsItsReply says of a log of events and a list of senders:
\* event i of the log is shown by a reply.
ShownByReply(log, senders, i) ==
  /\ log[i - 1].type \in {"ARP_REPLY", "ARP_SPOOF"}
  /\ \A p \in 1..(i - 1) :
       (log[p].type = "ARP_REPLY" /\ \A j \in (p + 1)..i : log[j].type = "ARP_SPOOF") =>
         \E k \in 1..Len(senders), j \in 1..Len(senders) :
           j < k /\ senders[k].mac = log[p].src_mac /\ Conflicting(senders[j], senders[k])

SpoofsShown(log, senders) ==
  \A i \in 2..Len(log) : log[i].type = "ARP_SPOOF" => ShownByReply(log, senders, i)

Log == <<ev>> \o Contents(ring)

LEMMA SpoofsShownIsTheProperty == SpoofFollowsItsReply <=> SpoofsShown(Log, heard)
  BY DEF SpoofFollowsItsReply, SpoofsShown, ShownByReply, Log

LEMMA LogSeq ==
  ASSUME NEW r \in Rings(Event), RingOK(r), NEW e \in Event
  PROVE  /\ <<e>> \o Contents(r) \in Seq(Event)
         /\ Len(<<e>> \o Contents(r)) = r.cnt + 1 /\ r.cnt \in Nat
         /\ (<<e>> \o Contents(r))[1] = e
         /\ \A i \in 1..r.cnt : (<<e>> \o Contents(r))[i + 1] = Contents(r)[i]
<1>1. Contents(r) \in Seq(Event) /\ Len(Contents(r)) = r.cnt /\ r.cnt \in Nat
  BY ContentsSeq
<1> QED
  BY <1>1

\* Events that are no spoofs may follow a log, and so may a reply with the
\* spoofs it shows.
LEMMA LogGrows ==
  ASSUME NEW a \in Seq(Event), NEW b \in Seq(Event), Len(a) <= Len(b),
         \A i \in 1..Len(a) : b[i] = a[i],
         NEW s \in Seq(Neighbour), NEW t \in Seq(Neighbour), Len(s) <= Len(t),
         \A i \in 1..Len(s) : t[i] = s[i],
         SpoofsShown(a, s),
         Len(b) > Len(a) => b[Len(a) + 1].type # "ARP_SPOOF",
         Len(b) > Len(a) + 1 =>
           /\ b[Len(a) + 1].type = "ARP_REPLY"
           /\ \A i \in (Len(a) + 2)..Len(b) : b[i].type = "ARP_SPOOF"
           /\ \E k \in 1..Len(t), j \in 1..Len(t) :
                /\ j < k /\ t[k].mac = b[Len(a) + 1].src_mac
                /\ Conflicting(t[j], t[k])
  PROVE  SpoofsShown(b, t)
<1>1. PICK m \in Nat, n \in Nat : m = Len(a) /\ n = Len(b) /\ m <= n
  OBVIOUS
<1>2. SUFFICES ASSUME NEW i \in 2..n, b[i].type = "ARP_SPOOF"
               PROVE  ShownByReply(b, t, i)
  BY <1>1 DEF SpoofsShown
<1>3. CASE i <= m
  <2>1. ShownByReply(a, s, i)
    BY <1>1, <1>2, <1>3 DEF SpoofsShown
  <2>2. \A p \in 1..i : b[p] = a[p]
    BY <1>1, <1>3
  <2>3. b[i - 1].type \in {"ARP_REPLY", "ARP_SPOOF"}
    <3>1. i - 1 \in 1..i
      OBVIOUS
    <3> QED
      BY <2>1, <2>2, <3>1 DEF ShownByReply
  <2>4. ASSUME NEW p \in 1..(i - 1), b[p].type = "ARP_REPLY",
               \A j \in (p + 1)..i : b[j].type = "ARP_SPOOF"
        PROVE  \E k \in 1..Len(t), j \in 1..Len(t) :
                 j < k /\ t[k].mac = b[p].src_mac /\ Conflicting(t[j], t[k])
    <3>1. p \in 1..i /\ \A j \in (p + 1)..i : j \in 1..i
      OBVIOUS
    <3>2. a[p].type = "ARP_REPLY" /\ \A j \in (p + 1)..i : a[j].type = "ARP_SPOOF"
      BY <2>2, <2>4, <3>1
    <3>3. PICK k \in 1..Len(s), j \in 1..Len(s) :
            j < k /\ s[k].mac = a[p].src_mac /\ Conflicting(s[j], s[k])
      BY <2>1, <3>2 DEF ShownByReply
    <3>4. k \in 1..Len(t) /\ j \in 1..Len(t) /\ t[k] = s[k] /\ t[j] = s[j]
      OBVIOUS
    <3> QED
      BY <2>2, <3>1, <3>3, <3>4
  <2> QED
    BY <2>3, <2>4 DEF ShownByReply
<1>4. CASE i > m
  <2>1. n > m /\ i # m + 1
    BY <1>1, <1>2, <1>4
  <2>2. n > m + 1 /\ i \in (m + 2)..n
    BY <1>1, <1>4, <2>1
  <2>3. /\ b[m + 1].type = "ARP_REPLY"
        /\ \A j \in (m + 2)..n : b[j].type = "ARP_SPOOF"
        /\ \E k \in 1..Len(t), j \in 1..Len(t) :
             j < k /\ t[k].mac = b[m + 1].src_mac /\ Conflicting(t[j], t[k])
    BY <1>1, <2>2
  <2>4. b[i - 1].type \in {"ARP_REPLY", "ARP_SPOOF"}
    <3>1. i - 1 = m + 1 \/ i - 1 \in (m + 2)..n
      BY <2>2
    <3> QED
      BY <2>3, <3>1
  <2>5. ASSUME NEW p \in 1..(i - 1), b[p].type = "ARP_REPLY",
               \A j \in (p + 1)..i : b[j].type = "ARP_SPOOF"
        PROVE  p = m + 1
    <3>1. p >= m + 1
      <4>1. m + 1 \in (p + 1)..i \/ p >= m + 1
        BY <2>2
      <4> QED
        BY <2>3, <2>5, <4>1
    <3>2. p \notin (m + 2)..n
      BY <2>3, <2>5
    <3> QED
      BY <2>2, <3>1, <3>2
  <2> QED
    BY <2>3, <2>4, <2>5 DEF ShownByReply
<1> QED
  BY <1>1, <1>3, <1>4

\* So may the first event of a log go.
LEMMA LogShrinks ==
  ASSUME NEW a \in Seq(Event), NEW b \in Seq(Event), Len(a) = Len(b) + 1,
         \A i \in 1..Len(b) : b[i] = a[i + 1],
         NEW s \in Seq(Neighbour), SpoofsShown(a, s)
  PROVE  SpoofsShown(b, s)
<1>1. PICK n \in Nat : n = Len(b) /\ Len(a) = n + 1
  OBVIOUS
<1>2. SUFFICES ASSUME NEW i \in 2..n, b[i].type = "ARP_SPOOF"
               PROVE  ShownByReply(b, s, i)
  BY <1>1 DEF SpoofsShown
<1>3. \A p \in 1..i : b[p] = a[p + 1]
  BY <1>1
<1>4. ShownByReply(a, s, i + 1)
  <2>1. i + 1 \in 2..Len(a) /\ a[i + 1].type = "ARP_SPOOF"
    BY <1>1, <1>2, <1>3
  <2> QED
    BY <2>1 DEF SpoofsShown
<1>5. b[i - 1].type \in {"ARP_REPLY", "ARP_SPOOF"}
  <2>1. i - 1 \in 1..i /\ (i + 1) - 1 = (i - 1) + 1
    OBVIOUS
  <2>2. b[i - 1] = a[(i + 1) - 1]
    BY <1>3, <2>1
  <2> QED
    BY <1>4, <2>2 DEF ShownByReply
<1>6. ASSUME NEW p \in 1..(i - 1), b[p].type = "ARP_REPLY",
             \A j \in (p + 1)..i : b[j].type = "ARP_SPOOF"
      PROVE  \E k \in 1..Len(s), j \in 1..Len(s) :
               j < k /\ s[k].mac = b[p].src_mac /\ Conflicting(s[j], s[k])
  <2>1. p + 1 \in 1..((i + 1) - 1) /\ a[p + 1] = b[p]
    BY <1>3
  <2>2. ASSUME NEW j \in ((p + 1) + 1)..(i + 1) PROVE a[j].type = "ARP_SPOOF"
    <3>1. j - 1 \in (p + 1)..i /\ j - 1 \in 1..i /\ (j - 1) + 1 = j
      OBVIOUS
    <3> QED
      BY <1>3, <1>6, <3>1
  <2> QED
    BY <1>4, <1>6, <2>1, <2>2 DEF ShownByReply
<1> QED
  BY <1>5, <1>6 DEF ShownByReply

\* What the log is in a state of the invariant.
LEMMA LogOfState ==
  ASSUME Inv
  PROVE  /\ Log \in Seq(Event) /\ Len(Log) = ring.cnt + 1 /\ ring.cnt \in Nat
         /\ Log[1] = ev
         /\ \A i \in 1..ring.cnt : Log[i + 1] = Contents(ring)[i]
         /\ heard \in Seq(Neighbour)
         /\ ring \in Rings(Event) /\ RingOK(ring)
  BY LogSeq DEF Inv, TypeOK, Log

\* A reply and its spoofs go behind what was queued, and a spoof is queued
\* only if an earlier neighbour conflicts with the sender just heard.
LEMMA ReplyIsShown ==
  ASSUME Inv, Inv', SpoofsShown(Log, heard),
         NEW mac \in Mac, NEW ip \in Ip, NEW ts \in 0..now, FeedArpReply(mac, ip, ts)
  PROVE  SpoofsShown(Log, heard)'
<1> DEFINE lat == Latency(send_ts, ts)
           x == [mac |-> mac, ip |-> ip]
           e == ReplyEvent(mac, lat)
           r == qpush(ring, e)
           k == Spoofs(mac, ip)
<1>1. /\ ring' = PushSpoofs(r, k) /\ ev' = ev
      /\ heard' = Append(heard, x)
  BY DEF FeedArpReply, Spoofs
<1>2. k \in Nat
  BY TableGrows
<1>3. e \in Event /\ e.type = "ARP_REPLY" /\ e.src_mac = mac /\ SpoofEvent.type = "ARP_SPOOF"
  <2>1. lat \in Word
    BY LatencyOK DEF Inv, TypeOK
  <2> QED
    BY <2>1, EventTypes DEF ReplyEvent, SpoofEvent
<1>4. /\ heard \in Seq(Neighbour) /\ heard' \in Seq(Neighbour)
      /\ Len(heard') = Len(heard) + 1 /\ heard'[Len(heard) + 1] = x
      /\ \A i \in 1..Len(heard) : heard'[i] = heard[i]
  <2>1. heard \in Seq(Neighbour) /\ x \in Neighbour
    BY DEF Inv, TypeOK, Neighbour
  <2> QED
    BY <1>1, <2>1, AppendProperties
<1>grow. Len(heard) <= Len(heard')
  BY <1>4
<1>5. k > 0 => \E a \in 1..Len(heard'), j \in 1..Len(heard') :
                 j < a /\ heard'[a].mac = mac /\ Conflicting(heard'[j], heard'[a])
  <2> SUFFICES ASSUME k > 0
               PROVE  \E a \in 1..Len(heard'), j \in 1..Len(heard') :
                        j < a /\ heard'[a].mac = mac /\ Conflicting(heard'[j], heard'[a])
    OBVIOUS
  <2>1. Conflicts(mac, ip) # {}
    BY FS_EmptySet DEF Spoofs
  <2>2. PICK j \in 1..Len(neigh) : neigh[j].ip = ip /\ neigh[j].mac # mac
    BY <2>1 DEF Conflicts
  <2>3. PICK n \in Nat : n = Min2(Len(heard), MAX_NEIGH) /\ n <= Len(heard)
    BY <1>4, ArpReconAssumption DEF Min2
  <2>4. \A i \in 1..n : heard[i] \in Neighbour
    BY <1>4, <2>3
  <2>5. neigh = SubSeq(heard, 1, n)
    BY <2>3 DEF Inv, TableIsFirstHeard
  <2>6. j \in 1..Len(heard) /\ neigh[j] = heard[j]
    BY <1>4, <2>2, <2>3, <2>4, <2>5, SubSeqProperties
  <2>7. heard'[j].ip = ip /\ heard'[j].mac # mac
    BY <1>4, <2>2, <2>6
  <2>8. /\ Len(heard) + 1 \in 1..Len(heard') /\ j \in 1..Len(heard') /\ j < Len(heard) + 1
    BY <1>4, <2>6
  <2>9. /\ heard'[Len(heard) + 1].mac = mac
        /\ Conflicting(heard'[j], heard'[Len(heard) + 1])
    BY <1>4, <2>7 DEF Conflicting
  <2> HIDE DEF x
  <2> QED
    BY <2>8, <2>9
<1>6. /\ Log \in Seq(Event) /\ Len(Log) = ring.cnt + 1 /\ ring.cnt \in Nat /\ Log[1] = ev
      /\ \A i \in 1..ring.cnt : Log[i + 1] = Contents(ring)[i]
      /\ ring \in Rings(Event) /\ RingOK(ring)
  BY LogOfState
<1>7. /\ Log' \in Seq(Event) /\ Len(Log') = ring'.cnt + 1 /\ ring'.cnt \in Nat /\ Log'[1] = ev
      /\ \A i \in 1..ring'.cnt : Log'[i + 1] = Contents(ring')[i]
  <2>1. ring' \in Rings(Event) /\ RingOK(ring') /\ ev' \in Event
    BY DEF Inv, TypeOK
  <2>2. Log' = <<ev'>> \o Contents(ring')
    BY DEF Log
  <2> QED
    BY <1>1, <2>1, <2>2, LogSeq
<1>8. r \in Rings(Event) /\ RingOK(r) /\ r.qsz = ring.qsz
  BY <1>3, <1>6, PushOK
<1>9. /\ ring'.cnt = r.cnt + Min2(k, ring.qsz - r.cnt)
      /\ \A i \in 1..r.cnt : Contents(ring')[i] = Contents(r)[i]
      /\ \A i \in (r.cnt + 1)..ring'.cnt : Contents(ring')[i] = SpoofEvent
  <2>1. /\ ring'.cnt = r.cnt + Min2(k, ring.qsz - r.cnt)
        /\ \A i \in 1..r.cnt : Contents(ring')[i] = Contents(r)[i]
    BY <1>1, <1>2, <1>8, BurstOK
  <2>2. \A i \in (r.cnt + 1)..ring'.cnt : Contents(ring')[i] = SpoofEvent
    BY <1>1, <1>2, <1>8, BurstFills
  <2> QED
    BY <2>1, <2>2
<1>10. PICK c \in Nat, z \in Nat : c = ring.cnt /\ z = ring.qsz /\ c <= z
  BY <1>6, RingFields
<1> HIDE DEF lat, x, e, r, k
<1>11. CASE c = z
  <2>1. r = ring
    BY <1>3, <1>6, <1>10, <1>11, PushFull DEF r
  <2>2. ring'.cnt = c
    <3>1. Min2(k, 0) = 0
      BY <1>2 DEF Min2
    <3>2. r.cnt = c
      BY <1>10, <2>1, Zenon
    <3>4. ring.qsz - c = 0
      BY <1>10, <1>11
    <3>3. ring'.cnt = r.cnt + Min2(k, ring.qsz - r.cnt)
      BY <1>9
    <3> QED
      <4>1. ring'.cnt = c + Min2(k, 0)
        BY <3>2, <3>3, <3>4, Zenon
      <4>2. ring'.cnt = c + 0
        BY <3>1, <4>1, Zenon
      <4> QED
        BY <4>2
  <2>3. Len(Log') = Len(Log) /\ \A i \in 1..Len(Log) : Log'[i] = Log[i]
    <3>1. \A i \in 1..c : Contents(ring')[i] = Contents(ring)[i]
      BY <1>9, <1>10, <2>1
    <3>2. ASSUME NEW i \in 1..(c + 1) PROVE Log'[i] = Log[i]
      <4>1. CASE i = 1
        BY <1>6, <1>7, <4>1
      <4>2. CASE i # 1
        <5>1. i - 1 \in 1..c /\ (i - 1) + 1 = i
          BY <4>2
        <5> QED
          BY <1>6, <1>7, <1>10, <2>2, <3>1, <5>1
      <4> QED
        BY <4>1, <4>2
    <3> QED
      BY <1>6, <1>7, <1>10, <2>2, <3>2
  <2>4. /\ Len(Log') <= Len(Log') /\ ~(Len(Log') > Len(Log'))
        /\ ~(Len(Log') > Len(Log') + 1)
    BY <1>7
  <2>5. SpoofsShown(Log', heard')
    <3>1. /\ Log \in Seq(Event) /\ Log' \in Seq(Event) /\ Len(Log) <= Len(Log')
          /\ \A i \in 1..Len(Log) : Log'[i] = Log[i]
      BY <1>6, <1>7, <2>3, <2>4
    <3>2. ~(Len(Log') > Len(Log)) /\ ~(Len(Log') > Len(Log) + 1)
      BY <2>3, <2>4
    <3>3. heard \in Seq(Neighbour) /\ heard' \in Seq(Neighbour)
      BY <1>4
    <3>4. \A i \in 1..Len(heard) : heard'[i] = heard[i]
      BY <1>4
    <3> QED
      BY <1>grow, <3>1, <3>2, <3>3, <3>4, LogGrows
  <2> QED
    BY <2>5
<1>12. CASE c < z
  <2>1. r.cnt = c + 1 /\ Contents(r) = Append(Contents(ring), e)
    BY <1>3, <1>6, <1>10, <1>12, PushRoom DEF r
  <2>2. PICK n \in Nat : n = ring'.cnt /\ n >= c + 1 /\ (n > c + 1 => k > 0)
    BY <1>2, <1>7, <1>9, <1>10, <1>12, <2>1 DEF Min2
  <2>3. /\ \A i \in 1..c : Contents(ring')[i] = Contents(ring)[i]
        /\ Contents(ring')[c + 1] = e
    <3>1. Contents(ring) \in Seq(Event) /\ Len(Contents(ring)) = c
      BY <1>6, <1>10, ContentsSeq
    <3>2. /\ \A i \in 1..c : Contents(r)[i] = Contents(ring)[i]
          /\ Contents(r)[c + 1] = e
      BY <1>3, <2>1, <3>1, AppendProperties
    <3>3. c + 1 \in 1..r.cnt /\ \A i \in 1..c : i \in 1..r.cnt
      BY <2>1
    <3> QED
      BY <1>9, <3>2, <3>3
  <2>4. /\ Len(Log) = c + 1 /\ Len(Log') = n + 1 /\ Len(Log) <= Len(Log')
        /\ \A i \in 1..Len(Log) : Log'[i] = Log[i]
    <3>1. ASSUME NEW i \in 1..(c + 1) PROVE Log'[i] = Log[i]
      <4>1. CASE i = 1
        BY <1>6, <1>7, <4>1
      <4>2. CASE i # 1
        <5>1. i - 1 \in 1..c /\ i - 1 \in 1..n /\ (i - 1) + 1 = i
          BY <2>2, <4>2
        <5> QED
          BY <1>6, <1>7, <1>10, <2>2, <2>3, <5>1
      <4> QED
        BY <4>1, <4>2
    <3> QED
      BY <1>6, <1>7, <1>10, <2>2, <3>1
  <2>5. Log'[(c + 1) + 1] = e
    <3>1. c + 1 \in 1..n
      BY <2>2
    <3> QED
      BY <1>7, <2>2, <2>3, <3>1
  <2>6. \A i \in (c + 3)..(n + 1) : Log'[i].type = "ARP_SPOOF"
    <3> SUFFICES ASSUME NEW i \in (c + 3)..(n + 1) PROVE Log'[i].type = "ARP_SPOOF"
      OBVIOUS
    <3>1. i - 1 \in ((c + 1) + 1)..n /\ i - 1 \in 1..n /\ (i - 1) + 1 = i
      OBVIOUS
    <3> QED
      BY <1>3, <1>7, <1>9, <2>1, <2>2, <3>1
  <2>7. Len(Log) \in Nat /\ Len(Log) + 1 = (c + 1) + 1 /\ Len(Log) + 2 = c + 3
    BY <2>4
  <2>8. Len(Log') > Len(Log) + 1 => k > 0
    BY <2>2, <2>4
  <2>9. Log'[Len(Log) + 1].type = "ARP_REPLY" /\ Log'[Len(Log) + 1].src_mac = mac
    BY <1>3, <2>5, <2>7
  <2>10. \A i \in (Len(Log) + 2)..Len(Log') : Log'[i].type = "ARP_SPOOF"
    BY <2>4, <2>6, <2>7
  <2>11. SpoofsShown(Log', heard')
    <3>1. Len(Log') > Len(Log) => Log'[Len(Log) + 1].type # "ARP_SPOOF"
      BY <2>9
    <3>2. Len(Log') > Len(Log) + 1 =>
            /\ Log'[Len(Log) + 1].type = "ARP_REPLY"
            /\ \A i \in (Len(Log) + 2)..Len(Log') : Log'[i].type = "ARP_SPOOF"
            /\ \E a \in 1..Len(heard'), j \in 1..Len(heard') :
                 /\ j < a /\ heard'[a].mac = Log'[Len(Log) + 1].src_mac
                 /\ Conflicting(heard'[j], heard'[a])
      BY <1>5, <2>8, <2>9, <2>10
    <3>3. /\ Log \in Seq(Event) /\ Log' \in Seq(Event)
          /\ heard \in Seq(Neighbour) /\ heard' \in Seq(Neighbour)
      BY <1>4, <1>6, <1>7
    <3>4. \A i \in 1..Len(heard) : heard'[i] = heard[i]
      BY <1>4
    <3>5. Len(Log) <= Len(Log') /\ \A i \in 1..Len(Log) : Log'[i] = Log[i]
      BY <2>4
    <3> QED
      BY <1>grow, <3>1, <3>2, <3>3, <3>4, <3>5, LogGrows
  <2> QED
    BY <2>11
<1> QED
  BY <1>10, <1>11, <1>12

\* A step that leaves queue, caller and senders alone leaves the log as it was.
LEMMA SameLog ==
  ASSUME SpoofsShown(Log, heard), ring' = ring, ev' = ev, heard' = heard
  PROVE  SpoofsShown(Log, heard)'
<1>1. Log' = Log
  BY DEF Log
<1>2. SpoofsShown(Log', heard')
  BY <1>1
<1> QED
  BY <1>2

\* A timeout is no spoof.
LEMMA TimeoutIsShown ==
  ASSUME Inv, Inv', SpoofsShown(Log, heard), arprecon_process(now)
  PROVE  SpoofsShown(Log, heard)'
<1>1. ring' = qpush(ring, TimeoutEvent) /\ ev' = ev /\ heard' = heard
  BY DEF arprecon_process, history
<1>2. /\ Log \in Seq(Event) /\ Len(Log) = ring.cnt + 1 /\ ring.cnt \in Nat /\ Log[1] = ev
      /\ \A i \in 1..ring.cnt : Log[i + 1] = Contents(ring)[i]
      /\ ring \in Rings(Event) /\ RingOK(ring) /\ heard \in Seq(Neighbour)
  BY LogOfState
<1>3. PICK c \in Nat, z \in Nat : c = ring.cnt /\ z = ring.qsz /\ c <= z
  BY <1>2, RingFields
<1>4. CASE c = z
  <2>1. ring' = ring
    BY <1>1, <1>2, <1>3, <1>4, EventTypes, PushFull
  <2> QED
    BY <1>1, <2>1, SameLog
<1>5. CASE c < z
  <2>1. /\ ring'.cnt = c + 1 /\ Contents(ring') = Append(Contents(ring), TimeoutEvent)
        /\ ring' \in Rings(Event) /\ RingOK(ring')
    BY <1>1, <1>2, <1>3, <1>5, EventTypes, PushRoom
  <2>2. /\ Log' = <<ev>> \o Contents(ring') /\ ev \in Event
    BY <1>1 DEF Log, Inv, TypeOK
  <2>3. /\ Log' \in Seq(Event) /\ Len(Log') = c + 2 /\ Log'[1] = ev
        /\ \A i \in 1..(c + 1) : Log'[i + 1] = Contents(ring')[i]
    <3>1. /\ Log' \in Seq(Event) /\ Len(Log') = ring'.cnt + 1 /\ Log'[1] = ev
          /\ \A i \in 1..ring'.cnt : Log'[i + 1] = Contents(ring')[i]
      BY <2>1, <2>2, LogSeq
    <3>2. ring'.cnt = c + 1
      BY <2>1
    <3> QED
      BY <3>1, <3>2
  <2>4. /\ \A i \in 1..c : Contents(ring')[i] = Contents(ring)[i]
        /\ Contents(ring')[c + 1] = TimeoutEvent
    <3>1. Contents(ring) \in Seq(Event) /\ Len(Contents(ring)) = c
      BY <1>2, <1>3, ContentsSeq
    <3> QED
      BY <2>1, <3>1, EventTypes, AppendProperties
  <2>5. ASSUME NEW i \in 1..(c + 1) PROVE Log'[i] = Log[i]
    <3>1. CASE i = 1
      BY <1>2, <2>3, <3>1
    <3>2. CASE i # 1
      <4>1. i - 1 \in 1..c /\ i - 1 \in 1..(c + 1) /\ (i - 1) + 1 = i
        BY <3>2
      <4> QED
        BY <1>2, <1>3, <2>3, <2>4, <4>1
    <3> QED
      BY <3>1, <3>2
  <2>6. Log'[c + 2].type # "ARP_SPOOF"
    <3>1. Log'[(c + 1) + 1] = TimeoutEvent
      BY <2>3, <2>4
    <3> QED
      BY <3>1 DEF TimeoutEvent
  <2>7. /\ Len(Log) = c + 1 /\ Len(Log) <= Len(Log') /\ Len(Log) + 1 = c + 2
        /\ ~(Len(Log') > Len(Log) + 1)
    BY <1>2, <1>3, <2>3
  <2>8. SpoofsShown(Log', heard)
    <3>1. Len(Log') > Len(Log) => Log'[Len(Log) + 1].type # "ARP_SPOOF"
      BY <2>6, <2>7
    <3>2. /\ Log \in Seq(Event) /\ Log' \in Seq(Event) /\ Len(Log) <= Len(Log')
          /\ \A i \in 1..Len(Log) : Log'[i] = Log[i]
      BY <1>2, <2>3, <2>5, <2>7
    <3>3. ~(Len(Log') > Len(Log) + 1)
      BY <2>7
    <3>4. /\ heard \in Seq(Neighbour) /\ Len(heard) <= Len(heard)
          /\ \A i \in 1..Len(heard) : heard[i] = heard[i]
      BY <1>2
    <3> QED
      BY <3>1, <3>2, <3>3, <3>4, LogGrows
  <2> QED
    BY <1>1, <2>8
<1> QED
  BY <1>3, <1>4, <1>5

\* Taking an event drops the event that was taken before it from the log.
LEMMA NextEventIsShown ==
  ASSUME Inv, Inv', SpoofsShown(Log, heard), arprecon_next_event
  PROVE  SpoofsShown(Log, heard)'
<1>1. /\ ring' = qpop(ring) /\ ev' = Oldest(ring) /\ heard' = heard /\ ring.cnt # 0
  <2>1. ring.cnt \in Nat
    BY LogOfState
  <2> QED
    BY <2>1 DEF arprecon_next_event, history
<1>2. /\ Log \in Seq(Event) /\ Len(Log) = ring.cnt + 1 /\ ring.cnt \in Nat
      /\ \A i \in 1..ring.cnt : Log[i + 1] = Contents(ring)[i]
      /\ ring \in Rings(Event) /\ RingOK(ring) /\ heard \in Seq(Neighbour)
  BY LogOfState
<1>3. /\ Contents(ring) # <<>> /\ ev' = Head(Contents(ring))
      /\ Contents(ring') = Tail(Contents(ring))
      /\ ring' \in Rings(Event) /\ RingOK(ring') /\ ring'.cnt = ring.cnt - 1
      /\ ev' \in Event
  BY <1>1, <1>2, PopOK
<1>4. Contents(ring) \in Seq(Event) /\ Len(Contents(ring)) = ring.cnt
  BY <1>2, ContentsSeq
<1>5. Log' = Contents(ring)
  <2>1. Log' = <<Head(Contents(ring))>> \o Tail(Contents(ring))
    BY <1>3 DEF Log
  <2> QED
    BY <1>3, <1>4, <2>1
<1>6. SpoofsShown(Contents(ring), heard)
  BY <1>2, <1>4, LogShrinks
<1> QED
  BY <1>1, <1>5, <1>6

(* A spoof is reported behind the reply that shows it, however the queue   *)
(* was cut, emptied or reset in between.                                   *)
THEOREM SpoofsFollow == Spec => []SpoofFollowsItsReply
<1>1. Init => SpoofFollowsItsReply
  <2> SUFFICES ASSUME Init PROVE SpoofFollowsItsReply
    OBVIOUS
  <2>1. PICK r \in Role, size \in QueueSizes : arprecon_create_with_config(r, size)
    BY DEF Init
  <2>2. ring.cnt = 0
    BY <2>1 DEF arprecon_create_with_config, qinit
  <2>3. Len(Log) = 1
    BY <2>2, InitInv, LogOfState
  <2> QED
    BY <2>3, SpoofsShownIsTheProperty DEF SpoofsShown
<1>2. Inv /\ Inv' /\ SpoofFollowsItsReply /\ [Next]_vars => SpoofFollowsItsReply'
  <2> SUFFICES ASSUME Inv, Inv', SpoofFollowsItsReply, [Next]_vars
               PROVE  SpoofFollowsItsReply'
    OBVIOUS
  <2>0. SpoofsShown(Log, heard)
    BY SpoofsShownIsTheProperty
  <2>1. SUFFICES SpoofsShown(Log, heard)'
    BY DEF SpoofFollowsItsReply, SpoofsShown, ShownByReply, Log
  <2>2. ASSUME NEW mac \in Mac, NEW ip \in Ip, NEW ts \in 0..now, FeedArpReply(mac, ip, ts)
        PROVE  SpoofsShown(Log, heard)'
    BY <2>0, <2>2, ReplyIsShown
  <2>3. ASSUME ring' = ring, ev' = ev, heard' = heard
        PROVE  SpoofsShown(Log, heard)'
    BY <2>0, <2>3, SameLog
  <2>4. ASSUME NEW ts \in 0..now, FeedArpRequest(ts)
        PROVE  SpoofsShown(Log, heard)'
    BY <2>3, <2>4 DEF FeedArpRequest
  <2>5. CASE arprecon_process(now)
    BY <2>0, <2>5, TimeoutIsShown
  <2>6. CASE arprecon_next_event
    BY <2>0, <2>6, NextEventIsShown
  <2>7. CASE arprecon_reset
    <3>1. ring' = qinit(ring, ring.qsz)
      BY <2>7 DEF arprecon_reset
    <3>2. ring'.cnt = 0 /\ ring' \in Rings(Event) /\ RingOK(ring') /\ ev' \in Event
      BY <3>1 DEF qinit, Inv, TypeOK
    <3>3. Log' = <<ev'>> \o Contents(ring')
      BY DEF Log
    <3>4. Len(Log') = 1
      BY <3>2, <3>3, LogSeq
    <3> QED
      BY <3>4 DEF SpoofsShown
  <2>8. CASE Tick
    BY <2>3, <2>8 DEF Tick, ctx, history
  <2>9. CASE UNCHANGED vars
    BY <2>3, <2>9 DEF vars
  <2> QED
    BY <2>2, <2>4, <2>5, <2>6, <2>7, <2>8, <2>9 DEF Next
<1> QED
  BY <1>1, <1>2, InvAlways, PTL DEF Spec

----------------------------------------------------------------------------
(* The queue as a channel. *)

\* A reply and its conflicts are offered together: what fits is kept, from the
\* reply on.
LEMMA BurstOffers ==
  ASSUME Inv, Inv', NEW e \in Event, NEW k \in Nat,
         ring' = PushSpoofs(qpush(ring, e), k), ev' = ev,
         stats'.replies + stats'.dups + stats'.timeouts =
           stats.replies + stats.dups + stats.timeouts + 1 + k
  PROVE  Channel!Offer
<1> DEFINE before == stats.replies + stats.dups + stats.timeouts
           after == stats'.replies + stats'.dups + stats'.timeouts
           r == qpush(ring, e)
<1>1. ring \in Rings(Event) /\ RingOK(ring) /\ ring' \in Rings(Event) /\ RingOK(ring')
  BY DEF Inv, TypeOK
<1>2. /\ Contents(ring) \in Seq(Event) /\ Len(Contents(ring)) = ring.cnt
      /\ ring.cnt \in Nat /\ ring.qsz \in Nat /\ ring.cnt <= ring.qsz
      /\ Contents(ring') \in Seq(Event) /\ Len(Contents(ring')) = ring'.cnt
  BY <1>1, ContentsSeq, RingFields
<1>3. before \in Nat /\ after = before + 1 + k
  <2>1. stats.replies \in Nat /\ stats.dups \in Nat /\ stats.timeouts \in Nat
    BY WordAssumption DEF Inv, TypeOK, Counters, Word
  <2> QED
    BY <2>1
<1>4. /\ r \in Rings(Event) /\ RingOK(r) /\ r.qsz = ring.qsz
  BY <1>1, PushOK
<1>5. /\ ring'.qsz = ring.qsz
      /\ ring'.cnt = r.cnt + Min2(k, ring.qsz - r.cnt)
      /\ \A i \in 1..r.cnt : Contents(ring')[i] = Contents(r)[i]
  BY <1>4, BurstOK
<1>6. CASE ring.cnt = ring.qsz
  <2>1. r = ring
    BY <1>1, <1>6, PushFull
  <2>2. ring'.cnt = ring.cnt
    BY <1>2, <1>5, <1>6, <2>1 DEF Min2
  <2> HIDE DEF before, after, r
  <2>3. ring.cnt + (after - before) > ring.qsz
    BY <1>2, <1>3, <1>6
  <2>4. /\ Len(Contents(ring')) = ring.qsz
        /\ \A i \in 1..Len(Contents(ring)) : Contents(ring')[i] = Contents(ring)[i]
    BY <1>2, <1>5, <1>6, <2>1, <2>2
  <2>5. after \in Nat /\ after > before
    BY <1>3
  <2> QED
    BY <1>2, <1>5, <2>3, <2>4, <2>5 DEF Channel!Offer, before, after
<1>7. CASE ring.cnt < ring.qsz
  <2>1. r.cnt = ring.cnt + 1 /\ Contents(r) = Append(Contents(ring), e)
    BY <1>1, <1>7, PushRoom
  <2>2. \A i \in 1..ring.cnt : Contents(ring')[i] = Contents(ring)[i]
    <3>1. \A i \in 1..ring.cnt : Contents(r)[i] = Contents(ring)[i]
      BY <1>2, <2>1, AppendProperties
    <3>2. \A i \in 1..ring.cnt : i \in 1..r.cnt
      BY <1>2, <2>1
    <3> QED
      BY <1>5, <3>1, <3>2
  <2> HIDE DEF before, after, r
  <2>3. \/ ring.cnt + (after - before) <= ring.qsz /\ ring'.cnt = ring.cnt + (after - before)
        \/ ring.cnt + (after - before) > ring.qsz /\ ring'.cnt = ring.qsz
    <3>1. after - before = 1 + k
      BY <1>3
    <3>2. ring'.cnt = ring.cnt + 1 + Min2(k, ring.qsz - (ring.cnt + 1))
      BY <1>2, <1>5, <2>1
    <3>3. CASE k <= ring.qsz - (ring.cnt + 1)
      <4>1. Min2(k, ring.qsz - (ring.cnt + 1)) = k
        BY <3>3 DEF Min2
      <4> QED
        BY <1>2, <3>1, <3>2, <3>3, <4>1
    <3>4. CASE k > ring.qsz - (ring.cnt + 1)
      <4>1. Min2(k, ring.qsz - (ring.cnt + 1)) = ring.qsz - (ring.cnt + 1)
        BY <1>2, <3>4 DEF Min2
      <4> QED
        BY <1>2, <3>1, <3>2, <3>4, <4>1
    <3> QED
      BY <1>2, <3>3, <3>4
  <2>4. after \in Nat /\ after > before
    BY <1>3
  <2> QED
    BY <1>2, <1>5, <2>2, <2>3, <2>4 DEF Channel!Offer, before, after
<1> QED
  BY <1>2, <1>6, <1>7

\* So is a timeout, which comes alone.
LEMMA TimeoutOffers ==
  ASSUME Inv, Inv', arprecon_process(now)
  PROVE  Channel!Offer
<1>1. ring' = qpush(ring, TimeoutEvent) /\ ev' = ev
  BY DEF arprecon_process
<1>2. qpush(ring, TimeoutEvent) \in Rings(Event) /\ RingOK(qpush(ring, TimeoutEvent))
  BY EventTypes, PushOK DEF Inv, TypeOK
<1>3. PushSpoofs(qpush(ring, TimeoutEvent), 0) = qpush(ring, TimeoutEvent)
  <2> DEFINE r == qpush(ring, TimeoutEvent)
  <2> HIDE DEF r
  <2>1. r \in Rings(Event) /\ RingOK(r)
    BY <1>2 DEF r
  <2>2. PICK m \in Nat, h \in Nat, l \in Nat, c \in Nat :
          /\ m = r.qsz /\ h = r.head /\ l = r.tail /\ c = r.cnt
          /\ 0 < m /\ m <= MAX_Q /\ h < m /\ l < m /\ c <= m
    BY <2>1, RingFields
  <2>3. Min2(0, m - c) = 0 /\ (l + 0) % m = l /\ c + 0 = c
    <3>1. Min2(0, m - c) = 0 /\ c + 0 = c /\ l + 0 = l
      BY <2>2 DEF Min2
    <3>2. l % m = l
      <4>1. l < 2 * m
        BY <2>2
      <4> QED
        BY <2>2, <4>1, Wrap
    <3> QED
      BY <3>1, <3>2
  <2>4. \A i \in Slots : ~(i < m /\ (i + m - l) % m < 0)
    BY <2>2, QueueAssumption DEF Slots
  <2>5. r.q \in [Slots -> Event] /\ r = [qsz |-> m, q |-> r.q, head |-> h, tail |-> l, cnt |-> c]
    BY <2>1, <2>2 DEF Rings
  <2>6. PushSpoofs(r, 0) =
          [qsz |-> m,
           q |-> [i \in Slots |-> IF i < m /\ (i + m - l) % m < 0 THEN SpoofEvent ELSE r.q[i]],
           head |-> h, tail |-> l, cnt |-> c]
    BY <2>2, <2>3 DEF PushSpoofs
  <2>7. [i \in Slots |-> IF i < m /\ (i + m - l) % m < 0 THEN SpoofEvent ELSE r.q[i]] = r.q
    BY <2>4, <2>5
  <2>8. PushSpoofs(r, 0) = r
    BY <2>5, <2>6, <2>7
  <2> QED
    BY <2>8 DEF r
<1>4. stats'.replies + stats'.dups + stats'.timeouts =
        stats.replies + stats.dups + stats.timeouts + 1 + 0
  <2>1. stats.replies \in Nat /\ stats.dups \in Nat /\ stats.timeouts \in Nat
    BY WordAssumption DEF Inv, TypeOK, Counters, Word
  <2> QED
    BY <2>1, TimeoutCounts
<1> QED
  BY <1>1, <1>3, <1>4, EventTypes, BurstOffers

(* A context implements EventChannel, also when one reply yields several   *)
(* events: the burst is cut at its end, and nothing queued before is hurt. *)
THEOREM Refinement == Spec => KeepsEventPromise
<1>1. Init => Channel!Init
  <2> SUFFICES ASSUME Init PROVE Channel!Init
    OBVIOUS
  <2>1. PICK r \in Role, size \in QueueSizes : arprecon_create_with_config(r, size)
    BY DEF Init
  <2>2. ring = qinit(Allocated(ZeroEvent), size) /\ size \in Nat /\ stats = ZeroStats
    BY <2>1, ArpReconAssumption DEF arprecon_create_with_config
  <2>3. Contents(ring) = <<>> /\ ring.qsz \in 1..MAX_Q
    BY <2>2, InitOK, AllocatedRaw, EventTypes, ClampSizeOK
  <2>4. stats.replies + stats.dups + stats.timeouts = 0 /\ ev \in Event
    BY <2>2, EventTypes DEF ZeroStats, Init
  <2> QED
    BY <2>3, <2>4, QueueAssumption DEF Channel!Init
<1>2. Inv /\ Inv' /\ [Next]_vars => [Channel!Next]_(Channel!vars)
  <2> SUFFICES ASSUME Inv, Inv', [Next]_vars PROVE [Channel!Next]_(Channel!vars)
    OBVIOUS
  <2>0. /\ ring \in Rings(Event) /\ RingOK(ring)
        /\ stats.replies \in Nat /\ stats.dups \in Nat /\ stats.timeouts \in Nat
    BY WordAssumption DEF Inv, TypeOK, Counters, Word
  <2>1. ASSUME NEW mac \in Mac, NEW ip \in Ip, NEW ts \in 0..now, FeedArpReply(mac, ip, ts)
        PROVE  Channel!Next
    <3>1. PICK k \in Nat, e \in Event :
            /\ ring' = PushSpoofs(qpush(ring, e), k)
            /\ stats'.replies = stats.replies + 1
            /\ stats'.timeouts = stats.timeouts
            /\ stats'.dups = stats.dups + k
      BY <2>1, ReplyCounts
    <3>2. stats'.replies + stats'.dups + stats'.timeouts =
            stats.replies + stats.dups + stats.timeouts + 1 + k
      BY <2>0, <3>1
    <3>3. ev' = ev
      BY <2>1 DEF FeedArpReply
    <3> QED
      BY <3>1, <3>2, <3>3, BurstOffers DEF Channel!Next
  <2>2. ASSUME NEW ts \in 0..now, FeedArpRequest(ts)
        PROVE  UNCHANGED Channel!vars
    BY <2>2 DEF FeedArpRequest, Channel!vars
  <2>3. CASE arprecon_process(now)
    BY <2>3, TimeoutOffers DEF Channel!Next
  <2>4. CASE arprecon_next_event
    <3>1. /\ ring' = qpop(ring) /\ stats' = stats /\ ev' = Oldest(ring) /\ ring.cnt # 0
      BY <2>0, <2>4 DEF arprecon_next_event
    <3>2. /\ Contents(ring) # <<>> /\ Oldest(ring) = Head(Contents(ring))
          /\ Contents(ring') = Tail(Contents(ring)) /\ ring'.qsz = ring.qsz
      BY <2>0, <3>1, PopOK
    <3> QED
      BY <3>1, <3>2 DEF Channel!Next, Channel!Take
  <2>5. CASE arprecon_reset
    <3>1. ring' = qinit(ring, ring.qsz) /\ stats' = ZeroStats /\ ev' = ev
      BY <2>5 DEF arprecon_reset
    <3>2. ring \in RawRings(Event) /\ ring.qsz \in 1..MAX_Q /\ ring.qsz \in Nat
      BY <2>0, RingIsRaw, QueueAssumption DEF Rings
    <3>3. Contents(ring') = <<>> /\ ring'.qsz = ring.qsz
      BY <3>1, <3>2, InitOK, ClampSizeFixed
    <3>4. stats'.replies + stats'.dups + stats'.timeouts = 0
      BY <3>1 DEF ZeroStats
    <3> QED
      BY <3>1, <3>3, <3>4 DEF Channel!Next, Channel!Clear
  <2>6. CASE Tick
    BY <2>6 DEF Tick, ctx, Channel!vars
  <2>7. CASE UNCHANGED vars
    BY <2>7 DEF vars, Channel!vars
  <2> QED
    BY <2>1, <2>2, <2>3, <2>4, <2>5, <2>6, <2>7 DEF Next
<1> QED
  BY <1>1, <1>2, InvAlways, PTL DEF Spec, Channel!Spec, KeepsEventPromise
=============================================================================
