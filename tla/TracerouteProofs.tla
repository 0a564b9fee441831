-------------------------- MODULE TracerouteProofs --------------------------
(***************************************************************************)
(* The safety properties of Traceroute for every number of hops, queue     *)
(* size, clock bound, timeout and set of sequence numbers.                 *)
(*                                                                         *)
(* Inv is inductive.  HopTableAddsUp speaks of sums over the table, and    *)
(* the lemmas about sums come first: one slot grows by one, so does the    *)
(* sum.  That no slot wraps needs the bound of each slot by the total      *)
(* (HopBooks) and of the total by the requests (CountsBounded).            *)
(***************************************************************************)
EXTENDS Traceroute, ContextProofs, FiniteSetTheorems

----------------------------------------------------------------------------
(* Sums over a function.  SumFunction takes the elements of the domain out *)
(* of it one by one.  That this recursion has a solution, only one, and    *)
(* that the order does not matter follows from a count: a sum of naturals  *)
(* is the number of their units.                                           *)

\* The values of f as sets of units, for values up to B.
Units(f, s, B) == {p \in s \X (0..B) : p[2] < f[p[1]]}

Some(s) == CHOOSE x \in s : TRUE

\* g[s] is the sum of f over s, for every s.
SumsUp(g, f, S) ==
  g = [s \in SUBSET S |-> IF s = {} THEN 0 ELSE f[Some(s)] + g[s \ {Some(s)}]]

LEMMA UnitsFinite ==
  ASSUME NEW S, IsFiniteSet(S), NEW B \in Nat, NEW f \in [S -> 0..B], NEW s \in SUBSET S
  PROVE  IsFiniteSet(Units(f, s, B)) /\ Cardinality(Units(f, s, B)) \in Nat
<1>1. IsFiniteSet(s) /\ IsFiniteSet(0..B)
  BY FS_Subset, FS_Interval
<1>2. IsFiniteSet(s \X (0..B))
  BY <1>1, FS_Product
<1>3. Units(f, s, B) \in SUBSET (s \X (0..B))
  BY DEF Units
<1> QED
  BY <1>2, <1>3, FS_Subset, FS_CardinalityType

\* One element more adds its value.
LEMMA UnitsAdd ==
  ASSUME NEW S, IsFiniteSet(S), NEW B \in Nat, NEW f \in [S -> 0..B],
         NEW s \in SUBSET S, NEW x \in s
  PROVE  Cardinality(Units(f, s, B)) = f[x] + Cardinality(Units(f, s \ {x}, B))
<1> DEFINE own == {x} \X (0..(f[x] - 1))
           rest == Units(f, s \ {x}, B)
<1>1. f[x] \in 0..B
  OBVIOUS
<1>2. IsFiniteSet(own) /\ Cardinality(own) = f[x]
  <2>1. IsFiniteSet(0..(f[x] - 1)) /\ Cardinality(0..(f[x] - 1)) = f[x]
    <3>1. 0 \in Int /\ f[x] - 1 \in Int
      BY <1>1
    <3>2. /\ IsFiniteSet(0..(f[x] - 1))
          /\ Cardinality(0..(f[x] - 1)) = IF 0 > f[x] - 1 THEN 0 ELSE (f[x] - 1) - 0 + 1
      BY <3>1, FS_Interval
    <3> QED
      BY <1>1, <3>2
  <2>2. IsFiniteSet({x}) /\ Cardinality({x}) = 1
    BY FS_Singleton
  <2>3. /\ IsFiniteSet(own)
        /\ Cardinality(own) = Cardinality({x}) * Cardinality(0..(f[x] - 1))
    BY <2>1, <2>2, FS_Product, Zenon
  <2> QED
    BY <1>1, <2>1, <2>2, <2>3
<1>3. IsFiniteSet(rest) /\ Cardinality(rest) \in Nat
  <2>1. s \ {x} \in SUBSET S
    OBVIOUS
  <2> QED
    BY <2>1, UnitsFinite
<1>4. Units(f, s, B) = own \cup rest
  <2>1. ASSUME NEW p \in Units(f, s, B) PROVE p \in own \cup rest
    <3>1. p \in s \X (0..B) /\ p[2] < f[p[1]]
      BY <2>1 DEF Units
    <3>2. CASE p[1] = x
      <4>1. p[2] \in 0..(f[x] - 1)
        BY <1>1, <3>1, <3>2
      <4> QED
        BY <3>1, <3>2, <4>1
    <3>3. CASE p[1] # x
      BY <3>1, <3>3 DEF Units
    <3> QED
      BY <3>2, <3>3
  <2>2. ASSUME NEW p \in own PROVE p \in Units(f, s, B)
    <3>1. p[1] = x /\ p[2] \in 0..(f[x] - 1) /\ p = <<p[1], p[2]>>
      BY <2>2
    <3>2. p[2] \in 0..B /\ p[2] < f[x]
      BY <1>1, <3>1
    <3>3. p \in s \X (0..B)
      BY <3>1, <3>2
    <3> QED
      BY <3>1, <3>2, <3>3 DEF Units
  <2>3. rest \subseteq Units(f, s, B)
    BY DEF Units
  <2> QED
    BY <2>1, <2>2, <2>3
<1>5. own \cap rest = {}
  BY DEF Units
<1>6. Cardinality(own \cup rest) = f[x] + Cardinality(rest)
  <2>1. Cardinality(own \cup rest) =
          Cardinality(own) + Cardinality(rest) - Cardinality(own \cap rest)
    BY <1>2, <1>3, FS_Union
  <2>2. Cardinality(own \cap rest) = 0
    BY <1>5, FS_EmptySet
  <2> QED
    BY <1>1, <1>2, <1>3, <2>1, <2>2
<1> QED
  BY <1>4, <1>6

\* Whatever sums up is the number of units: the smallest set for which it is
\* not would have an element that can be taken out.
LEMMA SumsAreUnits ==
  ASSUME NEW S, IsFiniteSet(S), NEW B \in Nat, NEW f \in [S -> 0..B],
         NEW g, SumsUp(g, f, S)
  PROVE  \A s \in SUBSET S : g[s] = Cardinality(Units(f, s, B))
<1> DEFINE Bad == {s \in SUBSET S : g[s] # Cardinality(Units(f, s, B))}
<1> SUFFICES ASSUME Bad # {} PROVE FALSE
  OBVIOUS
<1>1. IsWellFoundedOn(StrictSubsetOrdering(S), SUBSET S)
  BY FS_StrictSubsetOrderingWellFounded, FS_FiniteSubsetsOfFinite
<1>2. Bad \subseteq SUBSET S
  OBVIOUS
<1>3. PICK s \in Bad : \A t \in Bad : <<t, s>> \notin StrictSubsetOrdering(S)
  <2> HIDE DEF Bad
  <2> QED
    BY <1>1, <1>2, WFMin
<1>4. s \in SUBSET S /\ g[s] # Cardinality(Units(f, s, B))
  OBVIOUS
<1>5. CASE s = {}
  <2>1. g[s] = 0
    BY <1>4, <1>5 DEF SumsUp
  <2>2. Units(f, s, B) = {}
    BY <1>5 DEF Units
  <2> QED
    BY <1>4, <2>1, <2>2, FS_EmptySet
<1>6. CASE s # {}
  <2>1. Some(s) \in s
    BY <1>6 DEF Some
  <2> DEFINE t == s \ {Some(s)}
  <2>2. t \in SUBSET S /\ t # s /\ t \subseteq s
    BY <1>4, <2>1
  <2>3. <<t, s>> \in StrictSubsetOrdering(S)
    BY <1>4, <2>2 DEF StrictSubsetOrdering
  <2>4. g[t] = Cardinality(Units(f, t, B))
    BY <1>3, <2>2, <2>3
  <2>5. g[s] = f[Some(s)] + g[t]
    BY <1>4, <1>6 DEF SumsUp
  <2>6. Cardinality(Units(f, s, B)) = f[Some(s)] + Cardinality(Units(f, t, B))
    BY <1>4, <2>1, UnitsAdd
  <2> QED
    BY <1>4, <2>4, <2>5, <2>6
<1> QED
  BY <1>5, <1>6

\* The number of units sums up.
LEMMA UnitsSumUp ==
  ASSUME NEW S, IsFiniteSet(S), NEW B \in Nat, NEW f \in [S -> 0..B]
  PROVE  SumsUp([s \in SUBSET S |-> Cardinality(Units(f, s, B))], f, S)
<1> DEFINE g == [s \in SUBSET S |-> Cardinality(Units(f, s, B))]
<1> SUFFICES ASSUME NEW s \in SUBSET S
             PROVE  g[s] = IF s = {} THEN 0 ELSE f[Some(s)] + g[s \ {Some(s)}]
  BY DEF SumsUp
<1>1. CASE s = {}
  <2>1. Units(f, s, B) = {}
    BY <1>1 DEF Units
  <2> QED
    BY <1>1, <2>1, FS_EmptySet
<1>2. CASE s # {}
  <2>1. Some(s) \in s
    BY <1>2 DEF Some
  <2>2. Cardinality(Units(f, s, B)) =
          f[Some(s)] + Cardinality(Units(f, s \ {Some(s)}, B))
    BY <2>1, UnitsAdd
  <2> QED
    BY <1>2, <2>2
<1> QED
  BY <1>1, <1>2

LEMMA SumIsUnits ==
  ASSUME NEW S, IsFiniteSet(S), NEW B \in Nat, NEW f \in [S -> 0..B]
  PROVE  SumFunction(f) = Cardinality(Units(f, S, B))
<1> DEFINE sum == CHOOSE g : SumsUp(g, f, S)
<1>1. SumsUp(sum, f, S)
  <2>1. \E g : SumsUp(g, f, S)
    BY UnitsSumUp
  <2> QED
    BY <2>1
<1>2. SumFunction(f) = sum[S]
  BY DEF SumFunction, SumFunctionOnSet, FoldFunctionOnSet, MapThenFoldSet, SumsUp, Some
<1> HIDE DEF sum
<1> QED
  BY <1>1, <1>2, SumsAreUnits

\* A sum grows by one with one of its terms.
LEMMA SumGrows ==
  ASSUME NEW S, IsFiniteSet(S), NEW B \in Nat, NEW f \in [S -> 0..B], NEW g \in [S -> 0..B],
         NEW h \in S, g[h] = f[h] + 1, \A x \in S \ {h} : g[x] = f[x]
  PROVE  SumFunction(g) = SumFunction(f) + 1
<1>1. Units(f, S \ {h}, B) = Units(g, S \ {h}, B)
  BY DEF Units
<1>2. /\ Cardinality(Units(f, S, B)) = f[h] + Cardinality(Units(f, S \ {h}, B))
      /\ Cardinality(Units(g, S, B)) = g[h] + Cardinality(Units(g, S \ {h}, B))
  BY UnitsAdd
<1>3. Cardinality(Units(f, S \ {h}, B)) \in Nat
  <2>1. S \ {h} \in SUBSET S
    OBVIOUS
  <2> QED
    BY <2>1, UnitsFinite
<1>4. f[h] \in 0..B
  OBVIOUS
<1> QED
  BY <1>1, <1>2, <1>3, <1>4, SumIsUnits

LEMMA SumOfZeros ==
  ASSUME NEW S, IsFiniteSet(S)
  PROVE  SumFunction([x \in S |-> 0]) = 0
<1>1. [x \in S |-> 0] \in [S -> 0..0]
  OBVIOUS
<1>2. Units([x \in S |-> 0], S, 0) = {}
  BY DEF Units
<1> QED
  BY <1>1, <1>2, SumIsUnits, FS_EmptySet

LEMMA SumIsNat ==
  ASSUME NEW S, IsFiniteSet(S), NEW B \in Nat, NEW f \in [S -> 0..B]
  PROVE  SumFunction(f) \in Nat
  BY SumIsUnits, UnitsFinite
----------------------------------------------------------------------------
(* The inductive invariant. *)

\* A reply is a sample, and a request is pending or timed out at most once.
CountsBounded ==
  /\ stats.replies <= MaxCount
  /\ stats.count_lat = stats.replies
  /\ stats.timeouts + (IF waiting THEN 1 ELSE 0) <= asked.no

\* The pending slot is the last request's; a requester never fills it, and a
\* responder never counts a reply.
PendingIsLast ==
  /\ waiting => asked.no > 0 /\ last_seq = asked.seq
  /\ role = REQUESTER => last_seq = 0 /\ asked.no = 0
  /\ role = RESPONDER => stats.replies = 0

\* What each slot of the table holds, and that it is far from wrapping.
HopBooks ==
  \A h \in Hops :
    /\ hops[h].replies = recorded[h].good + (IF h = 0 THEN stats.replies ELSE 0)
    /\ hops[h].count = hops[h].replies
    /\ hops[h].timeouts <= stats.timeouts + recorded[h].bad
    /\ recorded[h].good + recorded[h].bad <= MaxRecords

HopTimeouts == [h \in Hops |-> hops[h].timeouts]
RecordedBad == [h \in Hops |-> recorded[h].bad]

TimeoutsAddUp == SumFunction(HopTimeouts) = stats.timeouts + SumFunction(RecordedBad)

\* What the latencies counted can be, which keeps their sum within the word
\* and puts the average between the smallest and the largest.
Latencies ==
  /\ stats.max_lat \in {0, UntimedLatency}
  /\ stats.min_lat \in {0, UntimedLatency, U32 - 1}
  /\ stats.min_lat = U32 - 1 <=> stats.replies = 0
  /\ stats.sum_lat <= UntimedLatency * stats.replies
  /\ stats.max_lat = 0 => stats.sum_lat = 0
  /\ stats.min_lat # 0 => stats.sum_lat = UntimedLatency * stats.replies

Inv == /\ TypeOK
       /\ CountsBounded
       /\ PendingIsLast
       /\ HopBooks
       /\ TimeoutsAddUp
       /\ Latencies

LEMMA EventTypes ==
  /\ ZeroEvent \in Event
  /\ \A seq \in SeqNo \cup {0}, lat \in Word, reason \in {"", "timeout"} :
       HopEvent(seq, lat, reason) \in Event
  BY WordAssumption DEF Event, ZeroEvent, HopEvent, Word

LEMMA HopsFinite == IsFiniteSet(Hops) /\ 0 \in Hops
<1>1. 0 \in Int /\ MAX_HOPS - 1 \in Int
  BY TracerouteAssumption
<1> QED
  BY <1>1, FS_Interval, TracerouteAssumption DEF Hops

\* A sequence number has a slot.
LEMMA HopOfOK ==
  ASSUME NEW seq \in SeqNo \cup {0}
  PROVE  HopOf(seq) \in Hops /\ HopOf(0) = 0
<1>1. seq \in Nat
  BY TracerouteAssumption
<1>2. seq % MAX_HOPS \in 0..(MAX_HOPS - 1) /\ 0 % MAX_HOPS = 0
  BY <1>1, TracerouteAssumption
<1> QED
  BY <1>2 DEF HopOf, Hops

LEMMA EmptyHistory ==
  /\ NoRequest \in [no : 0..MaxCount, seq : SeqNo \cup {0}, at : 0..MaxNow]
  /\ NothingRecorded \in [Hops -> [good : 0..MaxRecords, bad : 0..MaxRecords]]
  /\ NoHops \in [Hops -> HopBook]
<1>1. 0 \in Word
  BY WordAssumption DEF Word
<1> QED
  BY <1>1, TracerouteAssumption DEF NoRequest, NothingRecorded, NoHops, ZeroHop, HopBook

\* One call of record_hop touches one slot, and counts in it.
LEMMA RecordHopOK ==
  ASSUME hops \in [Hops -> HopBook], NEW hop \in Hops, NEW success \in BOOLEAN,
         NEW lat \in Word
  PROVE  LET new == record_hop(hop, success, lat)
         IN  /\ new \in [Hops -> HopBook]
             /\ \A h \in Hops \ {hop} : new[h] = hops[h]
             /\ success =>
                  /\ new[hop].timeouts = hops[hop].timeouts
                  /\ hops[hop].replies + 1 < U32 => new[hop].replies = hops[hop].replies + 1
                  /\ hops[hop].count + 1 < U32 => new[hop].count = hops[hop].count + 1
             /\ ~success =>
                  /\ hops[hop].timeouts + 1 < U32 => new[hop].timeouts = hops[hop].timeouts + 1
                  /\ new[hop].replies = hops[hop].replies
                  /\ new[hop].count = hops[hop].count
<1> DEFINE b == hops[hop]
           good == [replies |-> (b.replies + 1) % U32, timeouts |-> b.timeouts,
                    sum_lat |-> (b.sum_lat + lat) % U32, count |-> (b.count + 1) % U32]
           bad == [replies |-> b.replies, timeouts |-> (b.timeouts + 1) % U32,
                   sum_lat |-> b.sum_lat, count |-> b.count]
           new == record_hop(hop, success, lat)
<1>1. b \in HopBook
  OBVIOUS
<1>2. /\ b.replies \in Nat /\ b.timeouts \in Nat /\ b.sum_lat \in Nat /\ b.count \in Nat
      /\ lat \in Nat
  BY <1>1, WordAssumption DEF HopBook, Word
<1>3. /\ b.replies + 1 \in Nat /\ b.timeouts + 1 \in Nat /\ b.count + 1 \in Nat
      /\ b.sum_lat + lat \in Nat
  BY <1>2
<1>4. /\ (b.replies + 1) % U32 \in Word /\ (b.timeouts + 1) % U32 \in Word
      /\ (b.count + 1) % U32 \in Word /\ (b.sum_lat + lat) % U32 \in Word
      /\ b.replies + 1 < U32 => (b.replies + 1) % U32 = b.replies + 1
      /\ b.timeouts + 1 < U32 => (b.timeouts + 1) % U32 = b.timeouts + 1
      /\ b.count + 1 < U32 => (b.count + 1) % U32 = b.count + 1
  BY <1>3, ModWord
<1>5. good \in HopBook /\ bad \in HopBook
  BY <1>1, <1>4 DEF HopBook
<1>6. new = [hops EXCEPT ![hop] = IF success THEN good ELSE bad]
  BY DEF record_hop
<1>7. new \in [Hops -> HopBook] /\ \A h \in Hops \ {hop} : new[h] = hops[h]
  <2> HIDE DEF good, bad
  <2> QED
    BY <1>5, <1>6
<1>8. new[hop] = IF success THEN good ELSE bad
  <2> HIDE DEF good, bad
  <2> QED
    BY <1>6
<1> QED
  BY <1>4, <1>7, <1>8

\* A packet that answers leaves its own stamp and is measured against it.
LEMMA OwnStamp ==
  ASSUME TypeOK, NEW ts \in 0..now, Stamp(ts)
  PROVE  /\ send_ts' \in 0..MaxNow
         /\ Latency(send_ts', ts) \in {0, UntimedLatency}
         /\ Latency(send_ts', ts) \in Word
<1>1. ts \in Nat /\ ts \in 0..MaxNow /\ send_ts \in 0..MaxNow
  BY TracerouteAssumption DEF TypeOK
<1>2. send_ts' = IF ts # 0 THEN ts ELSE send_ts
  BY DEF Stamp
<1>3. CASE ts = 0
  BY <1>1, <1>2, <1>3, WordAssumption DEF Latency, Word, UntimedLatency
<1>4. CASE ts # 0
  <2>1. send_ts' = ts
    BY <1>2, <1>4
  <2>2. Latency(ts, ts) = 0
    BY <1>1, <1>4 DEF Latency
  <2> QED
    BY <1>1, <2>1, <2>2, WordAssumption DEF Word
<1> QED
  BY <1>3, <1>4

\* The counters as numbers, and how far they are from wrapping.
LEMMA Numbers ==
  ASSUME Inv
  PROVE  /\ stats.replies \in Nat /\ stats.timeouts \in Nat /\ stats.count_lat \in Nat
         /\ stats.sum_lat \in Nat /\ stats.dups \in Nat
         /\ stats.replies <= MaxCount /\ stats.timeouts <= MaxCount
         /\ asked.no \in Nat /\ asked.no <= MaxCount
         /\ (MaxCount + MaxRecords) * 100 < U32 /\ MaxCount + MaxRecords + 1 < U32
         /\ U32 > 100 /\ U32 \in Nat
         /\ MaxCount \in Nat /\ MaxRecords \in Nat
         /\ \A h \in Hops :
              /\ hops[h].replies \in Nat /\ hops[h].timeouts \in Nat /\ hops[h].count \in Nat
              /\ recorded[h].good \in Nat /\ recorded[h].bad \in Nat
              /\ recorded[h].good + recorded[h].bad <= MaxRecords
<1>1. /\ stats.replies \in Nat /\ stats.timeouts \in Nat /\ stats.count_lat \in Nat
      /\ stats.sum_lat \in Nat /\ stats.dups \in Nat
  BY WordAssumption DEF Inv, TypeOK, Counters, Word
<1>2. asked.no \in Nat /\ asked.no <= MaxCount
  BY TracerouteAssumption DEF Inv, TypeOK
<1>3. stats.replies <= MaxCount /\ stats.timeouts <= MaxCount
  BY <1>1, <1>2, TracerouteAssumption DEF Inv, CountsBounded, TypeOK
<1>4. ASSUME NEW h \in Hops
      PROVE  /\ hops[h].replies \in Nat /\ hops[h].timeouts \in Nat /\ hops[h].count \in Nat
             /\ recorded[h].good \in Nat /\ recorded[h].bad \in Nat
             /\ recorded[h].good + recorded[h].bad <= MaxRecords
  <2>1. hops[h] \in HopBook /\ recorded[h] \in [good : 0..MaxRecords, bad : 0..MaxRecords]
    BY DEF Inv, TypeOK
  <2> QED
    BY <2>1, WordAssumption, TracerouteAssumption DEF HopBook, Word, Inv, HopBooks
<1>5. /\ (MaxCount + MaxRecords) * 100 < U32 /\ MaxCount + MaxRecords + 1 < U32
      /\ U32 > 100 /\ U32 \in Nat /\ MaxCount \in Nat /\ MaxRecords \in Nat
  BY TracerouteAssumption, WordAssumption
<1> QED
  BY <1>1, <1>2, <1>3, <1>4, <1>5

----------------------------------------------------------------------------
(* Inv holds at the start and is kept by every step. *)

LEMMA InitInv == Init => Inv
<1> SUFFICES ASSUME Init PROVE Inv
  OBVIOUS
<1>1. PICK r \in Role, size \in QueueSizes : traceroute_create_with_config(r, size)
  BY DEF Init
<1>2. /\ role \in Role /\ ring = qinit(Allocated(ZeroEvent), size) /\ size \in Nat
      /\ last_seq = 0 /\ send_ts = 0 /\ waiting = FALSE /\ stats = ZeroStats
      /\ hops = NoHops /\ now = 0 /\ ev = ZeroEvent
      /\ asked = NoRequest /\ recorded = NothingRecorded /\ polled = 0
  BY <1>1, TracerouteAssumption DEF Init, traceroute_create_with_config
<1>3. ring \in Rings(Event) /\ RingOK(ring) /\ ring.cnt = 0
  BY <1>2, InitOK, AllocatedRaw, EventTypes
<1>4. TypeOK
  <2>1. send_ts \in 0..MaxNow /\ now \in 0..MaxNow /\ polled \in 0..MaxNow
    BY <1>2, TracerouteAssumption
  <2>2. last_seq \in SeqNo \cup {0}
    BY <1>2
  <2>3. waiting \in BOOLEAN
    BY <1>2
  <2> QED
    BY <1>2, <1>3, <2>1, <2>2, <2>3, ZeroStatsOK, EventTypes, EmptyHistory DEF TypeOK
<1>5. CountsBounded /\ PendingIsLast
  BY <1>2, TracerouteAssumption DEF CountsBounded, PendingIsLast, ZeroStats, NoRequest
<1>6. HopBooks
  BY <1>2, TracerouteAssumption DEF HopBooks, NoHops, ZeroHop, NothingRecorded, ZeroStats
<1>7. TimeoutsAddUp
  <2>1. HopTimeouts = [h \in Hops |-> 0] /\ RecordedBad = [h \in Hops |-> 0]
    BY <1>2 DEF HopTimeouts, RecordedBad, NoHops, ZeroHop, NothingRecorded
  <2> QED
    BY <1>2, <2>1, HopsFinite, SumOfZeros DEF TimeoutsAddUp, ZeroStats
<1>8. Latencies
  BY <1>2, <1>3, WordAssumption DEF Latencies, ZeroStats, UntimedLatency
<1> QED
  BY <1>4, <1>5, <1>6, <1>7, <1>8 DEF Inv

\* Both sums stay when no slot changes what they are over.
LEMMA SumsStay ==
  ASSUME TimeoutsAddUp, stats'.timeouts = stats.timeouts,
         \A h \in Hops : /\ hops'[h].timeouts = hops[h].timeouts
                         /\ recorded'[h].bad = recorded[h].bad
  PROVE  TimeoutsAddUp'
<1>1. HopTimeouts' = HopTimeouts /\ RecordedBad' = RecordedBad
  BY DEF HopTimeouts, RecordedBad
<1> QED
  BY <1>1 DEF TimeoutsAddUp

\* One slot of the table grows by one.
LEMMA TimeoutSumGrows ==
  ASSUME TypeOK, TypeOK', NEW hop \in Hops,
         hops'[hop].timeouts = hops[hop].timeouts + 1,
         \A h \in Hops \ {hop} : hops'[h].timeouts = hops[h].timeouts
  PROVE  SumFunction(HopTimeouts') = SumFunction(HopTimeouts) + 1
<1>1. U32 - 1 \in Nat /\ 0..(U32 - 1) = Word
  BY WordAssumption DEF Word
<1>2. HopTimeouts \in [Hops -> 0..(U32 - 1)]
  BY <1>1 DEF TypeOK, HopTimeouts, HopBook
<1>3. HopTimeouts' \in [Hops -> 0..(U32 - 1)]
  BY <1>1 DEF TypeOK, HopTimeouts, HopBook
<1>4. /\ HopTimeouts'[hop] = HopTimeouts[hop] + 1
      /\ \A h \in Hops \ {hop} : HopTimeouts'[h] = HopTimeouts[h]
  BY DEF HopTimeouts
<1> HIDE DEF HopTimeouts
<1> QED
  BY <1>1, <1>2, <1>3, <1>4, HopsFinite, SumGrows

LEMMA BadSumGrows ==
  ASSUME TypeOK, TypeOK', NEW hop \in Hops,
         recorded'[hop].bad = recorded[hop].bad + 1,
         \A h \in Hops \ {hop} : recorded'[h].bad = recorded[h].bad
  PROVE  SumFunction(RecordedBad') = SumFunction(RecordedBad) + 1
<1>1. MaxRecords \in Nat
  BY TracerouteAssumption
<1>2. RecordedBad \in [Hops -> 0..MaxRecords]
  BY DEF TypeOK, RecordedBad
<1>3. RecordedBad' \in [Hops -> 0..MaxRecords]
  BY DEF TypeOK, RecordedBad
<1>4. /\ RecordedBad'[hop] = RecordedBad[hop] + 1
      /\ \A h \in Hops \ {hop} : RecordedBad'[h] = RecordedBad[h]
  BY DEF RecordedBad
<1> QED
  BY <1>1, <1>2, <1>3, <1>4, HopsFinite, SumGrows

LEMMA SumsAreNumbers ==
  ASSUME TypeOK
  PROVE  SumFunction(HopTimeouts) \in Nat /\ SumFunction(RecordedBad) \in Nat
<1>1. U32 - 1 \in Nat /\ 0..(U32 - 1) = Word
  BY WordAssumption DEF Word
<1>2. HopTimeouts \in [Hops -> 0..(U32 - 1)]
  BY <1>1 DEF TypeOK, HopTimeouts, HopBook
<1>3. RecordedBad \in [Hops -> 0..MaxRecords] /\ MaxRecords \in Nat
  BY TracerouteAssumption DEF TypeOK, RecordedBad
<1> QED
  BY <1>1, <1>2, <1>3, HopsFinite, SumIsNat

LEMMA ReplyCounts ==
  ASSUME Inv, NEW ts \in 0..now, FeedUnreachable(ts)
  PROVE  /\ stats' \in Counters
         /\ stats'.replies = stats.replies + 1
         /\ stats'.count_lat = stats.count_lat + 1
         /\ stats'.sum_lat = stats.sum_lat + Latency(send_ts', ts)
         /\ stats'.timeouts = stats.timeouts
         /\ stats'.replies <= MaxCount
<1>1. /\ stats' = CountReply(stats, Latency(send_ts', ts)) /\ stats.replies < MaxCount
      /\ Stamp(ts)
  BY DEF FeedUnreachable
<1>2. /\ Latency(send_ts', ts) \in {0, UntimedLatency}
      /\ Latency(send_ts', ts) \in Word
  BY <1>1, OwnStamp DEF Inv
<1>3. /\ stats.replies \in Nat /\ stats.count_lat = stats.replies
      /\ stats.sum_lat \in Nat /\ stats.sum_lat <= 5 * stats.replies
      /\ MaxCount * 100 < U32 /\ MaxCount \in Nat /\ U32 \in Nat
  BY Numbers DEF Inv, CountsBounded, Latencies, UntimedLatency
<1>4. /\ stats.replies + 1 < U32 /\ stats.count_lat + 1 < U32
      /\ stats.sum_lat + Latency(send_ts', ts) < U32
  BY <1>1, <1>2, <1>3 DEF UntimedLatency
<1>5. stats \in Counters
  BY DEF Inv, TypeOK
<1> QED
  BY <1>1, <1>2, <1>3, <1>4, <1>5, CountReplyOK

LEMMA ReplyStep ==
  ASSUME Inv, NEW ts \in 0..now, FeedUnreachable(ts)
  PROVE  Inv'
<1> DEFINE lat == Latency(send_ts', ts)
<1>1. /\ role = REQUESTER /\ stats.replies < MaxCount /\ Stamp(ts)
      /\ ring' = qpush(ring, HopEvent(last_seq, lat, ""))
      /\ stats' = CountReply(stats, lat)
      /\ hops' = record_hop(HopOf(last_seq), TRUE, lat)
      /\ waiting' = FALSE
      /\ UNCHANGED <<role, last_seq, now, ev, asked, recorded, polled>>
  BY DEF FeedUnreachable, history
<1>2. send_ts' \in 0..MaxNow /\ lat \in {0, UntimedLatency} /\ lat \in Word
  BY <1>1, OwnStamp DEF Inv
<1>3. /\ stats' \in Counters /\ stats'.replies = stats.replies + 1
      /\ stats'.count_lat = stats.count_lat + 1 /\ stats'.sum_lat = stats.sum_lat + lat
      /\ stats'.timeouts = stats.timeouts /\ stats'.replies <= MaxCount
  BY ReplyCounts
<1> HIDE DEF lat
<1>4. /\ ring \in Rings(Event) /\ RingOK(ring) /\ hops \in [Hops -> HopBook]
      /\ last_seq = 0 /\ last_seq \in SeqNo \cup {0}
  BY <1>1 DEF Inv, TypeOK, PendingIsLast
<1>5. HopEvent(last_seq, lat, "") \in Event
  BY <1>2, <1>4, EventTypes DEF HopEvent
<1>6. ring' \in Rings(Event) /\ RingOK(ring')
  BY <1>1, <1>4, <1>5, PushOK
<1>7. /\ hops' \in [Hops -> HopBook]
      /\ \A h \in Hops \ {0} : hops'[h] = hops[h]
      /\ hops'[0].timeouts = hops[0].timeouts
      /\ hops[0].replies + 1 < U32 => hops'[0].replies = hops[0].replies + 1
      /\ hops[0].count + 1 < U32 => hops'[0].count = hops[0].count + 1
  <2>1. HopOf(last_seq) = 0 /\ 0 \in Hops
    BY <1>4, HopOfOK, HopsFinite
  <2>2. hops' = record_hop(0, TRUE, lat)
    BY <1>1, <2>1
  <2>3. TRUE \in BOOLEAN
    OBVIOUS
  <2> QED
    BY <1>2, <1>4, <2>1, <2>2, <2>3, RecordHopOK
<1>8. /\ hops'[0].replies = hops[0].replies + 1
      /\ hops'[0].count = hops[0].count + 1
  <2>1. /\ hops[0].replies = recorded[0].good + stats.replies
        /\ hops[0].count = hops[0].replies
    BY HopsFinite DEF Inv, HopBooks
  <2>2. /\ recorded[0].good \in Nat /\ recorded[0].bad \in Nat
        /\ recorded[0].good + recorded[0].bad <= MaxRecords
    BY HopsFinite, Numbers
  <2>3. /\ stats.replies \in Nat /\ stats.replies < MaxCount
        /\ MaxCount + MaxRecords + 1 < U32 /\ U32 \in Nat
        /\ MaxCount \in Nat /\ MaxRecords \in Nat
    BY <1>1, Numbers
  <2>4. hops[0].replies + 1 < U32
    BY <2>1, <2>2, <2>3
  <2> QED
    BY <1>7, <2>1, <2>4
<1>9. TypeOK'
  BY <1>1, <1>2, <1>3, <1>6, <1>7 DEF Inv, TypeOK
<1>10. CountsBounded'
  <2>1. stats.timeouts \in Nat /\ asked.no \in Nat
    BY Numbers
  <2>2. stats.count_lat = stats.replies
    BY DEF Inv, CountsBounded
  <2>3. stats.timeouts <= asked.no
    BY <2>1 DEF Inv, CountsBounded
  <2>4. asked' = asked /\ waiting' = FALSE
    BY <1>1
  <2> QED
    BY <1>3, <2>1, <2>2, <2>3, <2>4 DEF CountsBounded
<1>11. PendingIsLast'
  BY <1>1 DEF Inv, PendingIsLast, REQUESTER, RESPONDER
<1>12. HopBooks'
  <2> SUFFICES ASSUME NEW h \in Hops
               PROVE  /\ hops'[h].replies = recorded'[h].good + (IF h = 0 THEN stats'.replies ELSE 0)
                      /\ hops'[h].count = hops'[h].replies
                      /\ hops'[h].timeouts <= stats'.timeouts + recorded'[h].bad
                      /\ recorded'[h].good + recorded'[h].bad <= MaxRecords
    BY DEF HopBooks
  <2>1. /\ hops[h].replies = recorded[h].good + (IF h = 0 THEN stats.replies ELSE 0)
        /\ hops[h].count = hops[h].replies
        /\ hops[h].timeouts <= stats.timeouts + recorded[h].bad
        /\ recorded[h].good + recorded[h].bad <= MaxRecords
        /\ recorded[h].good \in Nat /\ stats.replies \in Nat
    BY Numbers DEF Inv, HopBooks
  <2>2. recorded' = recorded
    BY <1>1
  <2>3. CASE h = 0
    <3>1. hops'[h].replies = recorded'[h].good + stats'.replies
      BY <1>3, <1>8, <2>1, <2>2, <2>3
    <3>2. hops'[h].count = hops'[h].replies /\ hops'[h].timeouts = hops[h].timeouts
      BY <1>7, <1>8, <2>1, <2>3
    <3> QED
      BY <1>3, <2>1, <2>2, <2>3, <3>1, <3>2
  <2>4. CASE h # 0
    BY <1>3, <1>7, <2>1, <2>2, <2>4
  <2> QED
    BY <2>3, <2>4
<1>13. TimeoutsAddUp'
  <2>1. \A h \in Hops : /\ hops'[h].timeouts = hops[h].timeouts
                        /\ recorded'[h].bad = recorded[h].bad
    BY <1>1, <1>7
  <2> QED
    BY <1>3, <2>1, SumsStay DEF Inv
<1>14. Latencies'
  <2>2. /\ stats'.max_lat = IF lat > stats.max_lat THEN lat ELSE stats.max_lat
        /\ stats'.min_lat = IF lat < stats.min_lat THEN lat ELSE stats.min_lat
    BY <1>1 DEF CountReply
  <2>3. /\ stats.max_lat \in {0, 5} /\ stats.min_lat \in {0, 5, U32 - 1}
        /\ stats.min_lat = U32 - 1 <=> stats.replies = 0
        /\ stats.sum_lat <= 5 * stats.replies
        /\ stats.max_lat = 0 => stats.sum_lat = 0
        /\ stats.min_lat # 0 => stats.sum_lat = 5 * stats.replies
        /\ stats.replies \in Nat /\ stats.sum_lat \in Nat /\ U32 \in Nat /\ U32 > 100
    BY Numbers DEF Inv, Latencies, UntimedLatency
  <2>4. CASE lat = 0
    <3>1. stats'.max_lat = stats.max_lat /\ stats'.min_lat = 0
      BY <2>2, <2>3, <2>4
    <3> QED
      BY <1>3, <2>3, <2>4, <3>1 DEF Latencies, UntimedLatency
  <2>5. CASE lat = 5
    <3>1. /\ stats'.max_lat = 5
          /\ stats'.min_lat = IF stats.min_lat = 0 THEN 0 ELSE 5
      BY <2>2, <2>3, <2>5
    <3> QED
      BY <1>3, <2>3, <2>5, <3>1 DEF Latencies, UntimedLatency
  <2> QED
    BY <1>2, <2>4, <2>5 DEF UntimedLatency
<1> QED
  BY <1>9, <1>10, <1>11, <1>12, <1>13, <1>14 DEF Inv

\* What a step that leaves the counters and the table alone keeps.
LEMMA BooksStay ==
  ASSUME Inv, UNCHANGED <<stats, hops, recorded>>
  PROVE  HopBooks' /\ TimeoutsAddUp' /\ Latencies'
<1>1. HopBooks' /\ Latencies'
  BY DEF Inv, HopBooks, Latencies
<1>2. TimeoutsAddUp'
  BY SumsStay DEF Inv
<1> QED
  BY <1>1, <1>2

LEMMA RequestStep ==
  ASSUME Inv, NEW seq \in SeqNo, NEW ts \in 0..now, FeedEchoRequest(seq, ts)
  PROVE  Inv'
<1>1. /\ role = RESPONDER /\ asked.no < MaxCount /\ Stamp(ts)
      /\ last_seq' = seq /\ waiting' = TRUE
      /\ asked' = [no |-> asked.no + 1, seq |-> seq, at |-> ts] /\ polled' = 0
      /\ UNCHANGED <<role, ring, stats, hops, now, ev, recorded>>
  BY DEF FeedEchoRequest
<1>2. send_ts' \in 0..MaxNow
  BY <1>1, OwnStamp DEF Inv
<1>3. /\ asked.no \in Nat /\ ts \in 0..MaxNow /\ MaxCount \in Nat
      /\ stats.timeouts \in Nat
  BY Numbers, TracerouteAssumption DEF Inv, TypeOK
<1>4. TypeOK'
  <2>1. asked' \in [no : 0..MaxCount, seq : SeqNo \cup {0}, at : 0..MaxNow]
    BY <1>1, <1>3
  <2>2. polled' \in 0..MaxNow
    BY <1>1, TracerouteAssumption
  <2> QED
    BY <1>1, <1>2, <2>1, <2>2 DEF Inv, TypeOK
<1>5. CountsBounded'
  BY <1>1, <1>3 DEF Inv, CountsBounded
<1>6. PendingIsLast'
  BY <1>1, <1>3 DEF Inv, PendingIsLast, REQUESTER, RESPONDER
<1> QED
  BY <1>1, <1>4, <1>5, <1>6, BooksStay DEF Inv

LEMMA IgnoredStep ==
  ASSUME Inv, NEW kind \in Kind, NEW ts \in 0..now, FeedIgnored(kind, ts)
  PROVE  Inv'
<1>1. /\ Stamp(ts)
      /\ UNCHANGED <<role, ring, last_seq, waiting, stats, hops, now, ev,
                     asked, recorded, polled>>
  BY DEF FeedIgnored, history
<1>2. send_ts' \in 0..MaxNow
  BY <1>1, OwnStamp DEF Inv
<1>3. TypeOK' /\ CountsBounded' /\ PendingIsLast'
  BY <1>1, <1>2 DEF Inv, TypeOK, CountsBounded, PendingIsLast
<1> QED
  BY <1>1, <1>3, BooksStay DEF Inv

\* A timeout that is counted, is counted in the slot of the last request.
LEMMA TimeoutCounts ==
  ASSUME Inv, traceroute_process(now), Expired(now)
  PROVE  /\ stats' \in Counters
         /\ stats'.timeouts = stats.timeouts + 1
         /\ stats'.replies = stats.replies
         /\ stats'.count_lat = stats.count_lat
         /\ stats'.sum_lat = stats.sum_lat
         /\ stats'.timeouts <= asked.no
         /\ asked.no > 0 /\ last_seq = asked.seq
         /\ hops' \in [Hops -> HopBook]
         /\ HopOf(last_seq) \in Hops
         /\ hops'[HopOf(last_seq)].timeouts = hops[HopOf(last_seq)].timeouts + 1
         /\ hops'[HopOf(last_seq)].replies = hops[HopOf(last_seq)].replies
         /\ hops'[HopOf(last_seq)].count = hops[HopOf(last_seq)].count
         /\ \A h \in Hops \ {HopOf(last_seq)} : hops'[h] = hops[h]
<1>1. /\ waiting /\ stats' = CountTimeout(stats)
      /\ hops' = record_hop(HopOf(last_seq), FALSE, 0)
  BY DEF traceroute_process, Expired
<1>2. stats.timeouts + 1 <= asked.no /\ asked.no > 0 /\ last_seq = asked.seq
  BY <1>1 DEF Inv, CountsBounded, PendingIsLast
<1>3. stats.timeouts + 1 < U32
  BY <1>2, Numbers
<1>4. /\ stats' \in Counters /\ stats'.timeouts = stats.timeouts + 1
      /\ stats'.replies = stats.replies /\ stats'.count_lat = stats.count_lat
      /\ stats'.sum_lat = stats.sum_lat
  BY <1>1, <1>3, CountTimeoutOK DEF Inv, TypeOK
<1> DEFINE hop == HopOf(last_seq)
<1>5. hop \in Hops
  BY HopOfOK DEF Inv, TypeOK
<1>6. hops[hop].timeouts + 1 < U32
  <2>1. hops[hop].timeouts <= stats.timeouts + recorded[hop].bad
    BY <1>5 DEF Inv, HopBooks
  <2>2. /\ recorded[hop].bad \in Nat /\ recorded[hop].good \in Nat /\ hops[hop].timeouts \in Nat
        /\ recorded[hop].good + recorded[hop].bad <= MaxRecords
    BY <1>5, Numbers
  <2> QED
    BY <1>2, <2>1, <2>2, Numbers
<1>7. 0 \in Word /\ hops \in [Hops -> HopBook]
  BY WordAssumption DEF Word, Inv, TypeOK
<1>8. /\ hops' \in [Hops -> HopBook]
      /\ \A h \in Hops \ {hop} : hops'[h] = hops[h]
      /\ hops'[hop].timeouts = hops[hop].timeouts + 1
      /\ hops'[hop].replies = hops[hop].replies
      /\ hops'[hop].count = hops[hop].count
  <2> HIDE DEF hop
  <2> QED
    BY <1>1, <1>5, <1>6, <1>7, RecordHopOK DEF hop
<1> QED
  BY <1>2, <1>4, <1>5, <1>8

LEMMA ProcessStep ==
  ASSUME Inv, traceroute_process(now)
  PROVE  Inv'
<1>1. /\ polled' = now
      /\ UNCHANGED <<role, last_seq, send_ts, now, ev, asked, recorded>>
  BY DEF traceroute_process
<1>2. CASE ~Expired(now)
  <2>1. UNCHANGED <<ring, stats, hops, waiting>>
    BY <1>2 DEF traceroute_process
  <2>2. TypeOK' /\ CountsBounded' /\ PendingIsLast'
    BY <1>1, <2>1 DEF Inv, TypeOK, CountsBounded, PendingIsLast
  <2> QED
    BY <1>1, <2>1, <2>2, BooksStay DEF Inv
<1>3. CASE Expired(now)
  <2> DEFINE hop == HopOf(last_seq)
  <2>1. /\ waiting /\ waiting' = FALSE
        /\ ring' = qpush(ring, HopEvent(last_seq, 0, "timeout"))
        /\ stats' = CountTimeout(stats)
    BY <1>3 DEF traceroute_process, Expired
  <2>2. /\ stats' \in Counters /\ stats'.timeouts = stats.timeouts + 1
        /\ stats'.replies = stats.replies /\ stats'.count_lat = stats.count_lat
        /\ stats'.sum_lat = stats.sum_lat /\ stats'.timeouts <= asked.no
        /\ hops' \in [Hops -> HopBook] /\ hop \in Hops
        /\ hops'[hop].timeouts = hops[hop].timeouts + 1
        /\ hops'[hop].replies = hops[hop].replies
        /\ hops'[hop].count = hops[hop].count
        /\ \A h \in Hops \ {hop} : hops'[h] = hops[h]
    BY <1>3, TimeoutCounts
  <2>3. /\ ring \in Rings(Event) /\ RingOK(ring)
        /\ HopEvent(last_seq, 0, "timeout") \in Event
    <3>1. 0 \in Word
      BY WordAssumption DEF Word
    <3> QED
      BY <3>1, EventTypes DEF Inv, TypeOK, HopEvent
  <2>4. ring' \in Rings(Event) /\ RingOK(ring')
    BY <2>1, <2>3, PushOK
  <2>5. TypeOK'
    BY <1>1, <2>1, <2>2, <2>4 DEF Inv, TypeOK
  <2>6. CountsBounded'
    BY <1>1, <2>1, <2>2, Numbers DEF Inv, CountsBounded
  <2>7. PendingIsLast'
    BY <1>1, <2>1, <2>2 DEF Inv, PendingIsLast
  <2> HIDE DEF hop
  <2>8. HopBooks'
    <3> SUFFICES ASSUME NEW h \in Hops
                 PROVE  /\ hops'[h].replies = recorded'[h].good + (IF h = 0 THEN stats'.replies ELSE 0)
                        /\ hops'[h].count = hops'[h].replies
                        /\ hops'[h].timeouts <= stats'.timeouts + recorded'[h].bad
                        /\ recorded'[h].good + recorded'[h].bad <= MaxRecords
      BY DEF HopBooks
    <3>1. /\ hops[h].replies = recorded[h].good + (IF h = 0 THEN stats.replies ELSE 0)
          /\ hops[h].count = hops[h].replies
          /\ hops[h].timeouts <= stats.timeouts + recorded[h].bad
          /\ recorded[h].good + recorded[h].bad <= MaxRecords
          /\ recorded[h].bad \in Nat /\ stats.timeouts \in Nat /\ hops[h].timeouts \in Nat
      BY Numbers DEF Inv, HopBooks
    <3>2. CASE h = hop
      BY <1>1, <2>2, <3>1, <3>2
    <3>3. CASE h # hop
      BY <1>1, <2>2, <3>1, <3>3
    <3> QED
      BY <3>2, <3>3
  <2>9. TimeoutsAddUp'
    <3>1. SumFunction(HopTimeouts') = SumFunction(HopTimeouts) + 1
      BY <2>2, <2>5, TimeoutSumGrows DEF Inv
    <3>2. RecordedBad' = RecordedBad
      BY <1>1 DEF RecordedBad
    <3>3. SumFunction(HopTimeouts) \in Nat /\ SumFunction(RecordedBad) \in Nat
      BY SumsAreNumbers DEF Inv
    <3> QED
      BY <2>2, <3>1, <3>2, <3>3, Numbers DEF Inv, TimeoutsAddUp
  <2>10. Latencies'
    <3>1. stats'.max_lat = stats.max_lat /\ stats'.min_lat = stats.min_lat
      BY <2>1 DEF CountTimeout, Inv, TypeOK, Counters
    <3> QED
      BY <2>2, <3>1 DEF Inv, Latencies
  <2> QED
    BY <2>5, <2>6, <2>7, <2>8, <2>9, <2>10 DEF Inv
<1> QED
  BY <1>2, <1>3

LEMMA NextEventStep == ASSUME Inv, traceroute_next_event PROVE Inv'
<1>1. /\ ring.cnt > 0 /\ ring' = qpop(ring) /\ ev' = Oldest(ring)
      /\ UNCHANGED <<role, last_seq, send_ts, waiting, stats, hops, now,
                     asked, recorded, polled>>
  BY DEF traceroute_next_event, history
<1>2. ring \in Rings(Event) /\ RingOK(ring) /\ ring.cnt # 0
  BY <1>1 DEF Inv, TypeOK
<1>3. ring' \in Rings(Event) /\ RingOK(ring') /\ ev' \in Event
  BY <1>1, <1>2, PopOK
<1>4. TypeOK' /\ CountsBounded' /\ PendingIsLast'
  BY <1>1, <1>3 DEF Inv, TypeOK, CountsBounded, PendingIsLast
<1> QED
  BY <1>1, <1>4, BooksStay DEF Inv

\* The caller's own probe: its slot and the history count alike.
LEMMA RecordStep ==
  ASSUME Inv, NEW hop \in -1..MAX_HOPS, NEW success \in BOOLEAN,
         RecordHop(hop, success, UntimedLatency)
  PROVE  Inv'
<1>1. /\ hop \in Hops => recorded[hop].good + recorded[hop].bad < MaxRecords
      /\ hops' = record_hop(hop, success, UntimedLatency)
      /\ UNCHANGED <<role, ring, last_seq, send_ts, waiting, stats, now, ev, asked, polled>>
      /\ recorded' = IF hop \notin Hops THEN recorded
                     ELSE IF success THEN [recorded EXCEPT ![hop].good = @ + 1]
                     ELSE [recorded EXCEPT ![hop].bad = @ + 1]
  BY DEF RecordHop
<1>2. CASE hop \notin Hops
  <2>1. hops' = hops /\ recorded' = recorded
    BY <1>1, <1>2 DEF record_hop
  <2>2. TypeOK' /\ CountsBounded' /\ PendingIsLast'
    BY <1>1, <2>1 DEF Inv, TypeOK, CountsBounded, PendingIsLast
  <2> QED
    BY <1>1, <2>1, <2>2, BooksStay DEF Inv
<1>3. CASE hop \in Hops
  <2> DEFINE books == hops[hop]
             own == recorded[hop]
  <2>1. UntimedLatency \in Word /\ hops \in [Hops -> HopBook]
    BY WordAssumption DEF UntimedLatency, Word, Inv, TypeOK
  <2>2. /\ hops' \in [Hops -> HopBook]
        /\ \A h \in Hops \ {hop} : hops'[h] = hops[h]
        /\ success =>
             /\ hops'[hop].timeouts = hops[hop].timeouts
             /\ hops[hop].replies + 1 < U32 => hops'[hop].replies = hops[hop].replies + 1
             /\ hops[hop].count + 1 < U32 => hops'[hop].count = hops[hop].count + 1
        /\ ~success =>
             /\ hops[hop].timeouts + 1 < U32 => hops'[hop].timeouts = hops[hop].timeouts + 1
             /\ hops'[hop].replies = hops[hop].replies
             /\ hops'[hop].count = hops[hop].count
    BY <1>1, <1>3, <2>1, RecordHopOK
  <2>3. /\ hops[hop].replies = recorded[hop].good + (IF hop = 0 THEN stats.replies ELSE 0)
        /\ hops[hop].count = hops[hop].replies
        /\ hops[hop].timeouts <= stats.timeouts + recorded[hop].bad
        /\ recorded[hop].good \in Nat /\ recorded[hop].bad \in Nat
        /\ recorded[hop].good + recorded[hop].bad < MaxRecords
        /\ hops[hop].timeouts \in Nat
    BY <1>1, <1>3, Numbers DEF Inv, HopBooks
  <2>4. hops[hop].replies + 1 < U32 /\ hops[hop].timeouts + 1 < U32
    BY <2>3, Numbers
  <2>5. recorded \in [Hops -> [good : 0..MaxRecords, bad : 0..MaxRecords]]
    BY DEF Inv, TypeOK
  <2>6. recorded' = [recorded EXCEPT ![hop] =
                       [good |-> IF success THEN recorded[hop].good + 1 ELSE recorded[hop].good,
                        bad |-> IF success THEN recorded[hop].bad ELSE recorded[hop].bad + 1]]
    <3>1. recorded[hop] = [good |-> recorded[hop].good, bad |-> recorded[hop].bad]
      BY <1>3, <2>5
    <3>2. /\ [recorded[hop] EXCEPT !.good = @ + 1] =
               [good |-> recorded[hop].good + 1, bad |-> recorded[hop].bad]
          /\ [recorded[hop] EXCEPT !.bad = @ + 1] =
               [good |-> recorded[hop].good, bad |-> recorded[hop].bad + 1]
      BY <3>1
    <3>3. CASE success
      <4>1. recorded' = [recorded EXCEPT ![hop] = [recorded[hop] EXCEPT !.good = @ + 1]]
        BY <1>1, <1>3, <3>3
      <4> QED
        BY <3>2, <3>3, <4>1
    <3>4. CASE ~success
      <4>1. recorded' = [recorded EXCEPT ![hop] = [recorded[hop] EXCEPT !.bad = @ + 1]]
        BY <1>1, <1>3, <3>4
      <4> QED
        BY <3>2, <3>4, <4>1
    <3> QED
      BY <3>3, <3>4
  <2>7. /\ recorded' \in [Hops -> [good : 0..MaxRecords, bad : 0..MaxRecords]]
        /\ \A h \in Hops \ {hop} : recorded'[h] = recorded[h]
        /\ recorded'[hop].good = IF success THEN recorded[hop].good + 1 ELSE recorded[hop].good
        /\ recorded'[hop].bad = IF success THEN recorded[hop].bad ELSE recorded[hop].bad + 1
    <3> DEFINE new == [good |-> IF success THEN recorded[hop].good + 1 ELSE recorded[hop].good,
                       bad |-> IF success THEN recorded[hop].bad ELSE recorded[hop].bad + 1]
    <3>1. new \in [good : 0..MaxRecords, bad : 0..MaxRecords]
      BY <2>3, Numbers
    <3>2. recorded' = [recorded EXCEPT ![hop] = new]
      BY <2>6
    <3>3. recorded'[hop] = new /\ \A h \in Hops \ {hop} : recorded'[h] = recorded[h]
      <4> HIDE DEF new
      <4> QED
        BY <1>3, <2>5, <3>2
    <3>4. recorded' \in [Hops -> [good : 0..MaxRecords, bad : 0..MaxRecords]]
      <4> HIDE DEF new
      <4> QED
        BY <1>3, <2>5, <3>1, <3>2
    <3> QED
      BY <3>3, <3>4
  <2>8. TypeOK'
    BY <1>1, <2>2, <2>7 DEF Inv, TypeOK
  <2>9. CountsBounded' /\ PendingIsLast'
    BY <1>1 DEF Inv, CountsBounded, PendingIsLast
  <2>10. Latencies'
    BY <1>1 DEF Inv, Latencies
  <2>11. HopBooks'
    <3> SUFFICES ASSUME NEW h \in Hops
                 PROVE  /\ hops'[h].replies = recorded'[h].good + (IF h = 0 THEN stats'.replies ELSE 0)
                        /\ hops'[h].count = hops'[h].replies
                        /\ hops'[h].timeouts <= stats'.timeouts + recorded'[h].bad
                        /\ recorded'[h].good + recorded'[h].bad <= MaxRecords
      BY DEF HopBooks
    <3>1. CASE h # hop
      BY <1>1, <2>2, <2>7, <3>1 DEF Inv, HopBooks
    <3>2. CASE h = hop /\ success
      <4>1. /\ hops'[h].replies = hops[h].replies + 1 /\ hops'[h].count = hops[h].count + 1
            /\ hops'[h].timeouts = hops[h].timeouts
            /\ recorded'[h].good = recorded[h].good + 1 /\ recorded'[h].bad = recorded[h].bad
        BY <2>2, <2>3, <2>4, <2>7, <3>2
      <4>2. stats' = stats /\ stats.replies \in Nat /\ stats.timeouts \in Nat
        BY <1>1, Numbers
      <4>3. hops'[h].replies = recorded'[h].good + (IF h = 0 THEN stats'.replies ELSE 0)
        BY <2>3, <3>2, <4>1, <4>2
      <4>4. MaxRecords \in Nat
        BY Numbers
      <4> QED
        BY <2>3, <3>2, <4>1, <4>2, <4>3, <4>4
    <3>3. CASE h = hop /\ ~success
      <4>1. /\ hops'[h].replies = hops[h].replies /\ hops'[h].count = hops[h].count
            /\ hops'[h].timeouts = hops[h].timeouts + 1
            /\ recorded'[h].good = recorded[h].good /\ recorded'[h].bad = recorded[h].bad + 1
        BY <2>2, <2>3, <2>4, <2>7, <3>3
      <4> QED
        BY <1>1, <2>3, <3>3, <4>1, Numbers
    <3> QED
      BY <3>1, <3>2, <3>3
  <2>12. TimeoutsAddUp'
    <3>1. CASE success
      <4>1. \A h \in Hops : /\ hops'[h].timeouts = hops[h].timeouts
                            /\ recorded'[h].bad = recorded[h].bad
        BY <2>2, <2>7, <3>1
      <4> QED
        BY <1>1, <4>1, SumsStay DEF Inv
    <3>2. CASE ~success
      <4>1. SumFunction(HopTimeouts') = SumFunction(HopTimeouts) + 1
        BY <1>3, <2>2, <2>4, <2>8, <3>2, TimeoutSumGrows DEF Inv
      <4>2. SumFunction(RecordedBad') = SumFunction(RecordedBad) + 1
        BY <1>3, <2>7, <2>8, <3>2, BadSumGrows DEF Inv
      <4>3. SumFunction(HopTimeouts) \in Nat /\ SumFunction(RecordedBad) \in Nat
        BY SumsAreNumbers DEF Inv
      <4> QED
        BY <1>1, <4>1, <4>2, <4>3, Numbers DEF Inv, TimeoutsAddUp
    <3> QED
      BY <3>1, <3>2
  <2> QED
    BY <2>8, <2>9, <2>10, <2>11, <2>12 DEF Inv
<1> QED
  BY <1>2, <1>3

LEMMA ResetStep == ASSUME Inv, traceroute_reset PROVE Inv'
<1>1. /\ ring' = qinit(ring, ring.qsz) /\ stats' = ZeroStats /\ waiting' = FALSE
      /\ hops' = NoHops /\ asked' = NoRequest /\ recorded' = NothingRecorded /\ polled' = 0
      /\ UNCHANGED <<role, last_seq, send_ts, now, ev>>
  BY DEF traceroute_reset
<1>2. ring \in RawRings(Event) /\ ring.qsz \in Nat
  BY RingIsRaw DEF Inv, TypeOK, RawRings
<1>3. ring' \in Rings(Event) /\ RingOK(ring') /\ ring'.cnt = 0
  BY <1>1, <1>2, InitOK
<1>4. TypeOK'
  <2>1. polled' \in 0..MaxNow
    BY <1>1, TracerouteAssumption
  <2>2. waiting' \in BOOLEAN
    BY <1>1
  <2> QED
    BY <1>1, <1>3, <2>1, <2>2, ZeroStatsOK, EmptyHistory DEF Inv, TypeOK
<1>5. CountsBounded' /\ PendingIsLast'
  BY <1>1, TracerouteAssumption DEF Inv, CountsBounded, PendingIsLast, ZeroStats, NoRequest
<1>6. HopBooks'
  BY <1>1, TracerouteAssumption DEF HopBooks, NoHops, ZeroHop, NothingRecorded, ZeroStats
<1>7. TimeoutsAddUp'
  <2>1. HopTimeouts' = [h \in Hops |-> 0] /\ RecordedBad' = [h \in Hops |-> 0]
    BY <1>1 DEF HopTimeouts, RecordedBad, NoHops, ZeroHop, NothingRecorded
  <2> QED
    BY <1>1, <2>1, HopsFinite, SumOfZeros DEF TimeoutsAddUp, ZeroStats
<1>8. Latencies'
  BY <1>1, <1>3, WordAssumption DEF Latencies, ZeroStats, UntimedLatency
<1> QED
  BY <1>4, <1>5, <1>6, <1>7, <1>8 DEF Inv

LEMMA TickStep == ASSUME Inv, Tick PROVE Inv'
<1>1. /\ now' = now + 1 /\ now < MaxNow
      /\ UNCHANGED <<role, ring, last_seq, send_ts, waiting, stats, hops, ev,
                     asked, recorded, polled>>
  BY DEF Tick, ctx, history
<1>2. TypeOK' /\ CountsBounded' /\ PendingIsLast'
  BY <1>1, TracerouteAssumption DEF Inv, TypeOK, CountsBounded, PendingIsLast
<1> QED
  BY <1>1, <1>2, BooksStay DEF Inv

LEMMA StutterStep == ASSUME Inv, UNCHANGED vars PROVE Inv'
<1>1. UNCHANGED <<role, ring, last_seq, send_ts, waiting, stats, hops, now, ev,
                  asked, recorded, polled>>
  BY DEF vars
<1>2. TypeOK' /\ CountsBounded' /\ PendingIsLast'
  BY <1>1 DEF Inv, TypeOK, CountsBounded, PendingIsLast
<1> QED
  BY <1>1, <1>2, BooksStay DEF Inv

LEMMA InvAlways == Spec => []Inv
<1>1. Inv /\ [Next]_vars => Inv'
  <2> SUFFICES ASSUME Inv, [Next]_vars PROVE Inv'
    OBVIOUS
  <2>1. ASSUME NEW ts \in 0..now, FeedUnreachable(ts) PROVE Inv'
    BY <2>1, ReplyStep
  <2>2. ASSUME NEW seq \in SeqNo, NEW ts \in 0..now, FeedEchoRequest(seq, ts) PROVE Inv'
    BY <2>2, RequestStep
  <2>3. ASSUME NEW kind \in Kind, NEW ts \in 0..now, FeedIgnored(kind, ts) PROVE Inv'
    BY <2>3, IgnoredStep
  <2>4. CASE traceroute_process(now)
    BY <2>4, ProcessStep
  <2>5. CASE traceroute_next_event
    BY <2>5, NextEventStep
  <2>6. ASSUME NEW hop \in -1..MAX_HOPS, NEW success \in BOOLEAN,
               RecordHop(hop, success, UntimedLatency)
        PROVE  Inv'
    BY <2>6, RecordStep
  <2>7. CASE traceroute_reset
    BY <2>7, ResetStep
  <2>8. CASE Tick
    BY <2>8, TickStep
  <2>9. CASE UNCHANGED vars
    BY <2>9, StutterStep
  <2> QED
    BY <2>1, <2>2, <2>3, <2>4, <2>5, <2>6, <2>7, <2>8, <2>9 DEF Next
<1> QED
  BY InitInv, <1>1, PTL DEF Spec

(* Every variable keeps its type, and the queue's indices fit together.    *)
THEOREM TypeCorrect == Spec => []TypeOK
<1>1. Inv => TypeOK
  BY DEF Inv
<1> QED
  BY <1>1, InvAlways, PTL

----------------------------------------------------------------------------
(* The properties. *)

\* A hop's books fit into 32 bits even as percentages.
LEMMA HopBounded ==
  ASSUME Inv, NEW h \in Hops
  PROVE  /\ hops[h] \in HopBook
         /\ 100 * (hops[h].replies + hops[h].timeouts) < U32
<1>1. hops[h] \in HopBook
  BY DEF Inv, TypeOK
<1>2. PICK r \in Nat, t \in Nat, good \in Nat, bad \in Nat :
        /\ r = hops[h].replies /\ t = hops[h].timeouts
        /\ good = recorded[h].good /\ bad = recorded[h].bad
        /\ good + bad <= MaxRecords
  BY Numbers
<1>3. PICK replies \in Nat, timeouts \in Nat :
        /\ replies = stats.replies /\ timeouts = stats.timeouts
        /\ replies <= MaxCount /\ timeouts <= MaxCount
  BY Numbers
<1>4. /\ r = good + (IF h = 0 THEN replies ELSE 0)
      /\ t <= timeouts + bad
  BY <1>2, <1>3 DEF Inv, HopBooks
<1>5. replies = 0 \/ timeouts = 0
  <2>1. CASE role = REQUESTER
    BY <1>3, <2>1, Numbers DEF Inv, PendingIsLast, CountsBounded
  <2>2. CASE role = RESPONDER
    BY <1>3, <2>2 DEF Inv, PendingIsLast
  <2> QED
    BY <2>1, <2>2 DEF Inv, TypeOK, Role
<1>6. MaxCount \in Nat /\ MaxRecords \in Nat /\ (MaxCount + MaxRecords) * 100 < U32
      /\ U32 \in Nat
  BY Numbers
<1>7. r + t <= MaxCount + MaxRecords
  BY <1>2, <1>3, <1>4, <1>5, <1>6
<1> QED
  BY <1>1, <1>2, <1>6, <1>7

\* The percentage that an integer division gives is the one rounded down.
LEMMA FlooredShare ==
  ASSUME NEW part \in Nat, NEW whole \in Nat, whole > 0
  PROVE  LET pct == (part * 100) \div whole
         IN  pct * whole <= 100 * part /\ 100 * part < (pct + 1) * whole
<1>1. PICK d \in Int : d = (part * 100) \div whole
  OBVIOUS
<1>2. PICK m \in 0..(whole - 1) : m = (part * 100) % whole
  OBVIOUS
<1>3. part * 100 = whole * d + m
  BY <1>1, <1>2
<1>4. d * whole <= 100 * part
  BY <1>2, <1>3
<1>5. 100 * part < (d + 1) * whole
  <2>1. (d + 1) * whole = whole * d + whole
    OBVIOUS
  <2> QED
    BY <1>2, <1>3, <2>1
<1> QED
  BY <1>1, <1>4, <1>5

\* Neither the sum nor the product of a hop's loss wraps.
LEMMA HopLossExact ==
  ASSUME Inv, NEW h \in Hops
  PROVE  LET lost == hops[h].timeouts
             probes == hops[h].replies + hops[h].timeouts
             loss == traceroute_hop_loss_pct(h)
         IN  IF probes = 0 THEN loss = 0
             ELSE loss * probes <= 100 * lost /\ 100 * lost < (loss + 1) * probes
<1>1. PICK r \in Nat, t \in Nat : r = hops[h].replies /\ t = hops[h].timeouts
  BY Numbers
<1>2. 100 * (r + t) < U32
  BY <1>1, HopBounded
<1>3. /\ r + t \in Nat /\ r + t < U32
      /\ t * 100 \in Nat /\ t * 100 < U32
  BY <1>2, WordAssumption
<1>4. (r + t) % U32 = r + t /\ (t * 100) % U32 = t * 100
  BY <1>3, ModWord
<1>5. traceroute_hop_loss_pct(h) = IF r + t = 0 THEN 0 ELSE (t * 100) \div (r + t)
  BY <1>1, <1>4 DEF traceroute_hop_loss_pct
<1>6. CASE r + t = 0
  BY <1>1, <1>5, <1>6
<1>7. CASE r + t # 0
  <2>1. PICK pct \in Int : pct = (t * 100) \div (r + t)
    BY <1>3, <1>7
  <2>2. pct * (r + t) <= 100 * t /\ 100 * t < (pct + 1) * (r + t)
    BY <1>3, <1>7, <2>1, FlooredShare
  <2> QED
    BY <1>1, <1>5, <1>7, <2>1, <2>2
<1> QED
  BY <1>6, <1>7

(* The hop table adds up: replies by hop are the caller's own probes and,  *)
(* for hop 0, the replies of the context; the timeouts of all hops together *)
(* are those of the context and those the caller booked; and the loss of a *)
(* hop is its share of timeouts in percent, -1 where there is no hop.      *)
THEOREM TableAddsUp == Spec => []HopTableAddsUp
<1>1. Inv => HopTableAddsUp
  <2> SUFFICES ASSUME Inv PROVE HopTableAddsUp
    OBVIOUS
  <2>1. \A h \in Hops :
          /\ hops[h].replies = recorded[h].good + (IF h = 0 THEN stats.replies ELSE 0)
          /\ hops[h].count = hops[h].replies
    BY DEF Inv, HopBooks
  <2>2. SumFunction([h \in Hops |-> hops[h].timeouts])
          = stats.timeouts + SumFunction([h \in Hops |-> recorded[h].bad])
    BY DEF Inv, TimeoutsAddUp, HopTimeouts, RecordedBad
  <2>3. \A h \in Hops :
          LET lost == hops[h].timeouts
              probes == hops[h].replies + hops[h].timeouts
              loss == traceroute_hop_loss_pct(h)
          IN  IF probes = 0 THEN loss = 0
              ELSE loss * probes <= 100 * lost /\ 100 * lost < (loss + 1) * probes
    BY HopLossExact
  <2>4. \A hop \in {-1, MAX_HOPS} : traceroute_hop_loss_pct(hop) = -1
    <3>1. -1 \notin Hops /\ MAX_HOPS \notin Hops
      BY TracerouteAssumption DEF Hops
    <3> QED
      BY <3>1 DEF traceroute_hop_loss_pct
  <2> QED
    BY <2>1, <2>2, <2>3, <2>4 DEF HopTableAddsUp
<1> QED
  BY <1>1, InvAlways, PTL

\* Between equal samples, and between 0 and the placeholder, the average lies
\* between the smallest and the largest.
LEMMA AverageBetween ==
  ASSUME NEW n \in Nat, n > 0, NEW sum \in Nat, sum <= 5 * n
  PROVE  /\ sum \div n \in 0..5
         /\ sum = 0 => sum \div n = 0
         /\ sum = 5 * n => sum \div n = 5
<1>1. PICK d \in Int : d = sum \div n
  OBVIOUS
<1>2. PICK m \in 0..(n - 1) : m = sum % n
  OBVIOUS
<1>3. sum = n * d + m
  BY <1>1, <1>2
<1>4. d >= 0
  BY <1>1
<1>5. d <= 5
  <2> SUFFICES ASSUME d >= 6 PROVE FALSE
    BY <1>1
  <2>1. n * d >= n * 6
    OBVIOUS
  <2> QED
    BY <1>2, <1>3, <2>1
<1>6. sum = 0 => d = 0
  <2> SUFFICES ASSUME sum = 0, d >= 1 PROVE FALSE
    BY <1>4
  <2>1. n * d >= n
    OBVIOUS
  <2> QED
    BY <1>2, <1>3, <2>1
<1>7. sum = 5 * n => d = 5
  <2> SUFFICES ASSUME sum = 5 * n, d <= 4 PROVE FALSE
    BY <1>5
  <2>1. n * d <= n * 4
    BY <1>4
  <2> QED
    BY <1>2, <1>3, <2>1
<1> QED
  BY <1>1, <1>4, <1>5, <1>6, <1>7

(* What get_stats says of the latencies agrees with itself: the smallest,  *)
(* the average and the largest are in this order.                          *)
THEOREM AverageInRange == Spec => []AverageIsBetween
<1>1. Inv => AverageIsBetween
  <2> SUFFICES ASSUME Inv PROVE AverageIsBetween
    OBVIOUS
  <2> DEFINE s == traceroute_get_stats
             avg == stats.sum_lat \div stats.count_lat
  <2>1. /\ s.replies = stats.replies
        /\ s.avg_latency_ms = IF stats.count_lat = 0 THEN 0 ELSE avg
        /\ s.max_latency_ms = stats.max_lat
        /\ s.min_latency_ms = IF stats.min_lat = U32 - 1 THEN 0 ELSE stats.min_lat
    BY DEF traceroute_get_stats, get_stats
  <2>2. ASSUME s.replies > 0
        PROVE  /\ s.min_latency_ms <= s.avg_latency_ms
               /\ s.avg_latency_ms <= s.max_latency_ms
    <3>1. /\ stats.replies \in Nat /\ stats.replies > 0 /\ stats.count_lat = stats.replies
          /\ stats.sum_lat \in Nat /\ stats.sum_lat <= 5 * stats.replies
          /\ stats.min_lat \in {0, 5} /\ stats.max_lat \in {0, 5}
          /\ stats.max_lat = 0 => stats.sum_lat = 0
          /\ stats.min_lat # 0 => stats.sum_lat = 5 * stats.replies
          /\ stats.min_lat # U32 - 1
      BY <2>1, <2>2, Numbers DEF Inv, CountsBounded, Latencies, UntimedLatency
    <3>2. /\ avg \in 0..5
          /\ stats.sum_lat = 0 => avg = 0
          /\ stats.sum_lat = 5 * stats.replies => avg = 5
      BY <3>1, AverageBetween
    <3>3. s.min_latency_ms = stats.min_lat /\ s.avg_latency_ms = avg
      BY <2>1, <3>1
    <3> HIDE DEF s, avg
    <3>4. avg <= stats.max_lat /\ stats.min_lat <= avg
      BY <3>1, <3>2
    <3> QED
      BY <2>1, <3>3, <3>4
  <2> HIDE DEF s
  <2>3. s = traceroute_get_stats
    BY DEF s
  <2> QED
    BY <2>2, <2>3 DEF AverageIsBetween
<1> QED
  BY <1>1, InvAlways, PTL

\* What a push does to the newest end of the queue.
LEMMA PushIsLast ==
  ASSUME TypeOK, NEW e \in Event, ring' = qpush(ring, e), ring.cnt < ring.qsz
  PROVE  Contents(ring')[ring'.cnt] = e
<1>1. /\ Contents(ring) \in Seq(Event) /\ Len(Contents(ring)) = ring.cnt
      /\ ring.cnt \in Nat
  BY ContentsSeq DEF TypeOK
<1>2. ring'.cnt = ring.cnt + 1 /\ Contents(ring') = Append(Contents(ring), e)
  BY PushRoom DEF TypeOK
<1> QED
  BY <1>1, <1>2, AppendProperties

(* A timeout is booked once for a request that is pending, at the hop of   *)
(* the last request and at no other, and is reported under the number of   *)
(* that request; after a reset there is none until something is asked.     *)
THEOREM TimeoutBooked == Spec => TimeoutBookedToItsHop
<1> DEFINE Booked ==
       stats'.timeouts > stats.timeouts =>
         /\ waiting /\ ~waiting'
         /\ asked.no > 0
         /\ \A h \in Hops :
              hops'[h].timeouts - hops[h].timeouts = IF h = asked.seq % MAX_HOPS THEN 1 ELSE 0
         /\ ring.cnt < ring.qsz =>
              Contents(ring')[ring'.cnt] = HopEvent(asked.seq, 0, "timeout")
<1>1. Inv /\ [Next]_vars => [Booked]_vars
  <2> SUFFICES ASSUME Inv, Next PROVE Booked
    OBVIOUS
  <2>0. stats.timeouts \in Nat
    BY Numbers
  <2>1. ASSUME NEW ts \in 0..now, FeedUnreachable(ts) PROVE Booked
    BY <2>0, <2>1, ReplyCounts
  <2>2. ASSUME NEW seq \in SeqNo, NEW ts \in 0..now, FeedEchoRequest(seq, ts) PROVE Booked
    BY <2>0, <2>2 DEF FeedEchoRequest
  <2>3. ASSUME NEW kind \in Kind, NEW ts \in 0..now, FeedIgnored(kind, ts) PROVE Booked
    BY <2>0, <2>3 DEF FeedIgnored
  <2>4. CASE traceroute_process(now)
    <3>1. CASE ~Expired(now)
      BY <2>0, <2>4, <3>1 DEF traceroute_process
    <3>2. CASE Expired(now)
      <4> DEFINE hop == HopOf(last_seq)
      <4>1. /\ asked.no > 0 /\ last_seq = asked.seq /\ hop \in Hops
            /\ hops'[hop].timeouts = hops[hop].timeouts + 1
            /\ \A h \in Hops \ {hop} : hops'[h] = hops[h]
        BY <2>4, <3>2, TimeoutCounts
      <4>2. hop = asked.seq % MAX_HOPS /\ waiting /\ ~waiting'
        BY <2>4, <3>2, <4>1 DEF HopOf, traceroute_process, Expired
      <4>3. ring' = qpush(ring, HopEvent(asked.seq, 0, "timeout"))
        BY <2>4, <3>2, <4>1 DEF traceroute_process
      <4>4. HopEvent(asked.seq, 0, "timeout") \in Event
        <5>1. 0 \in Word /\ asked.seq \in SeqNo \cup {0}
          BY WordAssumption DEF Word, Inv, TypeOK
        <5> QED
          BY <5>1, EventTypes
      <4>5. ring.cnt < ring.qsz =>
              Contents(ring')[ring'.cnt] = HopEvent(asked.seq, 0, "timeout")
        BY <4>3, <4>4, PushIsLast DEF Inv
      <4> HIDE DEF hop
      <4>6. ASSUME NEW h \in Hops
            PROVE  hops'[h].timeouts - hops[h].timeouts = IF h = hop THEN 1 ELSE 0
        <5>1. hops[h].timeouts \in Nat
          BY Numbers
        <5>2. CASE h = hop
          BY <4>1, <5>1, <5>2
        <5>3. CASE h # hop
          BY <4>1, <5>1, <5>3
        <5> QED
          BY <5>2, <5>3
      <4> QED
        BY <4>1, <4>2, <4>5, <4>6
    <3> QED
      BY <3>1, <3>2
  <2>5. CASE traceroute_next_event
    BY <2>0, <2>5 DEF traceroute_next_event
  <2>6. ASSUME NEW hop \in -1..MAX_HOPS, NEW success \in BOOLEAN,
               RecordHop(hop, success, UntimedLatency)
        PROVE  Booked
    BY <2>0, <2>6 DEF RecordHop
  <2>7. CASE traceroute_reset
    BY <2>0, <2>7 DEF traceroute_reset, ZeroStats
  <2>8. CASE Tick
    BY <2>0, <2>8 DEF Tick, ctx
  <2> QED
    BY <2>1, <2>2, <2>3, <2>4, <2>5, <2>6, <2>7, <2>8 DEF Next
<1> QED
  BY <1>1, InvAlways, PTL DEF Spec, TimeoutBookedToItsHop

----------------------------------------------------------------------------
(* The queue keeps the promise of EventChannel. *)

\* One event produced: offered to the channel, kept if there is room.
LEMMA PushOffers ==
  ASSUME Inv, NEW e \in Event, ring' = qpush(ring, e), ev' = ev,
         stats'.replies + stats'.timeouts = stats.replies + stats.timeouts + 1
  PROVE  Channel!Offer
<1>1. ring \in Rings(Event) /\ RingOK(ring)
  BY DEF Inv, TypeOK
<1>2. /\ Contents(ring) \in Seq(Event) /\ Len(Contents(ring)) = ring.cnt
      /\ ring.cnt \in Nat /\ ring.qsz \in Nat /\ ring.cnt <= ring.qsz
  BY <1>1, ContentsSeq, RingFields
<1>3. stats.replies + stats.timeouts \in Nat
  BY Numbers
<1>4. CASE ring.cnt = ring.qsz
  <2>1. ring' = ring
    BY <1>1, <1>4, PushFull
  <2> QED
    BY <1>2, <1>3, <1>4, <2>1 DEF Channel!Offer
<1>5. CASE ring.cnt < ring.qsz
  <2>1. ring'.qsz = ring.qsz /\ Contents(ring') = Append(Contents(ring), e)
    BY <1>1, <1>5, PushRoom
  <2>2. /\ Contents(ring') \in Seq(Event)
        /\ Len(Contents(ring')) = ring.cnt + 1
        /\ \A i \in 1..ring.cnt : Contents(ring')[i] = Contents(ring)[i]
    BY <1>2, <2>1, AppendProperties
  <2> QED
    BY <1>2, <1>3, <1>5, <2>1, <2>2 DEF Channel!Offer
<1> QED
  BY <1>2, <1>4, <1>5

(* What is produced are the hops and the timeouts the statistics count;    *)
(* the caller's own probes are booked and produce no event.                *)
THEOREM Refinement == Spec => KeepsEventPromise
<1>1. Init => Channel!Init
  <2> SUFFICES ASSUME Init PROVE Channel!Init
    OBVIOUS
  <2>1. PICK r \in Role, size \in QueueSizes : traceroute_create_with_config(r, size)
    BY DEF Init
  <2>2. ring = qinit(Allocated(ZeroEvent), size) /\ size \in Nat /\ stats = ZeroStats
    BY <2>1, TracerouteAssumption DEF traceroute_create_with_config
  <2>3. Contents(ring) = <<>> /\ ring.qsz \in 1..MAX_Q
    BY <2>2, InitOK, AllocatedRaw, EventTypes, ClampSizeOK
  <2>4. stats.replies + stats.timeouts = 0
    BY <2>2 DEF ZeroStats
  <2>5. ev \in Event
    BY EventTypes DEF Init
  <2> QED
    BY <2>3, <2>4, <2>5, QueueAssumption DEF Channel!Init
<1>2. Inv /\ [Next]_vars => [Channel!Next]_(Channel!vars)
  <2> SUFFICES ASSUME Inv, [Next]_vars PROVE [Channel!Next]_(Channel!vars)
    OBVIOUS
  <2>0. ring \in Rings(Event) /\ RingOK(ring)
    BY DEF Inv, TypeOK
  <2>1. ASSUME NEW ts \in 0..now, FeedUnreachable(ts) PROVE Channel!Next
    <3> DEFINE e == HopEvent(last_seq, Latency(send_ts', ts), "")
    <3>1. Stamp(ts) /\ ring' = qpush(ring, e) /\ ev' = ev
      BY <2>1 DEF FeedUnreachable
    <3>2. e \in Event
      BY <3>1, OwnStamp, EventTypes DEF Inv, TypeOK
    <3>3. stats'.replies + stats'.timeouts = stats.replies + stats.timeouts + 1
      BY <2>1, ReplyCounts, Numbers
    <3> HIDE DEF e
    <3> QED
      BY <3>1, <3>2, <3>3, PushOffers DEF Channel!Next
  <2>2. ASSUME NEW seq \in SeqNo, NEW ts \in 0..now, FeedEchoRequest(seq, ts)
        PROVE  UNCHANGED Channel!vars
    BY <2>2 DEF FeedEchoRequest, Channel!vars
  <2>3. ASSUME NEW kind \in Kind, NEW ts \in 0..now, FeedIgnored(kind, ts)
        PROVE  UNCHANGED Channel!vars
    BY <2>3 DEF FeedIgnored, Channel!vars
  <2>4. CASE traceroute_process(now)
    <3>1. CASE ~Expired(now)
      BY <2>4, <3>1 DEF traceroute_process, Channel!vars
    <3>2. CASE Expired(now)
      <4>1. ring' = qpush(ring, HopEvent(last_seq, 0, "timeout")) /\ ev' = ev
        BY <2>4, <3>2 DEF traceroute_process
      <4>2. HopEvent(last_seq, 0, "timeout") \in Event
        <5>1. 0 \in Word
          BY WordAssumption DEF Word
        <5> QED
          BY <5>1, EventTypes DEF Inv, TypeOK
      <4>3. stats'.replies + stats'.timeouts = stats.replies + stats.timeouts + 1
        <5>1. stats'.replies = stats.replies /\ stats'.timeouts = stats.timeouts + 1
          BY <2>4, <3>2, TimeoutCounts
        <5>2. stats.replies \in Nat /\ stats.timeouts \in Nat
          BY Numbers
        <5> QED
          BY <5>1, <5>2
      <4> QED
        BY <4>1, <4>2, <4>3, PushOffers DEF Channel!Next
    <3> QED
      BY <3>1, <3>2
  <2>5. CASE traceroute_next_event
    <3>1. /\ ring.cnt > 0 /\ ring' = qpop(ring) /\ stats' = stats /\ ev' = Oldest(ring)
      BY <2>5 DEF traceroute_next_event
    <3>2. /\ Contents(ring) # <<>> /\ Oldest(ring) = Head(Contents(ring))
          /\ Contents(ring') = Tail(Contents(ring)) /\ ring'.qsz = ring.qsz
      BY <2>0, <3>1, PopOK
    <3> QED
      BY <3>1, <3>2 DEF Channel!Next, Channel!Take
  <2>6. ASSUME NEW hop \in -1..MAX_HOPS, NEW success \in BOOLEAN,
               RecordHop(hop, success, UntimedLatency)
        PROVE  UNCHANGED Channel!vars
    BY <2>6 DEF RecordHop, Channel!vars
  <2>7. CASE traceroute_reset
    <3>1. ring' = qinit(ring, ring.qsz) /\ stats' = ZeroStats /\ ev' = ev
      BY <2>7 DEF traceroute_reset
    <3>2. ring \in RawRings(Event) /\ ring.qsz \in 1..MAX_Q /\ ring.qsz \in Nat
      BY <2>0, RingIsRaw, QueueAssumption DEF Rings
    <3>3. Contents(ring') = <<>> /\ ring'.qsz = ring.qsz
      BY <3>1, <3>2, InitOK, ClampSizeFixed
    <3>4. stats'.replies + stats'.timeouts = 0
      BY <3>1 DEF ZeroStats
    <3> QED
      BY <3>1, <3>3, <3>4 DEF Channel!Next, Channel!Clear
  <2>8. CASE Tick
    BY <2>8 DEF Tick, ctx, Channel!vars
  <2>9. CASE UNCHANGED vars
    BY <2>9 DEF vars, Channel!vars
  <2> QED
    BY <2>1, <2>2, <2>3, <2>4, <2>5, <2>6, <2>7, <2>8, <2>9 DEF Next
<1> QED
  BY <1>1, <1>2, InvAlways, PTL DEF Spec, Channel!Spec, KeepsEventPromise
=============================================================================
