--------------------------- MODULE ContextProofs ---------------------------
(***************************************************************************)
(* What every context of the library is made of, for every array size,     *)
(* default size, configured size, word size and set of events: what        *)
(* qinit, qpush and qpop do to the contents of a queue, also when the      *)
(* events of one buffer are pushed in a burst, and that the counters stay  *)
(* uint32_t values, count exactly while they do not wrap and give a loss   *)
(* that is a percentage while its product does not wrap.                   *)
(*                                                                         *)
(* Where a queue drops events, what its reader sees is a subsequence of    *)
(* what was reported; the lemmas about that relation exhibit the positions *)
(* that are kept.                                                          *)
(*                                                                         *)
(* A burst and the parsers' loops are written with FoldLeft.  Its value is *)
(* followed prefix by prefix; what that takes, the function behind a fold, *)
(* is here too.                                                            *)
(***************************************************************************)
EXTENDS EventRing, DiagStats, SequencesExt, SequenceTheorems, WellFoundedInduction, TLAPS

----------------------------------------------------------------------------
(* The event queue. *)

\* Before creation the context is zeroed; afterwards its queue is a ring.
RawRings(Event) ==
  [qsz : Nat, q : [Slots -> Event], head : Nat, tail : Nat, cnt : Nat]

LEMMA AllocatedRaw ==
  ASSUME NEW Event, NEW z \in Event
  PROVE  Allocated(z) \in RawRings(Event)
  BY DEF Allocated, RawRings

LEMMA RingIsRaw ==
  ASSUME NEW Event, NEW r \in Rings(Event)
  PROVE  r \in RawRings(Event)
  BY QueueAssumption DEF Rings, RawRings, Slots

\* The clamp: the size in use is never 0 and never beyond the array, so the
\* code's % c->qsz is defined and its indices stay inside q.
LEMMA ClampSizeOK ==
  ASSUME NEW s \in Nat
  PROVE  ClampSize(s) \in 1..MAX_Q
  BY QueueAssumption DEF ClampSize, Min2

\* A size that is in use is kept by the clamp: reset does not resize.
LEMMA ClampSizeFixed ==
  ASSUME NEW s \in 1..MAX_Q
  PROVE  ClampSize(s) = s
  BY QueueAssumption DEF ClampSize, Min2

\* Creation and reset give a well-formed empty queue.
LEMMA InitOK ==
  ASSUME NEW Event, NEW r \in RawRings(Event), NEW s \in Nat
  PROVE  /\ qinit(r, s) \in Rings(Event)
         /\ RingOK(qinit(r, s))
         /\ qinit(r, s).qsz = ClampSize(s)
         /\ qinit(r, s).cnt = 0
         /\ Contents(qinit(r, s)) = <<>>
<1>1. ClampSize(s) \in 1..MAX_Q
  BY ClampSizeOK
<1> DEFINE t == qinit(r, s)
<1>2. t = [qsz |-> ClampSize(s), q |-> r.q, head |-> 0, tail |-> 0, cnt |-> 0]
  BY DEF qinit
<1>3. t \in Rings(Event)
  BY <1>1, <1>2, QueueAssumption DEF Rings, Slots, RawRings
<1>4. RingOK(t)
  <2>1. PICK n \in Nat : n > 0 /\ n = ClampSize(s)
    BY <1>1, QueueAssumption
  <2>2. (0 + 0) % n = 0
    BY <2>1
  <2> QED
    BY <1>2, <2>1, <2>2 DEF RingOK
<1>5. Contents(t) = <<>>
  BY <1>2 DEF Contents
<1> QED
  BY <1>2, <1>3, <1>4, <1>5

----------------------------------------------------------------------------
\* The fields of a well-formed queue as integers.
LEMMA RingFields ==
  ASSUME NEW Event, NEW r \in Rings(Event), RingOK(r)
  PROVE  /\ r.q \in [Slots -> Event]
         /\ \E n \in Nat, h \in Nat, l \in Nat, c \in Nat :
              /\ n = r.qsz /\ h = r.head /\ l = r.tail /\ c = r.cnt
              /\ 0 < n /\ n <= MAX_Q
              /\ h < n /\ l < n /\ c <= n
              /\ l = (h + c) % n
  BY QueueAssumption DEF Rings, RingOK, Slots

\* The contents of a queue are a sequence of its cnt events.
LEMMA ContentsSeq ==
  ASSUME NEW Event, NEW r \in Rings(Event), RingOK(r)
  PROVE  /\ Contents(r) \in Seq(Event)
         /\ Len(Contents(r)) = r.cnt
         /\ r.cnt \in Nat
<1>1. PICK n \in Nat, h \in Nat, l \in Nat, c \in Nat :
        /\ n = r.qsz /\ h = r.head /\ l = r.tail /\ c = r.cnt
        /\ 0 < n /\ n <= MAX_Q
        /\ h < n /\ l < n /\ c <= n
        /\ l = (h + c) % n
  BY RingFields
<1>2. \A i \in 1..c : (h + i - 1) % n \in Slots
  BY <1>1, QueueAssumption DEF Slots
<1>3. Contents(r) = [i \in 1..c |-> r.q[(h + i - 1) % n]]
  BY <1>1 DEF Contents
<1>4. Contents(r) \in [1..c -> Event]
  BY <1>2, <1>3, RingFields
<1>5. Contents(r) \in Seq(Event)
  BY <1>4, SeqDef
<1>6. Len(Contents(r)) = c
  BY <1>4, <1>5, LenProperties
<1> QED
  BY <1>1, <1>5, <1>6

\* A full queue is left as it is.
LEMMA PushFull ==
  ASSUME NEW Event, NEW r \in Rings(Event), RingOK(r), NEW e \in Event,
         r.cnt = r.qsz
  PROVE  qpush(r, e) = r
  BY RingFields, QueueAssumption DEF qpush

\* Pushing on a queue that has room appends to its contents.
LEMMA PushRoom ==
  ASSUME NEW Event, NEW r \in Rings(Event), RingOK(r), NEW e \in Event,
         r.cnt < r.qsz
  PROVE  /\ qpush(r, e) \in Rings(Event)
         /\ RingOK(qpush(r, e))
         /\ qpush(r, e).qsz = r.qsz
         /\ qpush(r, e).cnt = r.cnt + 1
         /\ Contents(qpush(r, e)) = Append(Contents(r), e)
<1> DEFINE t == qpush(r, e)
<1>0. PICK n \in Nat, h \in Nat, l \in Nat, c \in Nat :
        /\ n = r.qsz /\ h = r.head /\ l = r.tail /\ c = r.cnt
        /\ 0 < n /\ n <= MAX_Q
        /\ h < n /\ l < n /\ c <= n
        /\ l = (h + c) % n
  BY RingFields
<1>1. n = r.qsz /\ h = r.head /\ l = r.tail /\ c = r.cnt
  BY <1>0
<1>2. /\ 0 < n /\ n <= MAX_Q /\ h < n /\ l < n /\ c < n
      /\ l = (h + c) % n
  BY <1>0
<1>3. t = [qsz |-> n, q |-> [r.q EXCEPT ![l] = e], head |-> h,
           tail |-> (l + 1) % n, cnt |-> c + 1]
  BY <1>1, <1>2 DEF qpush
\* The new tail closes the new contents, and the slot written is not the slot
\* of an event already there.
<1>4. /\ (l + 1) % n \in 0..(n - 1)
      /\ (l + 1) % n = (h + (c + 1)) % n
      /\ (h + (c + 1) - 1) % n = l
  BY <1>2
<1>5. ASSUME NEW i \in 1..c
      PROVE  (h + i - 1) % n \in Slots \ {l}
  BY <1>2, QueueAssumption DEF Slots
<1>6. t \in Rings(Event)
  <2>1. n \in 1..MAX_Q /\ h \in Slots /\ l \in Slots /\ c + 1 \in 0..MAX_Q
    BY <1>2, QueueAssumption DEF Slots
  <2>2. (l + 1) % n \in Slots
    BY <1>2, <1>4, QueueAssumption DEF Slots
  <2>3. [r.q EXCEPT ![l] = e] \in [Slots -> Event]
    BY RingFields
  <2> QED
    BY <1>3, <2>1, <2>2, <2>3 DEF Rings
<1>7. RingOK(t)
  <2>1. PICK m \in Nat : m = (l + 1) % n
    BY <1>4
  <2> QED
    BY <1>2, <1>3, <1>4, <2>1 DEF RingOK
<1>8. /\ Contents(r) \in Seq(Event) /\ Len(Contents(r)) = c
      /\ Contents(t) \in Seq(Event) /\ Len(Contents(t)) = c + 1
  BY <1>1, <1>3, <1>6, <1>7, ContentsSeq
<1>9. /\ Append(Contents(r), e) \in Seq(Event)
      /\ Len(Append(Contents(r), e)) = c + 1
      /\ \A i \in 1..c : Append(Contents(r), e)[i] = Contents(r)[i]
      /\ Append(Contents(r), e)[c + 1] = e
  BY <1>8, AppendProperties
<1>10. ASSUME NEW i \in 1..(c + 1)
       PROVE  Contents(t)[i] = Append(Contents(r), e)[i]
  <2>1. Contents(t)[i] = [r.q EXCEPT ![l] = e][(h + i - 1) % n]
    BY <1>3 DEF Contents
  <2>2. CASE i = c + 1
    <3>1. l \in Slots
      BY <1>2, QueueAssumption DEF Slots
    <3> QED
      BY <1>4, <1>9, <2>1, <2>2, <3>1, RingFields
  <2>3. CASE i \in 1..c
    <3>1. Contents(t)[i] = r.q[(h + i - 1) % n]
      BY <1>5, <2>1, <2>3, RingFields
    <3>2. Contents(r)[i] = r.q[(h + i - 1) % n]
      BY <1>1, <2>3 DEF Contents
    <3> QED
      BY <1>9, <2>3, <3>1, <3>2
  <2>4. i = c + 1 \/ i \in 1..c
    OBVIOUS
  <2> QED
    BY <2>2, <2>3, <2>4
<1>11. Contents(t) = Append(Contents(r), e)
  BY <1>8, <1>9, <1>10, SeqEqual
<1>12. t.qsz = r.qsz /\ t.cnt = r.cnt + 1
  BY <1>1, <1>3
<1> QED
  BY <1>6, <1>7, <1>11, <1>12

\* Taking from a queue removes the head of its contents.
LEMMA PopOK ==
  ASSUME NEW Event, NEW r \in Rings(Event), RingOK(r), r.cnt # 0
  PROVE  /\ qpop(r) \in Rings(Event)
         /\ RingOK(qpop(r))
         /\ qpop(r).qsz = r.qsz
         /\ qpop(r).cnt = r.cnt - 1
         /\ Contents(r) # <<>>
         /\ Oldest(r) = Head(Contents(r))
         /\ Oldest(r) \in Event
         /\ Contents(qpop(r)) = Tail(Contents(r))
<1> DEFINE t == qpop(r)
<1>0. PICK n \in Nat, h \in Nat, l \in Nat, c \in Nat :
        /\ n = r.qsz /\ h = r.head /\ l = r.tail /\ c = r.cnt
        /\ 0 < n /\ n <= MAX_Q
        /\ h < n /\ l < n /\ c <= n
        /\ l = (h + c) % n
  BY RingFields
<1>1. n = r.qsz /\ h = r.head /\ l = r.tail /\ c = r.cnt
  BY <1>0
<1>2. /\ 0 < n /\ n <= MAX_Q /\ h < n /\ l < n /\ 0 < c /\ c <= n
      /\ l = (h + c) % n
  BY <1>0
<1>3. t = [qsz |-> n, q |-> r.q, head |-> (h + 1) % n, tail |-> l, cnt |-> c - 1]
  BY <1>1, <1>2 DEF qpop
\* The tail still closes the contents, and event i of the rest is in the slot
\* of event i + 1.
<1>4. PICK g \in Nat : g = (h + 1) % n /\ g < n
  BY <1>2
<1>5. /\ (g + (c - 1)) % n = l
      /\ (h + 1 - 1) % n = h
  BY <1>2, <1>4
<1>6. ASSUME NEW i \in 1..(c - 1)
      PROVE  (g + i - 1) % n = (h + (i + 1) - 1) % n
  BY <1>2, <1>4
<1>7. t \in Rings(Event)
  <2>1. /\ n \in 1..MAX_Q /\ g \in Slots /\ l \in Slots /\ c - 1 \in 0..MAX_Q
    BY <1>2, <1>4, QueueAssumption DEF Slots
  <2> QED
    BY <1>3, <1>4, <2>1, RingFields DEF Rings
<1>8. RingOK(t)
  BY <1>2, <1>3, <1>4, <1>5 DEF RingOK
<1>9. /\ Contents(r) \in Seq(Event) /\ Len(Contents(r)) = c
      /\ Contents(t) \in Seq(Event) /\ Len(Contents(t)) = c - 1
  BY <1>1, <1>3, <1>7, <1>8, ContentsSeq
<1>10. Contents(r) # <<>>
  BY <1>2, <1>9, EmptySeq
<1>11. /\ Head(Contents(r)) = Contents(r)[1]
       /\ Tail(Contents(r)) \in Seq(Event)
       /\ Len(Tail(Contents(r))) = c - 1
       /\ \A i \in 1..(c - 1) : Tail(Contents(r))[i] = Contents(r)[i + 1]
  BY <1>9, <1>10, HeadTailProperties
<1>12. Oldest(r) = Head(Contents(r)) /\ Oldest(r) \in Event
  <2>1. Contents(r)[1] = r.q[(h + 1 - 1) % n]
    BY <1>1, <1>2 DEF Contents
  <2>2. h \in Slots
    BY <1>2, QueueAssumption DEF Slots
  <2> QED
    BY <1>1, <1>5, <1>11, <2>1, <2>2, RingFields DEF Oldest
<1>13. ASSUME NEW i \in 1..(c - 1)
       PROVE  Contents(t)[i] = Tail(Contents(r))[i]
  <2>1. Contents(r)[i + 1] = r.q[(h + (i + 1) - 1) % n]
    <3>1. i + 1 \in 1..c
      BY <1>2
    <3>2. \A j \in 1..c : Contents(r)[j] = r.q[(h + j - 1) % n]
      BY Zenon, <1>1 DEF Contents
    <3> QED
      BY Zenon, <3>1, <3>2
  <2>2. Contents(t)[i] = r.q[(g + i - 1) % n]
    BY <1>3, <1>4 DEF Contents
  <2> QED
    BY <1>6, <1>11, <2>1, <2>2
<1>14. Contents(t) = Tail(Contents(r))
  BY <1>9, <1>11, <1>13, SeqEqual
<1>15. t.qsz = r.qsz /\ t.cnt = r.cnt - 1
  BY <1>1, <1>3
<1> QED
  BY <1>7, <1>8, <1>10, <1>12, <1>14, <1>15

\* An empty queue is left as it is.
LEMMA PopEmpty ==
  ASSUME NEW r, r.cnt = 0
  PROVE  qpop(r) = r
  BY DEF qpop

\* Whether or not there is room, a push leaves a well-formed queue.
LEMMA PushOK ==
  ASSUME NEW Event, NEW r \in Rings(Event), RingOK(r), NEW e \in Event
  PROVE  /\ qpush(r, e) \in Rings(Event)
         /\ RingOK(qpush(r, e))
         /\ qpush(r, e).qsz = r.qsz
<1>1. r.cnt < r.qsz \/ r.cnt = r.qsz
  BY RingFields
<1>2. CASE r.cnt < r.qsz
  BY <1>2, PushRoom
<1>3. CASE r.cnt = r.qsz
  BY <1>3, PushFull
<1> QED
  BY <1>1, <1>2, <1>3

\* What holds of every waiting event and of the new one holds after a push.
\* (Stated for a set of events: the events with the property.)
LEMMA PushKeeps ==
  ASSUME NEW Event, NEW r \in Rings(Event), RingOK(r), NEW e \in Event,
         NEW Good, e \in Good, \A i \in 1..r.cnt : Contents(r)[i] \in Good
  PROVE  \A i \in 1..qpush(r, e).cnt : Contents(qpush(r, e))[i] \in Good
<1>1. r.cnt < r.qsz \/ r.cnt = r.qsz
  BY RingFields
<1>2. CASE r.cnt = r.qsz
  BY <1>2, PushFull
<1>3. CASE r.cnt < r.qsz
  <2>1. Contents(r) \in Seq(Event) /\ Len(Contents(r)) = r.cnt /\ r.cnt \in Nat
    BY ContentsSeq
  <2>2. /\ qpush(r, e).cnt = r.cnt + 1
        /\ Contents(qpush(r, e)) = Append(Contents(r), e)
    BY <1>3, PushRoom
  <2>3. \A i \in 1..(r.cnt + 1) : Append(Contents(r), e)[i] \in Good
    BY <2>1, AppendProperties
  <2> QED
    BY <2>2, <2>3
<1> QED
  BY <1>1, <1>2, <1>3

\* What holds of every waiting event holds after a pop.
LEMMA PopKeeps ==
  ASSUME NEW Event, NEW r \in Rings(Event), RingOK(r),
         NEW Good, \A i \in 1..r.cnt : Contents(r)[i] \in Good
  PROVE  \A i \in 1..qpop(r).cnt : Contents(qpop(r))[i] \in Good
<1>1. CASE r.cnt = 0
  BY <1>1, PopEmpty
<1>2. CASE r.cnt # 0
  <2>1. Contents(r) \in Seq(Event) /\ Len(Contents(r)) = r.cnt /\ r.cnt \in Nat
    BY ContentsSeq
  <2>2. /\ qpop(r).cnt = r.cnt - 1 /\ Contents(r) # <<>>
        /\ Contents(qpop(r)) = Tail(Contents(r))
    BY <1>2, PopOK
  <2>3. \A i \in 1..(r.cnt - 1) : Tail(Contents(r))[i] = Contents(r)[i + 1]
    BY <2>1, <2>2, HeadTailProperties
  <2> QED
    BY <2>1, <2>2, <2>3
<1> QED
  BY <1>1, <1>2

----------------------------------------------------------------------------
(* Sequences with elements left out. *)

LEMMA NothingOfNothing == SubsequenceOf(<<>>, <<>>)
<1> DEFINE f == [i \in 1..Len(<<>>) |-> 0]
<1>1. 1..Len(<<>>) = {}
  OBVIOUS
<1>2. f \in [1..Len(<<>>) -> 1..Len(<<>>)]
  BY <1>1
<1> QED
  BY <1>1, <1>2 DEF SubsequenceOf

\* One element more to leave out.
LEMMA LeaveOut ==
  ASSUME NEW S, NEW s \in Seq(S), NEW t \in Seq(S), NEW x \in S, SubsequenceOf(s, t)
  PROVE  SubsequenceOf(s, Append(t, x))
<1>1. PICK f \in [1..Len(s) -> 1..Len(t)] :
        /\ \A i, j \in 1..Len(s) : i < j => f[i] < f[j]
        /\ \A i \in 1..Len(s) : s[i] = t[f[i]]
  BY DEF SubsequenceOf
<1> DEFINE u == Append(t, x)
<1>2. /\ Len(s) \in Nat /\ Len(t) \in Nat
      /\ Len(u) = Len(t) + 1 /\ \A i \in 1..Len(t) : u[i] = t[i]
  BY AppendProperties
<1> HIDE DEF u
<1>3. f \in [1..Len(s) -> 1..Len(u)]
  BY <1>2
<1>4. \A i \in 1..Len(s) : s[i] = u[f[i]]
  BY <1>1, <1>2
<1>5. SubsequenceOf(s, u)
  BY <1>1, <1>3, <1>4 DEF SubsequenceOf
<1> QED
  BY <1>5 DEF u

\* One element more, and it is kept.
LEMMA KeepLast ==
  ASSUME NEW S, NEW s \in Seq(S), NEW t \in Seq(S), NEW x \in S, SubsequenceOf(s, t)
  PROVE  SubsequenceOf(Append(s, x), Append(t, x))
<1>1. PICK f \in [1..Len(s) -> 1..Len(t)] :
        /\ \A i, j \in 1..Len(s) : i < j => f[i] < f[j]
        /\ \A i \in 1..Len(s) : s[i] = t[f[i]]
  BY DEF SubsequenceOf
<1>0. PICK m \in Nat, n \in Nat : m = Len(s) /\ n = Len(t)
  OBVIOUS
<1> DEFINE u == Append(t, x)
           v == Append(s, x)
           g == [i \in 1..(m + 1) |-> IF i <= m THEN f[i] ELSE n + 1]
<1>2. /\ Len(u) = n + 1 /\ u[n + 1] = x /\ \A i \in 1..n : u[i] = t[i]
      /\ Len(v) = m + 1 /\ v[m + 1] = x /\ \A i \in 1..m : v[i] = s[i]
  BY <1>0, AppendProperties
<1> HIDE DEF u, v
<1>3. \A i \in 1..m : f[i] \in 1..n
  BY <1>0, <1>1
<1>4. \A i \in 1..(m + 1) : g[i] = IF i <= m THEN f[i] ELSE n + 1
  OBVIOUS
<1>5. g \in [1..(m + 1) -> 1..(n + 1)]
  BY <1>3
<1> HIDE DEF g
<1>6. ASSUME NEW i \in 1..(m + 1), NEW j \in 1..(m + 1), i < j
      PROVE  g[i] < g[j]
  <2>1. i \in 1..m /\ g[i] = f[i] /\ f[i] \in 1..n
    BY <1>3, <1>4, <1>6
  <2>2. CASE j <= m
    BY <1>0, <1>1, <1>4, <1>6, <2>1, <2>2
  <2>3. CASE ~(j <= m)
    BY <1>4, <2>1, <2>3
  <2> QED
    BY <2>2, <2>3
<1>7. ASSUME NEW i \in 1..(m + 1)
      PROVE  v[i] = u[g[i]]
  <2>1. CASE i <= m
    <3>1. i \in 1..m /\ g[i] = f[i] /\ f[i] \in 1..n
      BY <1>3, <1>4, <2>1
    <3>2. s[i] = t[f[i]]
      BY <1>0, <1>1, <3>1
    <3> QED
      BY <1>2, <3>1, <3>2
  <2>2. CASE ~(i <= m)
    <3>1. i = m + 1 /\ g[i] = n + 1
      BY <1>4, <2>2
    <3> QED
      BY <1>2, <3>1
  <2> QED
    BY <2>1, <2>2
<1>8. SubsequenceOf(v, u)
  BY <1>2, <1>5, <1>6, <1>7 DEF SubsequenceOf
<1> QED
  BY <1>8 DEF u, v

----------------------------------------------------------------------------
(* What the events of a queue tell: F of each, oldest first. *)

\* What a reader may make of an event.
Readings(Event, X) == [Event -> X]

AsRead(F, r) == [i \in 1..r.cnt |-> F[Contents(r)[i]]]

LEMMA AsReadSeq ==
  ASSUME NEW Event, NEW X, NEW F \in Readings(Event, X),
         NEW r \in Rings(Event), RingOK(r)
  PROVE  /\ AsRead(F, r) \in Seq(X) /\ Len(AsRead(F, r)) = r.cnt /\ r.cnt \in Nat
         /\ \A i \in 1..r.cnt : AsRead(F, r)[i] = F[Contents(r)[i]]
<1>1. /\ Contents(r) \in Seq(Event) /\ Len(Contents(r)) = r.cnt /\ r.cnt \in Nat
  BY ContentsSeq
<1>2. \A i \in 1..r.cnt : Contents(r)[i] \in Event
  BY <1>1, ElementOfSeq
<1>3. \A i \in 1..r.cnt : F[Contents(r)[i]] \in X
  BY <1>2 DEF Readings
<1>4. AsRead(F, r) \in [1..r.cnt -> X]
  BY <1>3 DEF AsRead
<1>5. AsRead(F, r) \in Seq(X)
  BY <1>1, <1>4, SeqDef
<1>6. Len(AsRead(F, r)) = r.cnt
  BY <1>1, <1>4, <1>5, LenProperties
<1> QED
  BY <1>1, <1>5, <1>6 DEF AsRead

\* One event more, or the queue was full.
LEMMA AsReadPush ==
  ASSUME NEW Event, NEW X, NEW F \in Readings(Event, X),
         NEW r \in Rings(Event), RingOK(r), NEW e \in Event
  PROVE  \/ AsRead(F, qpush(r, e)) = AsRead(F, r)
         \/ AsRead(F, qpush(r, e)) = Append(AsRead(F, r), F[e])
<1>1. r.cnt < r.qsz \/ r.cnt = r.qsz
  BY RingFields
<1>2. CASE r.cnt = r.qsz
  BY <1>2, PushFull
<1>3. CASE r.cnt < r.qsz
  <2> DEFINE t == qpush(r, e)
             m == F[e]
  <2>1. /\ t \in Rings(Event) /\ RingOK(t) /\ t.cnt = r.cnt + 1
        /\ Contents(t) = Append(Contents(r), e)
    BY <1>3, PushRoom
  <2>2. /\ Contents(r) \in Seq(Event) /\ Len(Contents(r)) = r.cnt
    BY ContentsSeq
  <2>3. m \in X
    BY DEF Readings
  <2>4. /\ AsRead(F, r) \in Seq(X) /\ Len(AsRead(F, r)) = r.cnt /\ r.cnt \in Nat
        /\ \A i \in 1..r.cnt : AsRead(F, r)[i] = F[Contents(r)[i]]
    BY AsReadSeq
  <2> HIDE DEF t
  <2>5. /\ AsRead(F, t) \in Seq(X) /\ Len(AsRead(F, t)) = t.cnt
        /\ \A i \in 1..t.cnt : AsRead(F, t)[i] = F[Contents(t)[i]]
    <3>1. t \in Rings(Event) /\ RingOK(t)
      BY <2>1
    <3> QED
      BY <3>1, AsReadSeq
  <2>6. /\ \A i \in 1..r.cnt : Contents(t)[i] = Contents(r)[i]
        /\ Contents(t)[r.cnt + 1] = e
    BY <2>1, <2>2, AppendProperties
  <2> HIDE DEF m
  <2>7. /\ Append(AsRead(F, r), m) \in Seq(X)
        /\ Len(Append(AsRead(F, r), m)) = r.cnt + 1
        /\ \A i \in 1..r.cnt : Append(AsRead(F, r), m)[i] = AsRead(F, r)[i]
        /\ Append(AsRead(F, r), m)[r.cnt + 1] = m
    BY <2>3, <2>4, AppendProperties
  <2>8. ASSUME NEW i \in 1..(r.cnt + 1)
        PROVE  AsRead(F, t)[i] = Append(AsRead(F, r), m)[i]
    <3>1. CASE i = r.cnt + 1
      BY <2>1, <2>5, <2>6, <2>7, <3>1 DEF m
    <3>2. CASE i # r.cnt + 1
      <4>1. i \in 1..r.cnt
        BY <2>4, <3>2
      <4> QED
        BY <2>1, <2>4, <2>5, <2>6, <2>7, <4>1
    <3> QED
      BY <3>1, <3>2
  <2>9. AsRead(F, t) = Append(AsRead(F, r), m)
    BY <2>1, <2>5, <2>7, <2>8, SeqEqual
  <2> QED
    BY <2>9 DEF t, m
<1> QED
  BY <1>1, <1>2, <1>3

\* What is taken was the first in the queue.
LEMMA AsReadPop ==
  ASSUME NEW Event, NEW X, NEW F \in Readings(Event, X),
         NEW r \in Rings(Event), RingOK(r), r.cnt # 0, NEW s \in Seq(X)
  PROVE  /\ F[Oldest(r)] \in X
         /\ Append(s, F[Oldest(r)]) \o AsRead(F, qpop(r)) = s \o AsRead(F, r)
<1> DEFINE t == qpop(r)
           m == F[Oldest(r)]
<1>1. /\ t \in Rings(Event) /\ RingOK(t) /\ t.cnt = r.cnt - 1
      /\ Contents(r) # <<>> /\ Oldest(r) = Head(Contents(r))
      /\ Oldest(r) \in Event /\ Contents(t) = Tail(Contents(r))
  BY PopOK
<1>2. /\ Contents(r) \in Seq(Event) /\ Len(Contents(r)) = r.cnt
  BY ContentsSeq
<1>3. /\ Head(Contents(r)) = Contents(r)[1]
      /\ \A i \in 1..(r.cnt - 1) : Tail(Contents(r))[i] = Contents(r)[i + 1]
  BY <1>1, <1>2, HeadTailProperties
<1>4. m \in X
  BY <1>1 DEF Readings
<1>5. /\ AsRead(F, r) \in Seq(X) /\ Len(AsRead(F, r)) = r.cnt /\ r.cnt \in Nat
      /\ \A i \in 1..r.cnt : AsRead(F, r)[i] = F[Contents(r)[i]]
  BY AsReadSeq
<1>6. m = AsRead(F, r)[1]
  BY <1>1, <1>3, <1>5
<1> HIDE DEF t, m
<1>7. /\ AsRead(F, t) \in Seq(X) /\ Len(AsRead(F, t)) = t.cnt
      /\ \A i \in 1..t.cnt : AsRead(F, t)[i] = F[Contents(t)[i]]
  <2>1. t \in Rings(Event) /\ RingOK(t)
    BY <1>1
  <2> QED
    BY <2>1, AsReadSeq
<1>8. <<m>> \o AsRead(F, t) = AsRead(F, r)
  <2>1. <<m>> \in Seq(X) /\ Len(<<m>>) = 1 /\ <<m>>[1] = m
    BY <1>4
  <2>2. /\ <<m>> \o AsRead(F, t) \in Seq(X)
        /\ Len(<<m>> \o AsRead(F, t)) = r.cnt
        /\ \A i \in 1..r.cnt : (<<m>> \o AsRead(F, t))[i] =
                                  IF i <= 1 THEN <<m>>[i] ELSE AsRead(F, t)[i - 1]
    <3>1. 1 + (r.cnt - 1) = r.cnt
      BY <1>5
    <3>2. /\ <<m>> \o AsRead(F, t) \in Seq(X)
          /\ Len(<<m>> \o AsRead(F, t)) = Len(<<m>>) + Len(AsRead(F, t))
          /\ \A i \in 1..(Len(<<m>>) + Len(AsRead(F, t))) : (<<m>> \o AsRead(F, t))[i] =
                        IF i <= Len(<<m>>) THEN <<m>>[i] ELSE AsRead(F, t)[i - Len(<<m>>)]
      BY <2>1, <1>7, ConcatProperties, Zenon
    <3>3. Len(<<m>>) + Len(AsRead(F, t)) = r.cnt /\ Len(<<m>>) = 1
      BY <1>1, <1>7, <2>1, <3>1
    <3> QED
      BY <3>2, <3>3
  <2>3. ASSUME NEW i \in 1..r.cnt
        PROVE  (<<m>> \o AsRead(F, t))[i] = AsRead(F, r)[i]
    <3>1. CASE i = 1
      BY <1>6, <2>1, <2>2, <3>1
    <3>2. CASE i # 1
      <4>1. i - 1 \in 1..(r.cnt - 1) /\ (i - 1) + 1 = i
        BY <1>5, <3>2
      <4>2. AsRead(F, t)[i - 1] = F[Contents(r)[i]]
        BY <1>1, <1>3, <1>7, <4>1
      <4>3. ~(i <= 1)
        BY <1>5, <3>2
      <4> QED
        BY <1>5, <2>2, <4>2, <4>3
    <3> QED
      BY <3>1, <3>2
  <2> QED
    BY <1>5, <2>2, <2>3, SeqEqual
<1>9. Append(s, m) = s \o <<m>>
  BY <1>4, AppendIsConcat
<1>10. (s \o <<m>>) \o AsRead(F, t) = s \o (<<m>> \o AsRead(F, t))
  <2>1. <<m>> \in Seq(X)
    BY <1>4
  <2> QED
    BY <1>7, <2>1, ConcatAssociative
<1>11. Append(s, m) \o AsRead(F, t) = s \o AsRead(F, r)
  BY <1>8, <1>9, <1>10
<1> QED
  BY <1>4, <1>11 DEF t, m

\* Events that are taken or wait are those of t with some left out; one more
\* is pushed, which a full queue leaves out.
LEMMA PushAsRead ==
  ASSUME NEW Event, NEW X, NEW F \in Readings(Event, X),
         NEW r \in Rings(Event), RingOK(r), NEW e \in Event,
         NEW s \in Seq(X), NEW t \in Seq(X), SubsequenceOf(s \o AsRead(F, r), t)
  PROVE  SubsequenceOf(s \o AsRead(F, qpush(r, e)), Append(t, F[e]))
<1> DEFINE told == AsRead(F, r)
           known == s \o told
           x == F[e]
<1>1. x \in X /\ told \in Seq(X)
  BY AsReadSeq DEF Readings
<1>2. AsRead(F, qpush(r, e)) = told \/ AsRead(F, qpush(r, e)) = Append(told, x)
  BY AsReadPush
<1>3. SubsequenceOf(known, t)
  OBVIOUS
<1> HIDE DEF told, x
<1>4. known \in Seq(X)
  BY <1>1, ConcatProperties
<1>5. s \o Append(told, x) = Append(known, x)
  <2>1. <<x>> \in Seq(X)
    BY <1>1
  <2>2. Append(told, x) = told \o <<x>>
    BY <1>1, AppendIsConcat
  <2>3. Append(known, x) = known \o <<x>>
    BY <1>1, <1>4, AppendIsConcat
  <2>4. (s \o told) \o <<x>> = s \o (told \o <<x>>)
    BY <1>1, <2>1, ConcatAssociative
  <2> QED
    BY <2>2, <2>3, <2>4
<1> HIDE DEF known
<1>6. SubsequenceOf(known, Append(t, x)) /\ SubsequenceOf(Append(known, x), Append(t, x))
  BY <1>1, <1>3, <1>4, LeaveOut, KeepLast
<1> QED
  BY <1>2, <1>5, <1>6 DEF known, x

----------------------------------------------------------------------------
(* Folds by prefixes. *)

\* Induction along the indices of a sequence.
LEMMA UpTo ==
  ASSUME NEW n \in Nat, NEW P, 0 \in P, \A k \in 1..n : k - 1 \in P => k \in P
  PROVE  \A k \in 0..n : k \in P
<1> DEFINE Bad == (0..n) \ P
<1> SUFFICES ASSUME Bad # {} PROVE FALSE
  OBVIOUS
<1>1. Bad \subseteq Nat
  OBVIOUS
<1>2. PICK k \in Bad : \A j \in Bad : <<j, k>> \notin OpToRel(<, Nat)
  <2> HIDE DEF Bad
  <2> QED
    BY <1>1, NatLessThanWellFounded, WFMin
<1>3. k \in 1..n /\ k - 1 \in 0..n
  OBVIOUS
<1>4. <<k - 1, k>> \in OpToRel(<, Nat)
  BY <1>3 DEF OpToRel
<1> QED
  BY <1>2, <1>3, <1>4

\* A finite set of numbers has the maximum that Max chooses.
LEMMA MaxOK ==
  ASSUME NEW n \in Nat, NEW S \in SUBSET (1..n), S # {}
  PROVE  Max(S) \in S /\ \A y \in S : y <= Max(S)
<1> DEFINE P == {k \in 0..n : \A T \in SUBSET (1..k) : T # {} => \E x \in T : \A y \in T : x >= y}
<1>1. 0 \in P
  <2>1. \A T \in SUBSET (1..0) : T = {}
    OBVIOUS
  <2>2. 0 \in 0..n
    OBVIOUS
  <2> QED
    BY <2>1, <2>2
<1>2. ASSUME NEW k \in 1..n, k - 1 \in P PROVE k \in P
  <2>1. ASSUME NEW T \in SUBSET (1..k), T # {} PROVE \E x \in T : \A y \in T : x >= y
    <3>1. CASE k \in T
      BY <2>1, <3>1
    <3>2. CASE k \notin T
      <4>1. T \in SUBSET (1..(k - 1))
        BY <2>1, <3>2
      <4> QED
        BY <1>2, <2>1, <4>1
    <3> QED
      BY <3>1, <3>2
  <2> QED
    BY <2>1
<1>3. n \in P
  <2> HIDE DEF P
  <2>1. \A k \in 0..n : k \in P
    BY <1>1, <1>2, UpTo
  <2> QED
    BY <2>1
<1>4. \E x \in S : \A y \in S : x >= y
  BY <1>3
<1>5. Max(S) \in S /\ \A y \in S : Max(S) >= y
  BY <1>4 DEF Max
<1> QED
  BY <1>5

\* A nonempty set of numbers has the minimum that Min chooses.
LEMMA MinOK ==
  ASSUME NEW n \in Nat, NEW S \in SUBSET (1..n), S # {}
  PROVE  Min(S) \in S /\ \A y \in S : Min(S) <= y
<1>1. S \in SUBSET Nat
  OBVIOUS
<1>2. PICK x \in S : \A y \in S : <<y, x>> \notin OpToRel(<, Nat)
  BY <1>1, NatLessThanWellFounded, WFMin
<1>3. \A y \in S : x <= y
  <2>1. ASSUME NEW y \in S, ~(x <= y) PROVE <<y, x>> \in OpToRel(<, Nat)
    <3>1. x \in Nat /\ y \in Nat /\ y < x
      BY <1>1, <2>1
    <3> QED
      BY <3>1 DEF OpToRel
  <2> QED
    BY <1>2, <2>1
<1> QED
  BY <1>3 DEF Min

\* The maximum of the first k numbers, and what is left without it.
LEMMA MaxOfAll ==
  ASSUME NEW k \in Nat \ {0}
  PROVE  Max(1..k) = k /\ (1..k) \ {k} = 1..(k - 1)
<1>1. Max(1..k) \in 1..k /\ \A y \in 1..k : y <= Max(1..k)
  <2>1. 1..k # {} /\ 1..k \in SUBSET (1..k)
    OBVIOUS
  <2> QED
    BY <2>1, MaxOK
<1> QED
  BY <1>1

\* it is the function by which the fold of step F over 1..n is defined.
Folds(it, X, base, n, F) ==
  /\ it \in [SUBSET (1..n) -> X]
  /\ \A S \in SUBSET (1..n) :
       it[S] = IF S = {} THEN base ELSE F[it[S \ {Max(S)}]][Max(S)]

\* The function by which a fold is defined exists for every step function.
LEMMA FoldExists ==
  ASSUME NEW X, NEW base \in X, NEW n \in Nat, NEW F \in [X -> [1..n -> X]]
  PROVE  \E it : Folds(it, X, base, n, F)
<1> DEFINE Iter(k, it) ==
             /\ it \in [SUBSET (1..k) -> X]
             /\ \A S \in SUBSET (1..k) :
                  it[S] = IF S = {} THEN base ELSE F[it[S \ {Max(S)}]][Max(S)]
           P == {k \in 0..n : \E it : Iter(k, it)}
<1>1. 0 \in P
  <2> DEFINE it == [S \in SUBSET (1..0) |-> base]
  <2>1. Iter(0, it)
    <3>1. \A S \in SUBSET (1..0) : S = {}
      OBVIOUS
    <3> QED
      BY <3>1
  <2> HIDE DEF Iter, it
  <2> QED
    BY <2>1
<1>2. ASSUME NEW k \in 1..n, k - 1 \in P PROVE k \in P
  <2>1. PICK old : Iter(k - 1, old)
    BY <1>2
  <2> DEFINE it == [S \in SUBSET (1..k) |->
                      IF k \in S THEN F[old[S \ {k}]][k] ELSE old[S]]
  <2>2. \A S \in SUBSET (1..k) : S \ {k} \in SUBSET (1..(k - 1))
    OBVIOUS
  <2>3. \A S \in SUBSET (1..k) : k \notin S => S \in SUBSET (1..(k - 1))
    <3>1. (1..k) \ {k} = 1..(k - 1)
      <4>1. k \in Nat \ {0}
        OBVIOUS
      <4> QED
        BY <4>1, MaxOfAll
    <3> QED
      BY <3>1
  <2>4. \A S \in SUBSET (1..(k - 1)) : old[S] \in X
    BY <2>1
  <2>5. it \in [SUBSET (1..k) -> X]
    <3>1. ASSUME NEW S \in SUBSET (1..k), k \in S PROVE F[old[S \ {k}]][k] \in X
      <4>1. old[S \ {k}] \in X
        BY <2>2, <2>4
      <4> QED
        BY <4>1
    <3> QED
      BY <2>3, <2>4, <3>1
  <2>6. \A S \in SUBSET (1..(k - 1)) : it[S] = old[S]
    <3> SUFFICES ASSUME NEW S \in SUBSET (1..(k - 1)) PROVE it[S] = old[S]
      OBVIOUS
    <3>1. S \in SUBSET (1..k) /\ k \notin S
      OBVIOUS
    <3> QED
      BY <3>1
  <2>7. ASSUME NEW S \in SUBSET (1..k)
        PROVE  it[S] = IF S = {} THEN base ELSE F[it[S \ {Max(S)}]][Max(S)]
    <3>1. CASE k \in S
      <4>1. Max(S) = k
        <5>1. k \in Nat /\ S # {}
          BY <3>1
        <5>2. Max(S) \in S /\ \A y \in S : y <= Max(S)
          BY <5>1, MaxOK
        <5>3. Max(S) \in 1..k /\ k <= Max(S)
          BY <3>1, <5>2
        <5> QED
          BY <5>3
      <4>2. it[S \ {k}] = old[S \ {k}]
        BY <2>2, <2>6
      <4>3. it[S] = F[old[S \ {k}]][k]
        BY <3>1
      <4> QED
        BY <3>1, <4>1, <4>2, <4>3
    <3>2. CASE k \notin S
      <4>1. S \in SUBSET (1..(k - 1))
        BY <2>3, <3>2
      <4>2. S \ {Max(S)} \in SUBSET (1..(k - 1))
        BY <4>1
      <4>3. it[S] = old[S] /\ it[S \ {Max(S)}] = old[S \ {Max(S)}]
        BY <2>6, <4>1, <4>2
      <4>4. old[S] = IF S = {} THEN base ELSE F[old[S \ {Max(S)}]][Max(S)]
        BY <2>1, <4>1
      <4> HIDE DEF it
      <4> QED
        BY <4>3, <4>4
    <3> QED
      BY <3>1, <3>2
  <2>8. Iter(k, it)
    <3> HIDE DEF it
    <3> QED
      BY <2>5, <2>7
  <2> HIDE DEF Iter, it
  <2> QED
    BY <2>8
<1>3. n \in P
  <2> HIDE DEF P
  <2>1. \A k \in 0..n : k \in P
    BY <1>1, <1>2, UpTo
  <2> QED
    BY <2>1
<1> QED
  BY <1>3 DEF Folds

----------------------------------------------------------------------------
(* What the queue makes of a burst of events. *)

\* What is left of a queue after a burst of events.
Burst(r, es) == FoldLeft(qpush, r, es)

\* A burst pushes the events of es one after the other.
LEMMA PushFold ==
  ASSUME NEW Event, NEW r \in Rings(Event), RingOK(r), NEW es \in Seq(Event)
  PROVE  \E h : /\ h[0] = r /\ Burst(r, es) = h[Len(es)]
                /\ \A k \in 1..Len(es) : h[k] = qpush(h[k - 1], es[k])
<1>1. PICK n \in Nat : n = Len(es) /\ DOMAIN es = 1..n
  OBVIOUS
<1> DEFINE D == SUBSET (1..n)
           X == {x \in Rings(Event) : RingOK(x)}
           F == [x \in X |-> [i \in 1..n |-> qpush(x, es[i])]]
           Eq(g) == g = [S \in SUBSET DOMAIN es |->
                       IF S = {} THEN r ELSE qpush(g[S \ {Max(S)}], es[Max(S)])]
           it == CHOOSE g : Eq(g)
<1>2. F \in [X -> [1..n -> X]]
  <2>1. ASSUME NEW x \in X, NEW i \in 1..n PROVE qpush(x, es[i]) \in X
    BY <1>1, PushOK
  <2> HIDE DEF X
  <2> QED
    BY <2>1
<1>3. \E g : Eq(g)
  <2>0. r \in X
    OBVIOUS
  <2> HIDE DEF F, X
  <2>1. PICK g : Folds(g, X, r, n, F)
    BY <1>2, <2>0, FoldExists
  <2>2. ASSUME NEW S \in D, S # {}
        PROVE  F[g[S \ {Max(S)}]][Max(S)] = qpush(g[S \ {Max(S)}], es[Max(S)])
    <3>1. Max(S) \in 1..n
      BY <2>2, MaxOK
    <3>2. g[S \ {Max(S)}] \in X
      BY <2>1 DEF Folds
    <3> QED
      BY <3>1, <3>2 DEF F
  <2>3. \A S \in D : g[S] = IF S = {} THEN r ELSE qpush(g[S \ {Max(S)}], es[Max(S)])
    BY <2>1, <2>2 DEF Folds
  <2>4. Eq(g)
    BY <1>1, <2>1, <2>3 DEF Folds
  <2> HIDE DEF Eq
  <2> QED
    BY <2>4
<1>4. Eq(it)
  <2> HIDE DEF Eq
  <2> QED
    BY <1>3
<1>5. Burst(r, es) = it[1..n]
  <2>1. Burst(r, es) = it[DOMAIN es]
    BY DEF Burst, FoldLeft, MapThenFoldSet
  <2> HIDE DEF it
  <2> QED
    BY <1>1, <2>1
<1> HIDE DEF it
<1> DEFINE h == [k \in 0..n |-> it[1..k]]
<1>6. h[0] = r /\ h[n] = it[1..n]
  <2>1. 1..0 = {} /\ 1..0 \in SUBSET (1..n)
    OBVIOUS
  <2>2. it[1..0] = r
    BY <1>1, <1>4, <2>1
  <2> QED
    BY <2>2
<1>7. ASSUME NEW k \in 1..n PROVE h[k] = qpush(h[k - 1], es[k])
  <2>0. k \in Nat \ {0}
    OBVIOUS
  <2>1. 1..k # {} /\ 1..k \in SUBSET (1..n)
    <3>1. 1 \in 1..k /\ \A i \in 1..k : i \in 1..n
      OBVIOUS
    <3> QED
      BY <3>1
  <2>2. Max(1..k) = k /\ (1..k) \ {k} = 1..(k - 1)
    BY <2>0, MaxOfAll
  <2>3. it[1..k] = qpush(it[(1..k) \ {Max(1..k)}], es[Max(1..k)])
    BY <1>1, <1>4, <2>1
  <2>4. h[k] = it[1..k] /\ h[k - 1] = it[1..(k - 1)]
    OBVIOUS
  <2> HIDE DEF h
  <2> QED
    BY <2>2, <2>3, <2>4
<1> HIDE DEF h
<1> QED
  BY <1>1, <1>5, <1>6, <1>7

\* A burst keeps what was queued and appends its own events as long as they fit.
LEMMA BurstIsCut ==
  ASSUME NEW Event, NEW r \in Rings(Event), RingOK(r), NEW es \in Seq(Event),
         NEW R, R = Burst(r, es)
  PROVE  /\ R \in Rings(Event) /\ RingOK(R) /\ R.qsz = r.qsz
         /\ R.cnt = Min2(r.cnt + Len(es), r.qsz)
         /\ \A i \in 1..R.cnt :
              Contents(R)[i] = IF i <= r.cnt THEN Contents(r)[i] ELSE es[i - r.cnt]
<1>1. PICK n \in Nat, c \in Nat, q \in Nat : n = Len(es) /\ c = r.cnt /\ q = r.qsz /\ c <= q
  BY RingFields
<1>h. PICK h : /\ h[0] = r /\ Burst(r, es) = h[Len(es)]
               /\ \A k \in 1..Len(es) : h[k] = qpush(h[k - 1], es[k])
  BY PushFold
<1>2. /\ h[0] = r /\ R = h[n]
      /\ \A k \in 1..n : h[k] = qpush(h[k - 1], es[k])
  BY <1>1, <1>h
<1> DEFINE Fine(x, k) ==
             /\ x \in Rings(Event) /\ RingOK(x) /\ x.qsz = q
             /\ x.cnt = Min2(c + k, q)
             /\ \A i \in 1..Min2(c + k, q) :
                  Contents(x)[i] = IF i <= c THEN Contents(r)[i] ELSE es[i - c]
           P == {k \in 0..n : Fine(h[k], k)}
<1>3. 0 \in P
  <2>1. Min2(c + 0, q) = c
    BY <1>1 DEF Min2
  <2>2. Fine(r, 0)
    BY <1>1, <2>1
  <2> HIDE DEF Fine
  <2> QED
    BY <1>2, <2>2
<1>4. ASSUME NEW k \in 1..n, k - 1 \in P PROVE k \in P
  <2>1. PICK x : x = h[k - 1] /\ Fine(x, k - 1)
    BY <1>4
  <2>2. h[k] = qpush(x, es[k]) /\ es[k] \in Event
    BY <1>1, <1>2, <2>1
  <2>3. PICK d \in Nat : d = x.cnt /\ d = Min2(c + (k - 1), q)
    BY <1>1, <2>1 DEF Min2
  <2>4. Contents(x) \in Seq(Event) /\ Len(Contents(x)) = d
    BY <2>1, <2>3, ContentsSeq
  <2>5. CASE d = q
    <3>1. qpush(x, es[k]) = x
      BY <2>1, <2>2, <2>3, <2>5, PushFull
    <3>2. Min2(c + k, q) = q /\ Min2(c + (k - 1), q) = q
      BY <1>1, <2>3, <2>5 DEF Min2
    <3>3. Fine(x, k)
      BY <2>1, <3>2
    <3> HIDE DEF Fine
    <3> QED
      BY <2>2, <3>1, <3>3
  <2>6. CASE d # q
    <3>1. d < q /\ d = c + (k - 1) /\ Min2(c + k, q) = d + 1 /\ Min2(c + (k - 1), q) = d
      <4>1. k \in Nat /\ c + (k - 1) \in Int
        OBVIOUS
      <4>2. d = c + (k - 1) /\ d < q
        BY <1>1, <2>3, <2>6, <4>1 DEF Min2
      <4>3. Min2(c + k, q) = d + 1
        BY <1>1, <4>1, <4>2 DEF Min2
      <4> QED
        BY <2>3, <4>2, <4>3
    <3> DEFINE y == qpush(x, es[k])
    <3>2. /\ y \in Rings(Event) /\ RingOK(y) /\ y.qsz = q /\ y.cnt = d + 1
          /\ Contents(y) = Append(Contents(x), es[k])
      <4>1. /\ x \in Rings(Event) /\ RingOK(x) /\ x.qsz = q /\ x.cnt = d /\ x.cnt < x.qsz
            /\ es[k] \in Event
        BY <2>1, <2>2, <2>3, <3>1
      <4> QED
        BY <4>1, PushRoom
    <3> HIDE DEF y
    <3>3. ASSUME NEW i \in 1..(d + 1)
          PROVE  Contents(y)[i] = IF i <= c THEN Contents(r)[i] ELSE es[i - c]
      <4>1. CASE i = d + 1
        <5>1. Contents(y)[i] = es[k]
          BY <2>2, <2>4, <3>2, <4>1
        <5>2. ~(i <= c) /\ i - c = k
          BY <3>1, <4>1
        <5> QED
          BY <5>1, <5>2
      <4>2. CASE i # d + 1
        <5>1. i \in 1..d
          BY <4>2
        <5>2. Contents(y)[i] = Contents(x)[i]
          BY <2>2, <2>4, <3>2, <5>1
        <5> QED
          BY <2>1, <3>1, <5>1, <5>2
      <4> QED
        BY <4>1, <4>2
    <3>4. Fine(y, k)
      BY <3>1, <3>2, <3>3
    <3> HIDE DEF Fine
    <3> QED
      BY <2>2, <3>4 DEF y
  <2> QED
    BY <2>5, <2>6
<1>5. n \in P
  <2> HIDE DEF P
  <2>1. \A k \in 0..n : k \in P
    BY <1>3, <1>4, UpTo
  <2> QED
    BY <2>1
<1> QED
  BY <1>1, <1>2, <1>5

\* A burst of one is one push.
LEMMA OneEvent ==
  ASSUME NEW Event, NEW r \in Rings(Event), RingOK(r), NEW e \in Event
  PROVE  Burst(r, <<e>>) = qpush(r, e)
<1> DEFINE es == <<e>>
<1>1. es \in Seq(Event) /\ Len(es) = 1 /\ es[1] = e
  OBVIOUS
<1> HIDE DEF es
<1>2. PICK h : /\ h[0] = r /\ Burst(r, es) = h[Len(es)]
               /\ \A k \in 1..Len(es) : h[k] = qpush(h[k - 1], es[k])
  BY <1>1, PushFold
<1>3. 1 \in 1..1 /\ 1 - 1 = 0
  OBVIOUS
<1>4. h[1] = qpush(h[0], es[1])
  <2>1. h[1] = qpush(h[1 - 1], es[1])
    BY <1>1, <1>2
  <2> QED
    BY <1>3, <2>1, Zenon
<1>5. Burst(r, es) = qpush(r, e)
  BY <1>1, <1>2, <1>4
<1> QED
  BY <1>5 DEF es

----------------------------------------------------------------------------
(* The counters. *)

LEMMA ModWord ==
  ASSUME NEW a \in Nat
  PROVE  /\ a % U32 \in Word
         /\ a < U32 => a % U32 = a
  BY WordAssumption DEF Word

LEMMA ZeroStatsOK == ZeroStats \in Counters
  BY WordAssumption DEF ZeroStats, Counters, Word

LEMMA CountReplyOK ==
  ASSUME NEW s \in Counters, NEW lat \in Word
  PROVE  /\ CountReply(s, lat) \in Counters
         /\ s.replies + 1 < U32 => CountReply(s, lat).replies = s.replies + 1
         /\ s.count_lat + 1 < U32 => CountReply(s, lat).count_lat = s.count_lat + 1
         /\ s.sum_lat + lat < U32 => CountReply(s, lat).sum_lat = s.sum_lat + lat
         /\ CountReply(s, lat).timeouts = s.timeouts
         /\ CountReply(s, lat).dups = s.dups
<1>1. /\ s.replies \in Nat /\ s.count_lat \in Nat /\ s.sum_lat \in Nat /\ lat \in Nat
      /\ s.timeouts \in Word /\ s.dups \in Word /\ s.max_lat \in Word /\ s.min_lat \in Word
  BY WordAssumption DEF Counters, Word
<1>2. /\ s.replies + 1 \in Nat /\ s.count_lat + 1 \in Nat /\ s.sum_lat + lat \in Nat
  BY <1>1
<1>3. /\ (s.replies + 1) % U32 \in Word
      /\ (s.count_lat + 1) % U32 \in Word
      /\ (s.sum_lat + lat) % U32 \in Word
      /\ s.replies + 1 < U32 => (s.replies + 1) % U32 = s.replies + 1
      /\ s.count_lat + 1 < U32 => (s.count_lat + 1) % U32 = s.count_lat + 1
      /\ s.sum_lat + lat < U32 => (s.sum_lat + lat) % U32 = s.sum_lat + lat
  BY <1>2, ModWord
<1> QED
  BY <1>1, <1>3 DEF CountReply, Counters

LEMMA CountTimeoutOK ==
  ASSUME NEW s \in Counters
  PROVE  /\ CountTimeout(s) \in Counters
         /\ s.timeouts + 1 < U32 => CountTimeout(s).timeouts = s.timeouts + 1
         /\ CountTimeout(s).replies = s.replies
         /\ CountTimeout(s).dups = s.dups
         /\ CountTimeout(s).sum_lat = s.sum_lat
         /\ CountTimeout(s).count_lat = s.count_lat
<1>1. s.timeouts + 1 \in Nat
  BY WordAssumption DEF Counters, Word
<1>2. /\ (s.timeouts + 1) % U32 \in Word
      /\ s.timeouts + 1 < U32 => (s.timeouts + 1) % U32 = s.timeouts + 1
  BY <1>1, ModWord
<1> QED
  BY <1>2 DEF CountTimeout, Counters

LEMMA LatencyOK ==
  ASSUME NEW send_ts \in Nat, NEW ts \in Nat
  PROVE  /\ Latency(send_ts, ts) \in Word
         /\ send_ts = 0 => Latency(send_ts, ts) = UntimedLatency
<1>1. CASE send_ts = 0 \/ ts = 0
  BY <1>1, WordAssumption DEF Latency, Word, UntimedLatency
<1>2. CASE send_ts # 0 /\ ts # 0 /\ ts > send_ts
  <2>1. ts - send_ts \in Nat
    BY <1>2
  <2> QED
    BY <1>2, <2>1, ModWord DEF Latency
<1>3. CASE send_ts # 0 /\ ts # 0 /\ ~(ts > send_ts)
  BY <1>3, WordAssumption DEF Latency, Word
<1> QED
  BY <1>1, <1>2, <1>3

\* Loss is a percentage as long as 100 times the answers fits the word.
THEOREM LossPctRange ==
  ASSUME NEW s \in Counters, 100 * (s.replies + s.timeouts) < U32
  PROVE  LossPct(s) \in 0..100
<1>1. PICK r \in Nat, t \in Nat : r = s.replies /\ t = s.timeouts
  BY WordAssumption DEF Counters, Word
<1>2. /\ r + t \in Nat /\ r + t < U32
      /\ t * 100 \in Nat /\ t * 100 < U32
  BY <1>1, WordAssumption
<1>3. (r + t) % U32 = r + t /\ (t * 100) % U32 = t * 100
  BY <1>2, ModWord
<1>4. CASE r + t = 0
  BY <1>1, <1>3, <1>4 DEF LossPct
<1>5. CASE r + t # 0
  <2>1. (t * 100) \div (r + t) \in 0..100
    <3>1. PICK n \in Nat : n = r + t /\ n > 0 /\ t <= n
      BY <1>5
    <3>2. PICK d \in Int : d = (t * 100) \div n
      BY <3>1
    <3>3. PICK m \in 0..(n - 1) : m = (t * 100) % n
      BY <3>1
    <3>4. t * 100 = n * d + m
      BY <3>1, <3>2, <3>3
    <3>5. d >= 0
      BY <3>1, <3>2
    <3>6. ASSUME d >= 101 PROVE FALSE
      <4>1. n * d >= n * 101
        BY <3>1, <3>6
      <4>2. n * 101 >= t * 101
        BY <3>1
      <4>3. n * d <= t * 100
        BY <3>3, <3>4
      <4>4. t * 101 <= t * 100
        BY <4>1, <4>2, <4>3
      <4>5. t = 0
        BY <4>4
      <4> QED
        BY <3>1, <4>1, <4>3, <4>5
    <3>7. (t * 100) \div (r + t) = d
      BY <3>1, <3>2
    <3> QED
      BY <3>5, <3>6, <3>7
  <2> QED
    BY <1>1, <1>3, <1>5, <2>1 DEF LossPct
<1> QED
  BY <1>4, <1>5
=============================================================================
