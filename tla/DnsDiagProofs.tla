--------------------------- MODULE DnsDiagProofs ---------------------------
(***************************************************************************)
(* The safety properties of DnsDiag for every queue size, clock bound and  *)
(* set of messages.                                                        *)
(*                                                                         *)
(* Inv is inductive.  The counters are words, and they are those of the    *)
(* wire only because a context counts no more than it is fed; that bound   *)
(* comes from Books itself, as the messages counted are some of those fed. *)
(* InOrder is EventsFollowTheWire over what the queue tells; a message is  *)
(* told, or left out of the wire's outcomes.                               *)
(***************************************************************************)
EXTENDS DnsDiag, ContextProofs, FiniteSetTheorems

Failed(f) == {i \in 1..Len(f) : f[i].rcode # 0}
Answered(f) == {i \in 1..Len(f) : f[i].rcode = 0 /\ f[i].qr}

\* BooksMatchTheWire.
Books ==
  /\ role = REQUESTER =>
       /\ stats.timeouts = Cardinality(Failed(fed))
       /\ stats.replies = Cardinality(Answered(fed))
  /\ role = RESPONDER => stats = ZeroStats /\ ring.cnt = 0

\* EventsFollowTheWire.
Telling == [e \in Event |-> Tells(e)]
Outcomes(f) == [i \in 1..Len(f) |-> Outcome(f[i])]

InOrder == SubsequenceOf(taken \o AsRead(Telling, ring), Outcomes(fed))

Inv == TypeOK /\ Books /\ InOrder

LEMMA EventTypes ==
  /\ ZeroEvent \in Event
  /\ \A seq \in Id \cup {0}, c \in Rcode : FaultEvent(seq, c) \in Event
  /\ \A seq \in Id \cup {0}, lat \in Word : ReplyEvent(seq, lat) \in Event
  BY WordAssumption DEF Event, ZeroEvent, FaultEvent, ReplyEvent, Word

\* What is counted is a finite part of what was fed.
LEMMA CountsAreFed ==
  ASSUME NEW f \in Seq(Message)
  PROVE  /\ IsFiniteSet(Failed(f)) /\ IsFiniteSet(Answered(f))
         /\ Cardinality(Failed(f)) \in Nat /\ Cardinality(Failed(f)) <= Len(f)
         /\ Cardinality(Answered(f)) \in Nat /\ Cardinality(Answered(f)) <= Len(f)
<1>1. Len(f) \in Nat
  OBVIOUS
<1>2. IsFiniteSet(1..Len(f)) /\ Cardinality(1..Len(f)) = Len(f)
  BY <1>1, FS_Interval
<1>3. Failed(f) \subseteq 1..Len(f) /\ Answered(f) \subseteq 1..Len(f)
  BY DEF Failed, Answered
<1> QED
  BY <1>2, <1>3, FS_Subset, FS_CardinalityType

\* One message more is counted once, in the one place it belongs to.
LEMMA AppendCounts ==
  ASSUME NEW f \in Seq(Message), NEW m \in Message
  PROVE  /\ Cardinality(Failed(Append(f, m))) =
              Cardinality(Failed(f)) + (IF m.rcode # 0 THEN 1 ELSE 0)
         /\ Cardinality(Answered(Append(f, m))) =
              Cardinality(Answered(f)) + (IF m.rcode = 0 /\ m.qr THEN 1 ELSE 0)
<1> DEFINE g == Append(f, m)
<1>1. /\ Len(f) \in Nat /\ Len(g) = Len(f) + 1
      /\ \A i \in 1..Len(f) : g[i] = f[i]
      /\ g[Len(f) + 1] = m
  BY AppendProperties
<1>2. \A i : i \in 1..Len(g) <=> i \in 1..Len(f) \/ i = Len(f) + 1
  BY <1>1
<1> HIDE DEF g
<1>3. Len(f) + 1 \notin 1..Len(f)
  BY <1>1
<1>4. Failed(g) = IF m.rcode # 0 THEN Failed(f) \cup {Len(f) + 1} ELSE Failed(f)
  BY <1>1, <1>2 DEF Failed
<1>5. Answered(g) = IF m.rcode = 0 /\ m.qr
                    THEN Answered(f) \cup {Len(f) + 1} ELSE Answered(f)
  BY <1>1, <1>2 DEF Answered
<1>6. Len(f) + 1 \notin Failed(f) /\ Len(f) + 1 \notin Answered(f)
  BY <1>3 DEF Failed, Answered
<1>7. /\ IsFiniteSet(Failed(f)) /\ IsFiniteSet(Answered(f))
      /\ Cardinality(Failed(f)) \in Nat /\ Cardinality(Answered(f)) \in Nat
  BY CountsAreFed
<1>8. /\ Cardinality(Failed(f) \cup {Len(f) + 1}) = Cardinality(Failed(f)) + 1
      /\ Cardinality(Answered(f) \cup {Len(f) + 1}) = Cardinality(Answered(f)) + 1
  BY <1>6, <1>7, FS_AddElement
<1>9. Cardinality(Failed(g)) = Cardinality(Failed(f)) + (IF m.rcode # 0 THEN 1 ELSE 0)
  BY <1>4, <1>7, <1>8
<1>10. Cardinality(Answered(g)) =
         Cardinality(Answered(f)) + (IF m.rcode = 0 /\ m.qr THEN 1 ELSE 0)
  BY <1>5, <1>7, <1>8
<1> QED
  BY <1>9, <1>10 DEF g

LEMMA EmptyCounts == Cardinality(Failed(<<>>)) = 0 /\ Cardinality(Answered(<<>>)) = 0
<1>1. Failed(<<>>) = {} /\ Answered(<<>>) = {}
  BY DEF Failed, Answered
<1> QED
  BY <1>1, FS_EmptySet

\* The outcomes of messages, one by one.
LEMMA OutcomesAppend ==
  ASSUME NEW f \in Seq(Message), NEW m \in Message
  PROVE  /\ Outcomes(f) \in Seq(Report) /\ Outcome(m) \in Report
         /\ Outcomes(Append(f, m)) = Append(Outcomes(f), Outcome(m))
<1>1. \A x \in Message : Outcome(x) \in Report
  BY DEF Message, Outcome, Report
<1>2. PICK n \in Nat : n = Len(f)
  OBVIOUS
<1>3. ASSUME NEW g \in Seq(Message)
      PROVE  Outcomes(g) \in Seq(Report) /\ Len(Outcomes(g)) = Len(g)
  <2>1. \A i \in 1..Len(g) : g[i] \in Message
    BY ElementOfSeq
  <2>2. Outcomes(g) \in [1..Len(g) -> Report] /\ Len(g) \in Nat
    BY <1>1, <2>1 DEF Outcomes
  <2>3. Outcomes(g) \in Seq(Report)
    BY <2>2, SeqDef
  <2> QED
    BY <2>2, <2>3, LenProperties
<1> DEFINE g == Append(f, m)
<1>4. /\ g \in Seq(Message) /\ Len(g) = n + 1 /\ g[n + 1] = m
      /\ \A i \in 1..n : g[i] = f[i]
  BY <1>2, AppendProperties
<1> HIDE DEF g
<1> DEFINE h == Append(Outcomes(f), Outcome(m))
<1>5. /\ h \in Seq(Report) /\ Len(h) = n + 1 /\ h[n + 1] = Outcome(m)
      /\ \A i \in 1..n : h[i] = Outcomes(f)[i]
  BY <1>1, <1>2, <1>3, AppendProperties
<1> HIDE DEF h
<1>6. ASSUME NEW i \in 1..(n + 1) PROVE Outcomes(g)[i] = h[i]
  <2>1. Outcomes(g)[i] = Outcome(g[i])
    BY <1>4 DEF Outcomes
  <2>2. CASE i = n + 1
    BY <1>4, <1>5, <2>1, <2>2
  <2>3. CASE i # n + 1
    <3>1. i \in 1..n
      BY <2>3
    <3>2. Outcomes(f)[i] = Outcome(f[i])
      BY <1>2, <3>1 DEF Outcomes
    <3> QED
      BY <1>4, <1>5, <2>1, <3>1, <3>2
  <2> QED
    BY <2>2, <2>3
<1>7. Outcomes(g) = h
  <2>1. Outcomes(g) \in Seq(Report) /\ Len(Outcomes(g)) = n + 1
    BY <1>3, <1>4
  <2> QED
    BY <1>5, <1>6, <2>1, SeqEqual
<1> QED
  BY <1>1, <1>3, <1>7 DEF g, h

LEMMA TellingReads ==
  /\ Telling \in Readings(Event, Report)
  /\ \A e \in Event : Telling[e] = Tells(e)
BY DEF Telling, Readings, Event, Tells, Report

\* A message that is told, and one that is not.
LEMMA ToldInOrder ==
  ASSUME TypeOK, InOrder, NEW msg \in Message, NEW e \in Event, Tells(e) = Outcome(msg),
         fed' = Append(fed, msg), ring' = qpush(ring, e), taken' = taken
  PROVE  InOrder'
<1>1. /\ ring \in Rings(Event) /\ RingOK(ring) /\ fed \in Seq(Message)
      /\ taken \in Seq(Report)
  BY DEF TypeOK
<1>2. /\ Outcomes(fed) \in Seq(Report)
      /\ Outcomes(fed') = Append(Outcomes(fed), Outcome(msg))
  BY <1>1, OutcomesAppend
<1>3. Telling \in Readings(Event, Report) /\ Telling[e] = Outcome(msg)
  BY TellingReads
<1>4. SubsequenceOf(taken \o AsRead(Telling, ring), Outcomes(fed))
  BY DEF InOrder
<1>5. SubsequenceOf(taken \o AsRead(Telling, qpush(ring, e)),
                    Append(Outcomes(fed), Telling[e]))
  BY <1>1, <1>2, <1>3, <1>4, PushAsRead
<1> QED
  BY <1>2, <1>3, <1>5 DEF InOrder, Telling

LEMMA UntoldInOrder ==
  ASSUME TypeOK, InOrder, NEW msg \in Message,
         fed' = Append(fed, msg), ring' = ring, taken' = taken
  PROVE  InOrder'
<1>1. /\ ring \in Rings(Event) /\ RingOK(ring) /\ fed \in Seq(Message)
      /\ taken \in Seq(Report)
  BY DEF TypeOK
<1>2. /\ Outcomes(fed) \in Seq(Report) /\ Outcome(msg) \in Report
      /\ Outcomes(fed') = Append(Outcomes(fed), Outcome(msg))
  BY <1>1, OutcomesAppend
<1>3. AsRead(Telling, ring) \in Seq(Report)
  BY <1>1, TellingReads, AsReadSeq
<1>4. taken \o AsRead(Telling, ring) \in Seq(Report)
  BY <1>1, <1>3, ConcatProperties
<1>5. SubsequenceOf(taken \o AsRead(Telling, ring), Outcomes(fed))
  BY DEF InOrder
<1>6. SubsequenceOf(taken \o AsRead(Telling, ring), Append(Outcomes(fed), Outcome(msg)))
  BY <1>2, <1>4, <1>5, LeaveOut
<1> QED
  BY <1>2, <1>6 DEF InOrder, Telling

\* What a step that leaves the queue and the histories alone keeps.
LEMMA OrderStays ==
  ASSUME InOrder, UNCHANGED <<ring, fed, taken>>
  PROVE  InOrder'
BY DEF InOrder, Telling, Outcomes, AsRead

\* An empty queue, and nothing fed.
LEMMA EmptyInOrder ==
  ASSUME NEW r, r.cnt = 0
  PROVE  SubsequenceOf(<<>> \o AsRead(Telling, r), Outcomes(<<>>))
<1>1. 1..r.cnt = {} /\ 1..Len(<<>>) = {}
  OBVIOUS
<1>2. AsRead(Telling, r) = <<>> /\ Outcomes(<<>>) = <<>>
  BY <1>1 DEF AsRead, Outcomes
<1>3. <<>> \o <<>> = <<>>
  OBVIOUS
<1> QED
  BY <1>2, <1>3, NothingOfNothing

\* A message leaves its time and its place in the history.
LEMMA FeedTypes ==
  ASSUME TypeOK, NEW msg \in Message, NEW ts \in 0..now, Feed(msg, ts)
  PROVE  /\ send_ts' \in 0..MaxNow
         /\ fed' \in Seq(Message) /\ Len(fed') <= MaxCount /\ Len(fed') = Len(fed) + 1
         /\ fed' = Append(fed, msg) /\ fed' # <<>>
         /\ Len(fed) \in Nat /\ Len(fed) < MaxCount
         /\ role' = role /\ now' = now /\ ev' = ev /\ taken' = taken
<1>1. ts \in 0..MaxNow /\ send_ts \in 0..MaxNow
  BY DnsDiagAssumption DEF TypeOK
<1>2. /\ fed \in Seq(Message) /\ Len(fed) < MaxCount /\ fed' = Append(fed, msg)
      /\ send_ts' = Stamp(ts) /\ role' = role /\ now' = now /\ ev' = ev
      /\ taken' = taken
  BY DEF TypeOK, Feed
<1>3. Len(fed) \in Nat /\ Len(fed') = Len(fed) + 1 /\ fed' \in Seq(Message)
  BY <1>2, AppendProperties
<1>4. fed' # <<>>
  BY <1>3
<1> QED
  BY <1>1, <1>2, <1>3, <1>4, DnsDiagAssumption DEF Stamp

\* The latency of a response, timed against its own stamp, is a word.
LEMMA OwnStamp ==
  ASSUME TypeOK, NEW ts \in 0..now
  PROVE  Latency(Stamp(ts), ts) \in Word
<1>1. ts \in Nat /\ send_ts \in Nat
  BY DEF TypeOK
<1>2. Stamp(ts) \in Nat
  BY <1>1 DEF Stamp
<1> QED
  BY <1>1, <1>2, LatencyOK

LEMMA InitInv == Init => Inv
<1> SUFFICES ASSUME Init PROVE Inv
  OBVIOUS
<1>1. PICK r \in Role, size \in QueueSizes : dnsdiag_create_with_config(r, size)
  BY DEF Init
<1>2. /\ role \in Role /\ ring = qinit(Allocated(ZeroEvent), size) /\ size \in Nat
      /\ last_seq = 0 /\ send_ts = 0 /\ waiting = FALSE /\ stats = ZeroStats
      /\ now = 0 /\ ev = ZeroEvent /\ fed = <<>> /\ taken = <<>>
  BY <1>1, DnsDiagAssumption DEF Init, dnsdiag_create_with_config
<1>3. ring \in Rings(Event) /\ RingOK(ring) /\ ring.cnt = 0
  BY <1>2, InitOK, AllocatedRaw, EventTypes
<1>4. TypeOK
  <2>1. send_ts \in 0..MaxNow /\ now \in 0..MaxNow
    BY <1>2, DnsDiagAssumption
  <2>2. last_seq \in Id \cup {0}
    BY <1>2
  <2>3. waiting \in BOOLEAN
    BY <1>2
  <2>4. fed \in Seq(Message) /\ Len(fed) <= MaxCount /\ taken \in Seq(Report)
    BY <1>2, DnsDiagAssumption
  <2> QED
    BY <1>2, <1>3, <2>1, <2>2, <2>3, <2>4, ZeroStatsOK, EventTypes DEF TypeOK
<1>5. Books
  BY <1>2, <1>3, EmptyCounts DEF Books, ZeroStats
<1>6. InOrder
  BY <1>2, <1>3, EmptyInOrder DEF InOrder
<1> QED
  BY <1>4, <1>5, <1>6 DEF Inv

\* While a message can be fed, one more of either count is a word.
LEMMA RoomToCount ==
  ASSUME Inv, role = REQUESTER, Len(fed) < MaxCount
  PROVE  /\ stats.timeouts \in Nat /\ stats.timeouts + 1 < U32
         /\ stats.replies \in Nat /\ stats.replies + 1 < U32
<1>1. stats.timeouts \in Nat /\ stats.replies \in Nat
  BY WordAssumption DEF Inv, TypeOK, Counters, Word
<1>2. Len(fed) \in Nat /\ fed \in Seq(Message)
  BY DEF Inv, TypeOK
<1>3. stats.timeouts <= Len(fed) /\ stats.replies <= Len(fed)
  BY <1>2, CountsAreFed DEF Inv, Books
<1> QED
  BY <1>1, <1>2, <1>3, DnsDiagAssumption, WordAssumption

LEMMA FaultStep ==
  ASSUME Inv, NEW msg \in Message, NEW ts \in 0..now, FeedFault(msg, ts)
  PROVE  Inv'
<1>1. /\ role = REQUESTER /\ msg.rcode # 0 /\ Feed(msg, ts)
      /\ ring' = qpush(ring, FaultEvent(last_seq, msg.rcode))
      /\ stats' = CountTimeout(stats) /\ waiting' = FALSE /\ last_seq' = last_seq
  BY DEF FeedFault
<1>2. /\ TypeOK /\ ring \in Rings(Event) /\ RingOK(ring) /\ stats \in Counters
      /\ fed \in Seq(Message) /\ last_seq \in Id \cup {0} /\ InOrder
  BY DEF Inv, TypeOK
<1>3. /\ send_ts' \in 0..MaxNow /\ fed' \in Seq(Message) /\ Len(fed') <= MaxCount
      /\ fed' = Append(fed, msg) /\ Len(fed) < MaxCount
      /\ role' = role /\ now' = now /\ ev' = ev /\ taken' = taken
  BY <1>1, <1>2, FeedTypes
<1>4. /\ FaultEvent(last_seq, msg.rcode) \in Event
      /\ Tells(FaultEvent(last_seq, msg.rcode)) = Outcome(msg)
  <2>1. FaultEvent(last_seq, msg.rcode) \in Event
    BY <1>2, EventTypes DEF Message
  <2> QED
    BY <1>1, <2>1 DEF Tells, FaultEvent, Outcome
<1>5. ring' \in Rings(Event) /\ RingOK(ring')
  BY <1>1, <1>2, <1>4, PushOK
<1>6. stats.timeouts + 1 < U32
  BY <1>1, <1>3, RoomToCount
<1>7. /\ stats' \in Counters /\ stats'.timeouts = stats.timeouts + 1
      /\ stats'.replies = stats.replies
  BY <1>1, <1>2, <1>6, CountTimeoutOK
<1>8. TypeOK'
  BY <1>1, <1>2, <1>3, <1>5, <1>7 DEF TypeOK
<1>9. Books'
  <2>1. /\ Cardinality(Failed(fed')) = Cardinality(Failed(fed)) + 1
        /\ Cardinality(Answered(fed')) = Cardinality(Answered(fed))
    <3>1. Cardinality(Answered(fed)) \in Nat
      BY <1>2, CountsAreFed
    <3> QED
      BY <1>1, <1>2, <1>3, <3>1, AppendCounts
  <2> QED
    BY <1>1, <1>3, <1>7, <2>1 DEF Inv, Books, Failed, Answered, REQUESTER, RESPONDER
<1>10. InOrder'
  BY <1>1, <1>2, <1>3, <1>4, ToldInOrder
<1> QED
  BY <1>8, <1>9, <1>10 DEF Inv

LEMMA ReplyStep ==
  ASSUME Inv, NEW msg \in Message, NEW ts \in 0..now, FeedReply(msg, ts)
  PROVE  Inv'
<1> DEFINE lat == Latency(Stamp(ts), ts)
<1>1. /\ role = REQUESTER /\ msg.rcode = 0 /\ msg.qr /\ Feed(msg, ts)
      /\ ring' = qpush(ring, ReplyEvent(last_seq, lat))
      /\ stats' = CountReply(stats, lat) /\ waiting' = FALSE /\ last_seq' = last_seq
  BY DEF FeedReply
<1>2. /\ TypeOK /\ ring \in Rings(Event) /\ RingOK(ring) /\ stats \in Counters
      /\ fed \in Seq(Message) /\ last_seq \in Id \cup {0} /\ InOrder
  BY DEF Inv, TypeOK
<1>3. /\ send_ts' \in 0..MaxNow /\ fed' \in Seq(Message) /\ Len(fed') <= MaxCount
      /\ fed' = Append(fed, msg) /\ Len(fed) < MaxCount
      /\ role' = role /\ now' = now /\ ev' = ev /\ taken' = taken
  BY <1>1, <1>2, FeedTypes
<1>4. lat \in Word
  BY <1>2, OwnStamp
<1> HIDE DEF lat
<1>5. ReplyEvent(last_seq, lat) \in Event /\ Tells(ReplyEvent(last_seq, lat)) = Outcome(msg)
  <2>1. ReplyEvent(last_seq, lat) \in Event
    BY <1>2, <1>4, EventTypes
  <2> QED
    BY <1>1, <2>1 DEF Tells, ReplyEvent, Outcome
<1>6. ring' \in Rings(Event) /\ RingOK(ring')
  BY <1>1, <1>2, <1>5, PushOK
<1>7. stats.replies + 1 < U32
  BY <1>1, <1>3, RoomToCount
<1>8. /\ stats' \in Counters /\ stats'.timeouts = stats.timeouts
      /\ stats'.replies = stats.replies + 1
  BY <1>1, <1>2, <1>4, <1>7, CountReplyOK
<1>9. TypeOK'
  BY <1>1, <1>2, <1>3, <1>6, <1>8 DEF TypeOK
<1>10. Books'
  <2>1. /\ Cardinality(Failed(fed')) = Cardinality(Failed(fed))
        /\ Cardinality(Answered(fed')) = Cardinality(Answered(fed)) + 1
    <3>1. Cardinality(Failed(fed)) \in Nat
      BY <1>2, CountsAreFed
    <3> QED
      BY <1>1, <1>2, <1>3, <3>1, AppendCounts
  <2> QED
    BY <1>1, <1>3, <1>8, <2>1 DEF Inv, Books, Failed, Answered, REQUESTER, RESPONDER
<1>11. InOrder'
  BY <1>1, <1>2, <1>3, <1>5, ToldInOrder
<1> QED
  BY <1>9, <1>10, <1>11 DEF Inv

LEMMA IgnoredStep ==
  ASSUME Inv, NEW msg \in Message, NEW ts \in 0..now, FeedIgnored(msg, ts)
  PROVE  Inv'
<1>1. /\ role = REQUESTER /\ msg.rcode = 0 /\ ~msg.qr /\ Feed(msg, ts)
      /\ UNCHANGED <<ring, last_seq, waiting, stats>>
  BY DEF FeedIgnored
<1>2. TypeOK /\ InOrder /\ fed \in Seq(Message)
  BY DEF Inv, TypeOK
<1>3. /\ send_ts' \in 0..MaxNow /\ fed' \in Seq(Message) /\ Len(fed') <= MaxCount
      /\ fed' = Append(fed, msg) /\ role' = role /\ now' = now /\ ev' = ev
      /\ taken' = taken
  BY <1>1, <1>2, FeedTypes
<1>4. TypeOK'
  BY <1>1, <1>2, <1>3 DEF TypeOK
<1>5. Books'
  <2>1. /\ Cardinality(Failed(fed')) = Cardinality(Failed(fed))
        /\ Cardinality(Answered(fed')) = Cardinality(Answered(fed))
    <3>1. Cardinality(Failed(fed)) \in Nat /\ Cardinality(Answered(fed)) \in Nat
      BY <1>2, CountsAreFed
    <3> QED
      BY <1>1, <1>2, <1>3, <3>1, AppendCounts
  <2> QED
    BY <1>1, <1>3, <2>1 DEF Inv, Books, Failed, Answered, REQUESTER, RESPONDER
<1>6. InOrder'
  BY <1>1, <1>2, <1>3, UntoldInOrder
<1> QED
  BY <1>4, <1>5, <1>6 DEF Inv

LEMMA QueryStep ==
  ASSUME Inv, NEW msg \in Message, NEW ts \in 0..now, FeedQuery(msg, ts)
  PROVE  Inv'
<1>1. /\ role = RESPONDER /\ Feed(msg, ts) /\ last_seq' = msg.id /\ waiting' = TRUE
      /\ UNCHANGED <<ring, stats>>
  BY DEF FeedQuery
<1>2. TypeOK /\ InOrder
  BY DEF Inv
<1>3. /\ send_ts' \in 0..MaxNow /\ fed' \in Seq(Message) /\ Len(fed') <= MaxCount
      /\ fed' = Append(fed, msg) /\ role' = role /\ now' = now /\ ev' = ev
      /\ taken' = taken
  BY <1>1, <1>2, FeedTypes
<1>4. TypeOK'
  <2>1. msg.id \in Id
    BY DEF Message
  <2> QED
    BY <1>1, <1>2, <1>3, <2>1 DEF TypeOK
<1>5. Books'
  BY <1>1, <1>3 DEF Inv, Books, REQUESTER, RESPONDER
<1>6. InOrder'
  BY <1>1, <1>2, <1>3, UntoldInOrder
<1> QED
  BY <1>4, <1>5, <1>6 DEF Inv

LEMMA NextEventStep == ASSUME Inv, dnsdiag_next_event PROVE Inv'
<1> DEFINE e == Oldest(ring)
<1>1. /\ ring.cnt > 0 /\ ring' = qpop(ring) /\ ev' = e /\ taken' = Append(taken, Tells(e))
      /\ UNCHANGED <<role, last_seq, send_ts, waiting, stats, now, fed>>
  BY DEF dnsdiag_next_event
<1>2. /\ ring \in Rings(Event) /\ RingOK(ring) /\ ring.cnt # 0
      /\ taken \in Seq(Report)
  BY <1>1 DEF Inv, TypeOK
<1>3. ring' \in Rings(Event) /\ RingOK(ring') /\ e \in Event
  BY <1>1, <1>2, PopOK
<1>4. Telling \in Readings(Event, Report) /\ Telling[e] = Tells(e)
  BY <1>3, TellingReads
<1>5. /\ Telling[e] \in Report
      /\ Append(taken, Telling[e]) \o AsRead(Telling, qpop(ring)) = taken \o AsRead(Telling, ring)
  BY <1>2, <1>4, AsReadPop
<1> HIDE DEF e
<1>6. TypeOK'
  <2>1. taken' \in Seq(Report)
    BY <1>1, <1>2, <1>4, <1>5, AppendProperties
  <2> QED
    BY <1>1, <1>3, <2>1 DEF Inv, TypeOK
<1>7. role = REQUESTER
  BY <1>2 DEF Inv, TypeOK, Books, Role
<1>8. Books'
  BY <1>1, <1>7 DEF Inv, Books, Failed, Answered, REQUESTER, RESPONDER
<1>9. InOrder'
  <2>1. taken' \o AsRead(Telling, ring') = taken \o AsRead(Telling, ring)
    BY <1>1, <1>4, <1>5
  <2>2. SubsequenceOf(taken' \o AsRead(Telling, ring'), Outcomes(fed))
    BY <2>1 DEF Inv, InOrder
  <2> QED
    BY <1>1, <2>2 DEF InOrder, Telling, Outcomes
<1> QED
  BY <1>6, <1>8, <1>9 DEF Inv

LEMMA ResetStep == ASSUME Inv, dnsdiag_reset PROVE Inv'
<1>1. /\ ring' = qinit(ring, ring.qsz) /\ stats' = ZeroStats /\ waiting' = FALSE
      /\ fed' = <<>> /\ taken' = <<>> /\ UNCHANGED <<role, last_seq, send_ts, now, ev>>
  BY DEF dnsdiag_reset
<1>2. ring \in RawRings(Event) /\ ring.qsz \in Nat
  BY RingIsRaw DEF Inv, TypeOK, RawRings
<1>3. ring' \in Rings(Event) /\ RingOK(ring') /\ ring'.cnt = 0
  BY <1>1, <1>2, InitOK
<1>4. TypeOK'
  <2>1. fed' \in Seq(Message) /\ Len(fed') <= MaxCount /\ taken' \in Seq(Report)
    BY <1>1, DnsDiagAssumption
  <2>2. waiting' \in BOOLEAN
    BY <1>1
  <2> QED
    BY <1>1, <1>3, <2>1, <2>2, ZeroStatsOK DEF Inv, TypeOK
<1>5. Books'
  BY <1>1, <1>3, EmptyCounts DEF Books, ZeroStats
<1>6. InOrder'
  <2>1. SubsequenceOf(<<>> \o AsRead(Telling, ring'), Outcomes(<<>>))
    BY <1>3, EmptyInOrder
  <2> QED
    BY <1>1, <2>1 DEF InOrder, Telling
<1> QED
  BY <1>4, <1>5, <1>6 DEF Inv

LEMMA TickStep == ASSUME Inv, Tick PROVE Inv'
<1>1. /\ now' = now + 1 /\ now < MaxNow
      /\ UNCHANGED <<role, ring, last_seq, send_ts, waiting, stats, ev, fed, taken>>
  BY DEF Tick
<1>2. TypeOK'
  BY <1>1, DnsDiagAssumption DEF Inv, TypeOK
<1>3. Books' /\ InOrder'
  BY <1>1, OrderStays DEF Inv, Books, Failed, Answered
<1> QED
  BY <1>2, <1>3 DEF Inv

LEMMA StutterStep == ASSUME Inv, UNCHANGED vars PROVE Inv'
<1>1. TypeOK' /\ Books' /\ InOrder'
  BY OrderStays DEF Inv, vars, TypeOK, Books, Failed, Answered
<1> QED
  BY <1>1 DEF Inv

LEMMA InvAlways == Spec => []Inv
<1>1. Inv /\ [Next]_vars => Inv'
  <2> SUFFICES ASSUME Inv, [Next]_vars PROVE Inv'
    OBVIOUS
  <2>1. ASSUME NEW msg \in Message, NEW ts \in 0..now,
               \/ FeedFault(msg, ts) \/ FeedReply(msg, ts)
               \/ FeedIgnored(msg, ts) \/ FeedQuery(msg, ts)
        PROVE  Inv'
    BY <2>1, FaultStep, ReplyStep, IgnoredStep, QueryStep
  <2>2. CASE dnsdiag_next_event
    BY <2>2, NextEventStep
  <2>3. CASE dnsdiag_reset
    BY <2>3, ResetStep
  <2>4. CASE Tick
    BY <2>4, TickStep
  <2>5. CASE UNCHANGED vars
    BY <2>5, StutterStep
  <2> QED
    BY <2>1, <2>2, <2>3, <2>4, <2>5 DEF Next
<1> QED
  BY InitInv, <1>1, PTL DEF Spec

(* Every variable keeps its type, and the queue's indices fit together.    *)
THEOREM TypeCorrect == Spec => []TypeOK
<1>1. Inv => TypeOK
  BY DEF Inv
<1> QED
  BY <1>1, InvAlways, PTL

(* The counters are those of the wire: a message is counted once, under    *)
(* what the code takes it for, also when its event was lost.               *)
THEOREM CountsTheWire == Spec => []BooksMatchTheWire
<1>1. Inv => BooksMatchTheWire
  BY DEF Inv, TypeOK, Role, Books, BooksMatchTheWire, Failed, Answered
<1> QED
  BY <1>1, InvAlways, PTL

(* The events are the outcomes of the messages, in their order and each    *)
(* with its own code, less those that found the queue full.                *)
THEOREM EventsInOrder == Spec => []EventsFollowTheWire
<1>1. Inv => EventsFollowTheWire
  <2> SUFFICES ASSUME Inv PROVE EventsFollowTheWire
    OBVIOUS
  <2> DEFINE waits == [i \in 1..ring.cnt |-> Tells(Contents(ring)[i])]
  <2>1. waits = AsRead(Telling, ring)
    <3>1. Contents(ring) \in Seq(Event) /\ Len(Contents(ring)) = ring.cnt
      BY ContentsSeq DEF Inv, TypeOK
    <3>2. \A i \in 1..ring.cnt : Telling[Contents(ring)[i]] = Tells(Contents(ring)[i])
      BY <3>1, ElementOfSeq, TellingReads
    <3> QED
      BY <3>2 DEF AsRead
  <2>2. SubsequenceOf(taken \o waits, Outcomes(fed))
    BY <2>1 DEF Inv, InOrder
  <2> QED
    BY <2>2 DEF EventsFollowTheWire, Outcomes
<1> QED
  BY <1>1, InvAlways, PTL

\* One event produced: offered to the channel, kept if there is room.
LEMMA PushOffers ==
  ASSUME Inv, NEW e \in Event, ring' = qpush(ring, e), ev' = ev,
         stats'.replies + stats'.timeouts = stats.replies + stats.timeouts + 1
  PROVE  Channel!Offer
<1>1. ring \in Rings(Event) /\ RingOK(ring) /\ stats \in Counters
  BY DEF Inv, TypeOK
<1>2. /\ Contents(ring) \in Seq(Event) /\ Len(Contents(ring)) = ring.cnt
      /\ ring.cnt \in Nat /\ ring.qsz \in Nat /\ ring.cnt <= ring.qsz
  BY <1>1, ContentsSeq, RingFields
<1>3. stats.replies + stats.timeouts \in Nat
  BY <1>1, WordAssumption DEF Counters, Word
<1>4. CASE ring.cnt = ring.qsz
  <2>1. ring' = ring
    BY <1>1, <1>4, PushFull
  <2> QED
    BY <1>2, <1>3, <1>4, <2>1 DEF Channel!Offer
<1>5. CASE ring.cnt < ring.qsz
  <2>1. ring'.qsz = ring.qsz /\ Contents(ring') = Append(Contents(ring), e)
    BY <1>1, <1>5, PushRoom
  <2>2. /\ Contents(ring') \in Seq(Event)
        /\ Len(Contents(ring')) = ring.cnt + 1
        /\ \A i \in 1..ring.cnt : Contents(ring')[i] = Contents(ring)[i]
    BY <1>2, <2>1, AppendProperties
  <2> QED
    BY <1>2, <1>3, <1>5, <2>1, <2>2 DEF Channel!Offer
<1> QED
  BY <1>2, <1>4, <1>5

\* The two ways in which a message produces an event.
LEMMA FaultOffers ==
  ASSUME Inv, NEW msg \in Message, NEW ts \in 0..now, FeedFault(msg, ts)
  PROVE  Channel!Offer
<1>1. /\ role = REQUESTER /\ stats' = CountTimeout(stats)
      /\ ring' = qpush(ring, FaultEvent(last_seq, msg.rcode))
      /\ ev' = ev /\ Len(fed) < MaxCount
  BY DEF FeedFault, Feed
<1>2. stats.timeouts \in Nat /\ stats.replies \in Nat /\ stats.timeouts + 1 < U32
  BY <1>1, RoomToCount
<1>3. stats \in Counters /\ last_seq \in Id \cup {0}
  BY DEF Inv, TypeOK
<1>4. stats'.timeouts = stats.timeouts + 1 /\ stats'.replies = stats.replies
  BY <1>1, <1>2, <1>3, CountTimeoutOK
<1>5. FaultEvent(last_seq, msg.rcode) \in Event
  BY <1>3, EventTypes DEF Message
<1>6. stats'.replies + stats'.timeouts = stats.replies + stats.timeouts + 1
  BY <1>2, <1>4
<1> QED
  BY <1>1, <1>5, <1>6, PushOffers

LEMMA ReplyOffers ==
  ASSUME Inv, NEW msg \in Message, NEW ts \in 0..now, FeedReply(msg, ts)
  PROVE  Channel!Offer
<1> DEFINE lat == Latency(Stamp(ts), ts)
<1>1. /\ role = REQUESTER /\ stats' = CountReply(stats, lat)
      /\ ring' = qpush(ring, ReplyEvent(last_seq, lat))
      /\ ev' = ev /\ Len(fed) < MaxCount
  BY DEF FeedReply, Feed
<1>2. /\ stats.timeouts \in Nat /\ stats.replies \in Nat /\ stats.replies + 1 < U32
  BY <1>1, RoomToCount
<1>3. stats \in Counters /\ last_seq \in Id \cup {0} /\ TypeOK
  BY DEF Inv, TypeOK
<1>4. lat \in Word
  BY <1>3, OwnStamp
<1> HIDE DEF lat
<1>5. stats'.replies = stats.replies + 1 /\ stats'.timeouts = stats.timeouts
  BY <1>1, <1>2, <1>3, <1>4, CountReplyOK
<1>6. ReplyEvent(last_seq, lat) \in Event
  BY <1>3, <1>4, EventTypes
<1>7. stats'.replies + stats'.timeouts = stats.replies + stats.timeouts + 1
  BY <1>2, <1>5
<1> QED
  BY <1>1, <1>6, <1>7, PushOffers

(* A context implements EventChannel: what its counters say was produced   *)
(* comes out in order, once and unaltered, and only the newest are lost; a *)
(* responder, and a query without an error, produce nothing.               *)
THEOREM Refinement == Spec => KeepsEventPromise
<1>1. Init => Channel!Init
  <2> SUFFICES ASSUME Init PROVE Channel!Init
    OBVIOUS
  <2>1. PICK r \in Role, size \in QueueSizes : dnsdiag_create_with_config(r, size)
    BY DEF Init
  <2>2. ring = qinit(Allocated(ZeroEvent), size) /\ size \in Nat /\ stats = ZeroStats
    BY <2>1, DnsDiagAssumption DEF dnsdiag_create_with_config
  <2>3. Contents(ring) = <<>> /\ ring.qsz \in 1..MAX_Q
    BY <2>2, InitOK, AllocatedRaw, EventTypes, ClampSizeOK
  <2>4. stats.replies + stats.timeouts = 0 /\ ev \in Event
    BY <2>2, EventTypes DEF ZeroStats, Init
  <2> QED
    BY <2>3, <2>4, QueueAssumption DEF Channel!Init
<1>2. Inv /\ [Next]_vars => [Channel!Next]_(Channel!vars)
  <2> SUFFICES ASSUME Inv, [Next]_vars PROVE [Channel!Next]_(Channel!vars)
    OBVIOUS
  <2>0. ring \in Rings(Event) /\ RingOK(ring)
    BY DEF Inv, TypeOK
  <2>1. ASSUME NEW msg \in Message, NEW ts \in 0..now, FeedFault(msg, ts) \/ FeedReply(msg, ts)
        PROVE  Channel!Next
    BY <2>1, FaultOffers, ReplyOffers DEF Channel!Next
  <2>2. ASSUME NEW msg \in Message, NEW ts \in 0..now, FeedIgnored(msg, ts) \/ FeedQuery(msg, ts)
        PROVE  UNCHANGED Channel!vars
    BY <2>2 DEF FeedIgnored, FeedQuery, Feed, Channel!vars
  <2>3. CASE dnsdiag_next_event
    <3>1. ring' = qpop(ring) /\ stats' = stats /\ ev' = Oldest(ring) /\ ring.cnt # 0
      BY <2>0, <2>3 DEF dnsdiag_next_event
    <3>2. /\ Contents(ring) # <<>> /\ Oldest(ring) = Head(Contents(ring))
          /\ Contents(ring') = Tail(Contents(ring)) /\ ring'.qsz = ring.qsz
      BY <2>0, <3>1, PopOK
    <3> QED
      BY <3>1, <3>2 DEF Channel!Next, Channel!Take
  <2>4. CASE dnsdiag_reset
    <3>1. ring' = qinit(ring, ring.qsz) /\ stats' = ZeroStats /\ ev' = ev
      BY <2>4 DEF dnsdiag_reset
    <3>2. ring \in RawRings(Event) /\ ring.qsz \in 1..MAX_Q /\ ring.qsz \in Nat
      BY <2>0, RingIsRaw, QueueAssumption DEF Rings
    <3>3. Contents(ring') = <<>> /\ ring'.qsz = ring.qsz
      BY <3>1, <3>2, InitOK, ClampSizeFixed
    <3>4. stats'.replies + stats'.timeouts = 0
      BY <3>1 DEF ZeroStats
    <3> QED
      BY <3>1, <3>3, <3>4 DEF Channel!Next, Channel!Clear
  <2>5. CASE Tick
    BY <2>5 DEF Tick, Channel!vars
  <2>6. CASE UNCHANGED vars
    BY <2>6 DEF vars, Channel!vars
  <2> QED
    BY <2>1, <2>2, <2>3, <2>4, <2>5, <2>6 DEF Next
<1> QED
  BY <1>1, <1>2, InvAlways, PTL DEF Spec, Channel!Spec, KeepsEventPromise
=============================================================================
