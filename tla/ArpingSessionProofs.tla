------------------------- MODULE ArpingSessionProofs -------------------------
(***************************************************************************)
(* The safety properties of ArpingSession for every set of addresses,      *)
(* queue size, clock bound and timeout, and every number of frames that    *)
(* keeps the counters in 32 bits.                                          *)
(*                                                                         *)
(* Inv is inductive.  EventsInDeliveryOrder says that one sequence is      *)
(* another with elements left out; the lemmas about that relation are      *)
(* those of ContextProofs.                                                 *)
(***************************************************************************)
EXTENDS ArpingSession, ContextProofs

----------------------------------------------------------------------------
(* The inductive invariant. *)

\* Neither context changes its role, and a requester never stamps itself.
Roles ==
  /\ req.role = REQUESTER /\ req.send_ts = 0
  /\ res.role = RESPONDER

\* The pending slot holds the last request delivered, and its time if the
\* hosts pass times.
PendingIsLast ==
  /\ res.waiting => asked.no > 0 /\ (timed => res.send_ts = asked.at)
  /\ ~timed => res.send_ts = 0

\* The two halves of BooksOfBothSides with each counter on its own, as the
\* steps change them, and that the requester's are far from wrapping.
RequesterBooks ==
  /\ Len(heard) <= MaxCount
  /\ req.stats.replies = Len(heard)
  /\ req.stats.dups = 0
  /\ req.waiting = FALSE

ResponderBooks ==
  /\ res.stats.timeouts + (IF res.waiting THEN 1 ELSE 0) <= asked.no
  /\ res.stats.replies = 0 /\ res.stats.dups = 0

\* The senders in a queue.
Senders(ring) == [i \in 1..ring.cnt |-> Contents(ring)[i].src_mac]

InOrder == SubsequenceOf(taken \o Senders(req.ring), heard)

Inv == /\ TypeOK
       /\ Roles
       /\ PendingIsLast
       /\ RequesterBooks
       /\ ResponderBooks
       /\ InOrder

\* The times a context may hold, 0 for none.
Clock == 0..MaxNow

LEMMA EventTypes ==
  /\ ZeroEvent \in Event /\ TimeoutEvent \in Event
  /\ \A mac \in AnyMac, lat \in Word : ReplyEvent(mac, lat) \in Event
  BY WordAssumption DEF Event, ZeroEvent, TimeoutEvent, ReplyEvent, Word, AnyMac

\* A reply's event and counters; nothing else of the context changes.
LEMMA FeedReplyOK ==
  ASSUME NEW Time, NEW c \in Contexts(Time), c.role = REQUESTER, c.send_ts = 0,
         NEW f \in Frame, f.op = "REPLY", f.mac \in AnyMac, NEW ts
  PROVE  LET d == arping_feed_input_with_ts(c, f, ts)
         IN  /\ d \in Contexts(Time)
             /\ d.role = c.role /\ d.send_ts = c.send_ts /\ d.waiting = FALSE
             /\ d.ring = qpush(c.ring, ReplyEvent(f.mac, UntimedLatency))
             /\ d.stats = CountReply(c.stats, UntimedLatency)
<1> DEFINE d == arping_feed_input_with_ts(c, f, ts)
           ring == qpush(c.ring, ReplyEvent(f.mac, UntimedLatency))
           stats == CountReply(c.stats, UntimedLatency)
<1>1. Latency(c.send_ts, ts) = UntimedLatency
  BY DEF Latency
<1>2. d = [c EXCEPT !.ring = ring, !.stats = stats, !.waiting = FALSE]
  BY <1>1 DEF arping_feed_input_with_ts, FeedReply
<1>3. UntimedLatency \in Word
  BY WordAssumption DEF UntimedLatency, Word
<1>4. ring \in {r \in Rings(Event) : RingOK(r)}
  BY <1>3, EventTypes, PushOK DEF Contexts
<1>5. stats \in Counters
  BY <1>3, CountReplyOK DEF Contexts
<1> HIDE DEF ring, stats
<1>6. /\ d \in Contexts(Time) /\ d.role = c.role /\ d.send_ts = c.send_ts
      /\ d.waiting = FALSE /\ d.ring = ring /\ d.stats = stats
  BY <1>2, <1>4, <1>5 DEF Contexts
<1> QED
  BY <1>6 DEF ring, stats

LEMMA FeedRequestOK ==
  ASSUME NEW Time, NEW c \in Contexts(Time), c.role = RESPONDER,
         NEW f \in Frame, f.op = "REQUEST", NEW ts \in Time
  PROVE  LET d == arping_feed_input_with_ts(c, f, ts)
         IN  /\ d \in Contexts(Time)
             /\ d.role = c.role /\ d.ring = c.ring /\ d.stats = c.stats
             /\ d.waiting = TRUE
             /\ d.send_ts = IF ts # 0 THEN ts ELSE c.send_ts
<1> DEFINE d == arping_feed_input_with_ts(c, f, ts)
           stamp == IF ts # 0 THEN ts ELSE c.send_ts
<1>1. d = [c EXCEPT !.send_ts = stamp, !.waiting = TRUE]
  BY DEF arping_feed_input_with_ts, FeedRequest
<1>2. stamp \in Time
  BY DEF Contexts
<1> HIDE DEF stamp
<1>3. /\ d \in Contexts(Time) /\ d.role = c.role /\ d.ring = c.ring
      /\ d.stats = c.stats /\ d.waiting = TRUE /\ d.send_ts = stamp
  BY <1>1, <1>2 DEF Contexts
<1> QED
  BY <1>3 DEF stamp

LEMMA ProcessOK ==
  ASSUME NEW Time, NEW c \in Contexts(Time), NEW ts
  PROVE  LET d == arping_process(c, ts)
         IN  /\ d \in Contexts(Time)
             /\ d.role = c.role /\ d.send_ts = c.send_ts
             /\ ~Expired(c, ts) => d = c
             /\ Expired(c, ts) => /\ d.waiting = FALSE
                                  /\ d.ring = qpush(c.ring, TimeoutEvent)
                                  /\ d.stats = CountTimeout(c.stats)
<1> DEFINE d == arping_process(c, ts)
           ring == qpush(c.ring, TimeoutEvent)
           stats == CountTimeout(c.stats)
<1>1. CASE ~Expired(c, ts)
  BY <1>1 DEF arping_process
<1>2. CASE Expired(c, ts)
  <2>1. d = [c EXCEPT !.ring = ring, !.stats = stats, !.waiting = FALSE]
    BY <1>2 DEF arping_process
  <2>2. ring \in {r \in Rings(Event) : RingOK(r)}
    BY EventTypes, PushOK DEF Contexts
  <2>3. stats \in Counters
    BY CountTimeoutOK DEF Contexts
  <2> HIDE DEF ring, stats
  <2>4. /\ d \in Contexts(Time) /\ d.role = c.role /\ d.send_ts = c.send_ts
        /\ d.waiting = FALSE /\ d.ring = ring /\ d.stats = stats
    BY <2>1, <2>2, <2>3 DEF Contexts
  <2> QED
    BY <1>2, <2>4 DEF ring, stats
<1> QED
  BY <1>1, <1>2

LEMMA NextEventOK ==
  ASSUME NEW Time, NEW c \in Contexts(Time), c.ring.cnt # 0
  PROVE  LET d == arping_next_event(c)
         IN  /\ d \in Contexts(Time)
             /\ d.role = c.role /\ d.send_ts = c.send_ts /\ d.waiting = c.waiting
             /\ d.stats = c.stats /\ d.ring = qpop(c.ring)
<1> DEFINE d == arping_next_event(c)
           ring == qpop(c.ring)
<1>1. d = [c EXCEPT !.ring = ring]
  BY DEF arping_next_event
<1>2. ring \in {r \in Rings(Event) : RingOK(r)}
  BY PopOK DEF Contexts
<1> HIDE DEF ring
<1>3. /\ d \in Contexts(Time) /\ d.role = c.role /\ d.send_ts = c.send_ts
      /\ d.waiting = c.waiting /\ d.stats = c.stats /\ d.ring = ring
  BY <1>1, <1>2 DEF Contexts
<1> QED
  BY <1>3 DEF ring

LEMMA ResetOK ==
  ASSUME NEW Time, NEW c \in Contexts(Time)
  PROVE  LET d == arping_reset(c)
         IN  /\ d \in Contexts(Time)
             /\ d.role = c.role /\ d.send_ts = c.send_ts /\ d.waiting = FALSE
             /\ d.stats = ZeroStats /\ d.ring.cnt = 0
<1> DEFINE d == arping_reset(c)
           ring == qinit(c.ring, c.ring.qsz)
<1>1. d = [c EXCEPT !.ring = ring, !.stats = ZeroStats, !.waiting = FALSE]
  BY DEF arping_reset
<1>2. c.ring \in RawRings(Event) /\ c.ring.qsz \in Nat
  BY RingIsRaw DEF Contexts, RawRings
<1>3. ring \in {r \in Rings(Event) : RingOK(r)} /\ ring.cnt = 0
  BY <1>2, InitOK
<1> HIDE DEF ring
<1>4. /\ d \in Contexts(Time) /\ d.role = c.role /\ d.send_ts = c.send_ts
      /\ d.waiting = FALSE /\ d.stats = ZeroStats /\ d.ring = ring
  BY <1>1, <1>3, ZeroStatsOK DEF Contexts
<1> QED
  BY <1>3, <1>4

LEMMA CreateOK ==
  ASSUME NEW Time, 0 \in Time, NEW role \in {REQUESTER, RESPONDER}, NEW size \in Nat
  PROVE  LET d == arping_create_with_config(role, size)
         IN  /\ d \in Contexts(Time)
             /\ d.role = role /\ d.send_ts = 0 /\ d.waiting = FALSE
             /\ d.stats = ZeroStats /\ d.ring.cnt = 0
<1> DEFINE d == arping_create_with_config(role, size)
           ring == qinit(Allocated(ZeroEvent), size)
<1>1. d = [role |-> role, ring |-> ring, send_ts |-> 0, waiting |-> FALSE, stats |-> ZeroStats]
  BY DEF arping_create_with_config
<1>2. ring \in {r \in Rings(Event) : RingOK(r)} /\ ring.cnt = 0
  BY InitOK, AllocatedRaw, EventTypes
<1> HIDE DEF ring
<1> QED
  BY <1>1, <1>2, ZeroStatsOK DEF Contexts
----------------------------------------------------------------------------
(* The senders in the queue. *)

WellFormed == {r \in Rings(Event) : RingOK(r)}

SrcMac == [e \in Event |-> e.src_mac]

LEMMA SendersAsRead ==
  /\ SrcMac \in Readings(Event, AnyMac)
  /\ \A r \in WellFormed : Senders(r) = AsRead(SrcMac, r) /\ Senders(r) \in Seq(AnyMac)
<1>1. SrcMac \in Readings(Event, AnyMac)
  BY DEF Readings, SrcMac, Event
<1>2. ASSUME NEW r \in WellFormed
      PROVE  Senders(r) = AsRead(SrcMac, r) /\ Senders(r) \in Seq(AnyMac)
  <2>1. AsRead(SrcMac, r) \in Seq(AnyMac)
    BY <1>1, AsReadSeq DEF WellFormed
  <2>2. Contents(r) \in Seq(Event) /\ Len(Contents(r)) = r.cnt
    BY ContentsSeq DEF WellFormed
  <2>3. \A i \in 1..r.cnt : SrcMac[Contents(r)[i]] = Contents(r)[i].src_mac
    BY <2>2, ElementOfSeq DEF SrcMac
  <2> QED
    BY <2>1, <2>3 DEF Senders, AsRead
<1> QED
  BY <1>1, <1>2

LEMMA SendersEmpty ==
  ASSUME NEW r \in WellFormed, r.cnt = 0
  PROVE  Senders(r) = <<>>
<1>1. r.cnt = 0 /\ 1..r.cnt = {}
  OBVIOUS
<1> QED
  BY <1>1 DEF Senders
----------------------------------------------------------------------------
(* Inv holds at the start and is kept by every step. *)

LEMMA ReplyFrame ==
  ASSUME TypeOK, NEW f \in wire
  PROVE  /\ f.op \in {"REQUEST", "REPLY"}
         /\ f.op = "REPLY" => f.mac \in AnyMac
         /\ f.family \in Family
<1>1. f \in Frame
  BY DEF TypeOK
<1>2. CASE f \in Requests
  BY <1>2 DEF Requests, Request
<1>3. CASE \E family \in Family : f \in Replies(family)
  BY <1>3 DEF Replies, Reply, AnyMac
<1> QED
  BY <1>1, <1>2, <1>3 DEF Frame

\* What an answer puts on the wire is a frame.
LEMMA AnswerFrames ==
  ASSUME TypeOK, NEW f \in wire, NEW left \in Left(f),
         NEW answer \in Answers(f.family)
  PROVE  left \subseteq Frame /\ left \cup answer \subseteq Frame
<1>1. left \subseteq Frame
  BY DEF Left, TypeOK
<1>2. f.family \in Family
  BY ReplyFrame
<1>3. answer \subseteq Replies(f.family)
  BY DEF Answers
<1>4. Replies(f.family) \subseteq Frame
  BY <1>2 DEF Frame
<1> QED
  BY <1>1, <1>3, <1>4

\* The time a host passes is one of the clock, 0 only when it passes none.
LEMMA StampOK ==
  ASSUME TypeOK
  PROVE  Stamp \in 0..MaxNow /\ (timed => Stamp = now /\ Stamp # 0) /\ (~timed => Stamp = 0)
<1>1. now \in 1..MaxNow /\ MaxNow \in Nat
  BY SessionAssumption DEF TypeOK
<1> QED
  BY <1>1 DEF Stamp

\* The counters as numbers, and how far they are from wrapping.
LEMMA Numbers ==
  ASSUME Inv
  PROVE  /\ req.stats \in Counters /\ res.stats \in Counters
         /\ Len(heard) \in Nat /\ asked.no \in Nat /\ asked.no <= MaxCount
         /\ res.stats.timeouts \in Nat /\ res.stats.timeouts <= asked.no
         /\ MaxCount \in Nat /\ MaxCount * 100 < U32 /\ U32 \in Nat /\ U32 > 100
         /\ req.ring \in WellFormed /\ res.ring \in WellFormed
         /\ heard \in Seq(AnyMac) /\ taken \in Seq(AnyMac)
<1>1. /\ req.stats \in Counters /\ res.stats \in Counters
      /\ req.ring \in WellFormed /\ res.ring \in WellFormed
  BY DEF Inv, TypeOK, Contexts, WellFormed
<1>2. heard \in Seq(AnyMac) /\ taken \in Seq(AnyMac)
  BY DEF Inv, TypeOK
<1>3. Len(heard) \in Nat
  BY <1>2, LenProperties
<1>4. MaxCount \in Nat /\ MaxCount * 100 < U32 /\ U32 \in Nat /\ U32 > 100
  BY SessionAssumption, WordAssumption
<1>5. asked.no \in Nat /\ asked.no <= MaxCount
  BY <1>4 DEF Inv, TypeOK
<1>6. res.stats.timeouts \in Nat
  BY <1>1, <1>4 DEF Counters, Word
<1>7. res.stats.timeouts <= asked.no
  BY <1>5, <1>6 DEF Inv, ResponderBooks
<1> QED
  BY <1>1, <1>2, <1>3, <1>4, <1>5, <1>6, <1>7

LEMMA InitInv == Init => Inv
<1> SUFFICES ASSUME Init PROVE Inv
  OBVIOUS
<1>1. PICK size \in QueueSizes :
        /\ req = arping_create_with_config(REQUESTER, size)
        /\ res = arping_create_with_config(RESPONDER, size)
  BY DEF Init
<1>2. /\ timed \in BOOLEAN /\ now = 1 /\ wire = {} /\ asked = NoRequest
      /\ heard = <<>> /\ taken = <<>>
  BY DEF Init
<1>3. size \in Nat /\ 0 \in 0..MaxNow /\ MaxCount \in Nat
  BY SessionAssumption
<1>4. /\ req \in Contexts(0..MaxNow) /\ req.role = REQUESTER /\ req.send_ts = 0
      /\ req.waiting = FALSE /\ req.stats = ZeroStats /\ req.ring.cnt = 0
  BY <1>1, <1>3, CreateOK
<1>5. /\ res \in Contexts(0..MaxNow) /\ res.role = RESPONDER /\ res.send_ts = 0
      /\ res.waiting = FALSE /\ res.stats = ZeroStats /\ res.ring.cnt = 0
  BY <1>1, <1>3, CreateOK
<1>6. TypeOK
  <2>1. now \in 1..MaxNow
    BY <1>2, SessionAssumption
  <2>2. asked \in [no : 0..MaxCount, at : 0..MaxNow]
    BY <1>2, <1>3 DEF NoRequest
  <2>3. heard \in Seq(AnyMac) /\ taken \in Seq(AnyMac)
    BY <1>2
  <2> QED
    BY <1>2, <1>4, <1>5, <2>1, <2>2, <2>3 DEF TypeOK
<1>7. Roles /\ PendingIsLast
  BY <1>4, <1>5 DEF Roles, PendingIsLast
<1>8. RequesterBooks
  <2>1. Len(heard) = 0
    BY <1>2
  <2> QED
    BY <1>3, <1>4, <2>1 DEF RequesterBooks, ZeroStats
<1>9. ResponderBooks
  BY <1>2, <1>5 DEF ResponderBooks, ZeroStats, NoRequest
<1>10. InOrder
  <2>1. Senders(req.ring) = <<>>
    BY <1>4, SendersEmpty DEF Contexts, WellFormed
  <2>2. taken \o Senders(req.ring) = <<>>
    BY <1>2, <2>1
  <2> QED
    BY <1>2, <2>2, NothingOfNothing DEF InOrder
<1> QED
  BY <1>6, <1>7, <1>8, <1>9, <1>10 DEF Inv

LEMMA DeliverRequestStep ==
  ASSUME Inv, NEW f \in wire, NEW left \in Left(f), NEW answer \in Answers(f.family),
         DeliverRequest(f, left, answer)
  PROVE  Inv' /\ res'.stats = res.stats
<1>1. /\ f.op = "REQUEST" /\ asked.no < MaxCount
      /\ res' = arping_feed_input_with_ts(res, f, Stamp)
      /\ wire' = left \cup answer /\ asked' = [no |-> asked.no + 1, at |-> now]
      /\ UNCHANGED <<req, timed, now, heard, taken>>
  BY DEF DeliverRequest
<1>2. Stamp \in 0..MaxNow /\ (timed => Stamp = now /\ Stamp # 0) /\ (~timed => Stamp = 0)
  BY StampOK DEF Inv
<1>3. /\ res' \in Contexts(0..MaxNow) /\ res'.role = RESPONDER
      /\ res'.ring = res.ring /\ res'.stats = res.stats /\ res'.waiting = TRUE
      /\ res'.send_ts = IF Stamp # 0 THEN Stamp ELSE res.send_ts
  <2>1. res \in Contexts(Clock) /\ res.role = RESPONDER /\ Stamp \in Clock
    BY <1>2 DEF Inv, TypeOK, Roles, Clock
  <2> DEFINE d == arping_feed_input_with_ts(res, f, Stamp)
  <2>2. /\ d \in Contexts(Clock) /\ d.role = res.role
        /\ d.ring = res.ring /\ d.stats = res.stats /\ d.waiting = TRUE
        /\ d.send_ts = IF Stamp # 0 THEN Stamp ELSE res.send_ts
    <3>1. f \in Frame /\ f.op = "REQUEST"
      BY <1>1 DEF Inv, TypeOK
    <3> QED
      BY <2>1, <3>1, FeedRequestOK
  <2>3. res' = d
    BY <1>1
  <2> HIDE DEF d
  <2> QED
    BY <2>1, <2>2, <2>3 DEF Clock
<1>4. TypeOK'
  <2>1. asked' \in [no : 0..MaxCount, at : 0..MaxNow]
    <3>1. now \in 0..MaxNow /\ asked.no + 1 \in 0..MaxCount
      BY <1>1, Numbers, SessionAssumption DEF Inv, TypeOK
    <3> QED
      BY <1>1, <3>1
  <2>2. wire' \subseteq Frame
    BY <1>1, AnswerFrames DEF Inv
  <2> QED
    BY <1>1, <1>3, <2>1, <2>2 DEF Inv, TypeOK
<1>5. Roles'
  BY <1>1, <1>3 DEF Inv, Roles
<1>6. PendingIsLast'
  <2>1. asked'.no > 0 /\ asked'.at = now
    BY <1>1, Numbers
  <2> QED
    BY <1>1, <1>2, <1>3, <2>1 DEF Inv, PendingIsLast
<1>7. RequesterBooks' /\ InOrder'
  BY <1>1 DEF Inv, RequesterBooks, InOrder, Senders
<1>8. ResponderBooks'
  <2>1. asked'.no = asked.no + 1 /\ asked.no \in Nat /\ res.stats.timeouts \in Nat
        /\ res.stats.timeouts <= asked.no
    BY <1>1, Numbers
  <2> QED
    BY <1>3, <2>1 DEF Inv, ResponderBooks
<1> QED
  BY <1>3, <1>4, <1>5, <1>6, <1>7, <1>8 DEF Inv

LEMMA DeliverReplyStep ==
  ASSUME Inv, NEW f \in wire, NEW left \in Left(f), DeliverReply(f, left)
  PROVE  Inv'
<1>1. /\ f.op = "REPLY" /\ Len(heard) < MaxCount
      /\ req' = arping_feed_input_with_ts(req, f, Stamp)
      /\ wire' = left /\ heard' = Append(heard, f.mac)
      /\ UNCHANGED <<res, timed, now, asked, taken>>
  BY DEF DeliverReply
<1>2. f.mac \in AnyMac
  BY <1>1, ReplyFrame DEF Inv
<1> DEFINE e == ReplyEvent(f.mac, UntimedLatency)
<1>3. /\ req' \in Contexts(0..MaxNow) /\ req'.role = REQUESTER /\ req'.send_ts = 0
      /\ req'.waiting = FALSE /\ req'.ring = qpush(req.ring, e)
      /\ req'.stats = CountReply(req.stats, UntimedLatency)
  <2>1. req \in Contexts(Clock) /\ req.role = REQUESTER /\ req.send_ts = 0
    BY DEF Inv, TypeOK, Roles, Clock
  <2> DEFINE d == arping_feed_input_with_ts(req, f, Stamp)
  <2>2. /\ d \in Contexts(Clock) /\ d.role = req.role /\ d.send_ts = req.send_ts
        /\ d.waiting = FALSE /\ d.ring = qpush(req.ring, e)
        /\ d.stats = CountReply(req.stats, UntimedLatency)
    <3>1. f \in Frame /\ f.op = "REPLY"
      BY <1>1 DEF Inv, TypeOK
    <3> QED
      BY <1>2, <2>1, <3>1, FeedReplyOK
  <2>3. req' = d
    BY <1>1
  <2> HIDE DEF d, e
  <2> QED
    BY <2>1, <2>2, <2>3 DEF Clock
<1>4. /\ Len(heard') = Len(heard) + 1 /\ heard' \in Seq(AnyMac)
      /\ Len(heard) \in Nat
  BY <1>1, <1>2, Numbers, AppendProperties
<1>5. TypeOK'
  <2>1. wire' \subseteq Frame
    BY <1>1 DEF Inv, TypeOK, Left
  <2> QED
    BY <1>1, <1>3, <1>4, <2>1 DEF Inv, TypeOK
<1>6. Roles' /\ PendingIsLast'
  BY <1>1, <1>3 DEF Inv, Roles, PendingIsLast
<1>7. RequesterBooks'
  <2>1. UntimedLatency \in Word /\ UntimedLatency = 5 /\ req.stats \in Counters
    BY WordAssumption, Numbers DEF UntimedLatency, Word
  <2>2. req.stats.replies = Len(heard) /\ req.stats.dups = 0
    BY DEF Inv, RequesterBooks
  <2>3. req.stats.replies + 1 < U32
    <3>1. MaxCount \in Nat /\ MaxCount * 100 < U32 /\ U32 \in Nat
      BY Numbers
    <3> QED
      BY <1>1, <1>4, <2>1, <2>2, <3>1
  <2>4. req'.stats.replies = req.stats.replies + 1 /\ req'.stats.dups = 0
    BY <1>3, <2>1, <2>2, <2>3, CountReplyOK
  <2>5. Len(heard') <= MaxCount
    BY <1>1, <1>4, Numbers
  <2> QED
    BY <1>3, <1>4, <2>2, <2>4, <2>5 DEF RequesterBooks
<1>8. ResponderBooks'
  BY <1>1 DEF Inv, ResponderBooks
<1>9. InOrder'
  <2>1. e \in Event /\ SrcMac[e] = f.mac
    <3>1. UntimedLatency \in Word
      BY WordAssumption DEF UntimedLatency, Word
    <3> QED
      BY <1>2, <3>1, EventTypes DEF ReplyEvent, SrcMac
  <2>2. /\ taken \in Seq(AnyMac) /\ heard \in Seq(AnyMac)
        /\ req.ring \in Rings(Event) /\ RingOK(req.ring)
    BY Numbers DEF WellFormed
  <2>3. SubsequenceOf(taken \o AsRead(SrcMac, req.ring), heard)
    BY <2>2, SendersAsRead DEF Inv, InOrder, WellFormed
  <2>4. SrcMac \in Readings(Event, AnyMac)
    BY SendersAsRead
  <2> HIDE DEF e
  <2>5. SubsequenceOf(taken \o AsRead(SrcMac, qpush(req.ring, e)), Append(heard, SrcMac[e]))
    BY <2>1, <2>2, <2>3, <2>4, PushAsRead
  <2>6. qpush(req.ring, e) \in WellFormed
    BY <2>1, <2>2, PushOK DEF WellFormed
  <2>7. Senders(qpush(req.ring, e)) = AsRead(SrcMac, qpush(req.ring, e))
    BY <2>6, SendersAsRead
  <2> QED
    BY <1>1, <1>3, <2>1, <2>5, <2>7 DEF InOrder
<1> QED
  BY <1>5, <1>6, <1>7, <1>8, <1>9 DEF Inv

\* What a step that leaves both contexts and their histories alone keeps.
LEMMA BooksStay ==
  ASSUME Inv, UNCHANGED <<req, res, timed, asked, heard, taken>>
  PROVE  Roles' /\ PendingIsLast' /\ RequesterBooks' /\ ResponderBooks' /\ InOrder'
BY DEF Inv, Roles, PendingIsLast, RequesterBooks, ResponderBooks, InOrder, Senders

\* Only the responder can have anything pending, and its timeout is counted.
LEMMA ProcessStep ==
  ASSUME Inv, Process
  PROVE  /\ Inv'
         /\ ~Expired(res, now) => res' = res
         /\ Expired(res, now) => res'.stats.timeouts = res.stats.timeouts + 1
<1>1. /\ req' = arping_process(req, now) /\ res' = arping_process(res, now)
      /\ UNCHANGED <<timed, now, wire, asked, heard, taken>>
  BY DEF Process
<1>2. req' = req
  BY <1>1 DEF arping_process, Expired, Inv, RequesterBooks
<1>3. CASE ~Expired(res, now)
  <2>1. res' = res
    BY <1>1, <1>3 DEF arping_process
  <2>2. TypeOK'
    BY <1>1, <1>2, <2>1 DEF Inv, TypeOK
  <2> QED
    BY <1>1, <1>2, <1>3, <2>1, <2>2, BooksStay DEF Inv
<1>4. CASE Expired(res, now)
  <2>1. /\ res' \in Contexts(0..MaxNow) /\ res'.role = res.role
        /\ res'.send_ts = res.send_ts /\ res'.waiting = FALSE
        /\ res'.ring = qpush(res.ring, TimeoutEvent)
        /\ res'.stats = CountTimeout(res.stats)
    <3>1. res \in Contexts(0..MaxNow)
      BY DEF Inv, TypeOK
    <3> DEFINE d == arping_process(res, now)
    <3>2. /\ d \in Contexts(0..MaxNow) /\ d.role = res.role /\ d.send_ts = res.send_ts
          /\ d.waiting = FALSE /\ d.ring = qpush(res.ring, TimeoutEvent)
          /\ d.stats = CountTimeout(res.stats)
      BY <1>4, <3>1, ProcessOK
    <3>3. res' = d
      BY <1>1
    <3> HIDE DEF d
    <3> QED
      BY <3>2, <3>3
  <2>2. res.waiting
    BY <1>4 DEF Expired
  <2>3. res.stats.timeouts + 1 <= asked.no
    BY <2>2 DEF Inv, ResponderBooks
  <2>4. res.stats.timeouts + 1 < U32
    BY <2>3, Numbers
  <2>5. /\ res'.stats.timeouts = res.stats.timeouts + 1
        /\ res'.stats.replies = res.stats.replies /\ res'.stats.dups = res.stats.dups
    BY <2>1, <2>4, Numbers, CountTimeoutOK
  <2>6. TypeOK'
    BY <1>1, <1>2, <2>1 DEF Inv, TypeOK
  <2>7. Roles' /\ PendingIsLast' /\ RequesterBooks' /\ InOrder'
    BY <1>1, <1>2, <2>1
       DEF Inv, Roles, PendingIsLast, RequesterBooks, InOrder, Senders
  <2>8. ResponderBooks'
    <3>1. res'.stats.timeouts <= asked'.no
      BY <1>1, <2>3, <2>5
    <3>2. res'.stats.replies = 0 /\ res'.stats.dups = 0
      BY <2>5 DEF Inv, ResponderBooks
    <3>3. res'.stats.timeouts \in Nat /\ res'.waiting = FALSE
      BY <2>1, <2>5, Numbers
    <3> QED
      BY <3>1, <3>2, <3>3 DEF ResponderBooks
  <2> QED
    BY <1>4, <2>5, <2>6, <2>7, <2>8 DEF Inv
<1> QED
  BY <1>3, <1>4

LEMMA TakeReplyStep == ASSUME Inv, TakeReply PROVE Inv'
<1>1. /\ req.ring.cnt # 0 /\ req' = arping_next_event(req)
      /\ taken' = Append(taken, Oldest(req.ring).src_mac)
      /\ UNCHANGED <<res, timed, now, wire, asked, heard>>
  BY DEF TakeReply
<1>2. /\ req' \in Contexts(0..MaxNow) /\ req'.role = req.role
      /\ req'.send_ts = req.send_ts /\ req'.waiting = req.waiting
      /\ req'.stats = req.stats /\ req'.ring = qpop(req.ring)
  BY <1>1, NextEventOK DEF Inv, TypeOK
<1>3. /\ Oldest(req.ring).src_mac \in AnyMac
      /\ taken' \o Senders(req'.ring) = taken \o Senders(req.ring)
  <2>1. /\ req.ring \in Rings(Event) /\ RingOK(req.ring) /\ req.ring.cnt # 0
        /\ taken \in Seq(AnyMac) /\ Oldest(req.ring) \in Event
        /\ qpop(req.ring) \in WellFormed /\ req.ring \in WellFormed
    BY <1>1, Numbers, PopOK DEF WellFormed
  <2>2. SrcMac \in Readings(Event, AnyMac)
    BY SendersAsRead
  <2>3. /\ SrcMac[Oldest(req.ring)] \in AnyMac
        /\ Append(taken, SrcMac[Oldest(req.ring)]) \o AsRead(SrcMac, qpop(req.ring)) =
             taken \o AsRead(SrcMac, req.ring)
    BY <2>1, <2>2, AsReadPop
  <2>4. SrcMac[Oldest(req.ring)] = Oldest(req.ring).src_mac
    BY <2>1 DEF SrcMac
  <2>5. /\ Senders(req.ring) = AsRead(SrcMac, req.ring)
        /\ Senders(qpop(req.ring)) = AsRead(SrcMac, qpop(req.ring))
    BY <2>1, SendersAsRead
  <2> QED
    BY <1>1, <1>2, <2>3, <2>4, <2>5
<1>4. taken' \in Seq(AnyMac)
  BY <1>1, <1>3, Numbers, AppendProperties
<1>5. TypeOK'
  BY <1>1, <1>2, <1>4 DEF Inv, TypeOK
<1>6. Roles' /\ PendingIsLast' /\ RequesterBooks' /\ ResponderBooks'
  BY <1>1, <1>2 DEF Inv, Roles, PendingIsLast, RequesterBooks, ResponderBooks
<1>7. InOrder'
  BY <1>1, <1>3 DEF Inv, InOrder
<1> QED
  BY <1>5, <1>6, <1>7 DEF Inv

LEMMA TakeTimeoutStep ==
  ASSUME Inv, TakeTimeout
  PROVE  Inv' /\ res'.stats = res.stats
<1>1. /\ res.ring.cnt # 0 /\ res' = arping_next_event(res)
      /\ UNCHANGED <<req, timed, now, wire, asked, heard, taken>>
  BY DEF TakeTimeout
<1>2. /\ res' \in Contexts(0..MaxNow) /\ res'.role = res.role
      /\ res'.send_ts = res.send_ts /\ res'.waiting = res.waiting
      /\ res'.stats = res.stats /\ res'.ring = qpop(res.ring)
  BY <1>1, NextEventOK DEF Inv, TypeOK
<1>3. TypeOK'
  BY <1>1, <1>2 DEF Inv, TypeOK
<1>4. Roles' /\ PendingIsLast' /\ RequesterBooks' /\ InOrder'
  BY <1>1, <1>2 DEF Inv, Roles, PendingIsLast, RequesterBooks, InOrder, Senders
<1>5. ResponderBooks'
  BY <1>1, <1>2 DEF Inv, ResponderBooks
<1> QED
  BY <1>2, <1>3, <1>4, <1>5 DEF Inv

LEMMA ResetRequesterStep == ASSUME Inv, ResetRequester PROVE Inv'
<1>1. /\ req' = arping_reset(req) /\ heard' = <<>> /\ taken' = <<>>
      /\ UNCHANGED <<res, timed, now, wire, asked>>
  BY DEF ResetRequester
<1>2. /\ req' \in Contexts(0..MaxNow) /\ req'.role = req.role
      /\ req'.send_ts = req.send_ts /\ req'.waiting = FALSE
      /\ req'.stats = ZeroStats /\ req'.ring.cnt = 0
  BY <1>1, ResetOK DEF Inv, TypeOK
<1>3. heard' \in Seq(AnyMac) /\ taken' \in Seq(AnyMac)
  BY <1>1
<1>4. TypeOK'
  BY <1>1, <1>2, <1>3 DEF Inv, TypeOK
<1>5. Roles' /\ PendingIsLast' /\ ResponderBooks'
  BY <1>1, <1>2 DEF Inv, Roles, PendingIsLast, ResponderBooks
<1>6. RequesterBooks'
  <2>1. MaxCount \in Nat
    BY Numbers
  <2>2. Len(heard') = 0
    BY <1>1
  <2> QED
    BY <1>2, <2>1, <2>2 DEF RequesterBooks, ZeroStats
<1>7. InOrder'
  <2>1. Senders(req'.ring) = <<>>
    BY <1>2, SendersEmpty DEF Contexts, WellFormed
  <2>2. taken' \o Senders(req'.ring) = <<>>
    BY <1>1, <2>1
  <2> QED
    BY <1>1, <2>2, NothingOfNothing DEF InOrder
<1> QED
  BY <1>4, <1>5, <1>6, <1>7 DEF Inv

LEMMA ResetResponderStep ==
  ASSUME Inv, ResetResponder
  PROVE  Inv' /\ res'.stats.timeouts = 0
<1>1. /\ res' = arping_reset(res) /\ asked' = NoRequest
      /\ UNCHANGED <<req, timed, now, wire, heard, taken>>
  BY DEF ResetResponder
<1>2. /\ res' \in Contexts(0..MaxNow) /\ res'.role = res.role
      /\ res'.send_ts = res.send_ts /\ res'.waiting = FALSE
      /\ res'.stats = ZeroStats /\ res'.ring.cnt = 0
  BY <1>1, ResetOK DEF Inv, TypeOK
<1>3. asked' \in [no : 0..MaxCount, at : 0..MaxNow] /\ asked'.no = 0
  BY <1>1, SessionAssumption DEF NoRequest
<1>4. TypeOK'
  BY <1>1, <1>2, <1>3 DEF Inv, TypeOK
<1>5. Roles' /\ PendingIsLast' /\ RequesterBooks' /\ InOrder'
  BY <1>1, <1>2 DEF Inv, Roles, PendingIsLast, RequesterBooks, InOrder, Senders
<1>6. ResponderBooks'
  BY <1>2, <1>3 DEF ResponderBooks, ZeroStats
<1> QED
  BY <1>2, <1>4, <1>5, <1>6 DEF Inv, ZeroStats

LEMMA InvAlways == Spec => []Inv
<1>1. Inv /\ [Next]_vars => Inv'
  <2> SUFFICES ASSUME Inv, [Next]_vars PROVE Inv'
    OBVIOUS
  <2>1. ASSUME NEW family \in Family, Ask(family) PROVE Inv'
    <3>1. /\ wire' = wire \cup {Request(family)}
          /\ UNCHANGED <<req, res, timed, now, asked, heard, taken>>
      BY <2>1 DEF Ask
    <3>2. wire' \subseteq Frame
      BY <3>1 DEF Frame, Requests, Inv, TypeOK
    <3>3. TypeOK'
      BY <3>1, <3>2 DEF Inv, TypeOK
    <3> QED
      BY <3>1, <3>3, BooksStay DEF Inv
  <2>2. ASSUME NEW f \in wire, NEW left \in Left(f), NEW answer \in Answers(f.family),
               DeliverRequest(f, left, answer)
        PROVE  Inv'
    BY <2>2, DeliverRequestStep
  <2>3. ASSUME NEW f \in wire, NEW left \in Left(f), DeliverReply(f, left) PROVE Inv'
    BY <2>3, DeliverReplyStep
  <2>4. ASSUME NEW f \in wire, Lose(f) PROVE Inv'
    <3>1. /\ wire' = wire \ {f}
          /\ UNCHANGED <<req, res, timed, now, asked, heard, taken>>
      BY <2>4 DEF Lose
    <3>2. TypeOK'
      BY <3>1 DEF Inv, TypeOK
    <3> QED
      BY <3>1, <3>2, BooksStay DEF Inv
  <2>5. CASE Process
    BY <2>5, ProcessStep
  <2>6. CASE TakeReply
    BY <2>6, TakeReplyStep
  <2>7. CASE TakeTimeout
    BY <2>7, TakeTimeoutStep
  <2>8. CASE ResetRequester
    BY <2>8, ResetRequesterStep
  <2>9. CASE ResetResponder
    BY <2>9, ResetResponderStep
  <2>10. CASE Tick
    <3>1. /\ now < MaxNow /\ now' = now + 1
          /\ UNCHANGED <<req, res, timed, wire, asked, heard, taken>>
      BY <2>10 DEF Tick
    <3>2. now' \in 1..MaxNow
      BY <3>1, SessionAssumption DEF Inv, TypeOK
    <3>3. TypeOK'
      BY <3>1, <3>2 DEF Inv, TypeOK
    <3> QED
      BY <3>1, <3>3, BooksStay DEF Inv
  <2>11. CASE UNCHANGED vars
    <3>1. UNCHANGED <<req, res, timed, now, wire, asked, heard, taken>>
      BY <2>11 DEF vars
    <3>2. TypeOK'
      BY <3>1 DEF Inv, TypeOK
    <3> QED
      BY <3>1, <3>2, BooksStay DEF Inv
  <2> QED
    BY <2>1, <2>2, <2>3, <2>4, <2>5, <2>6, <2>7, <2>8, <2>9, <2>10, <2>11 DEF Next
<1> QED
  BY InitInv, <1>1, PTL DEF Spec

----------------------------------------------------------------------------
(* The properties. *)

(* Every variable keeps its type: both contexts stay well-formed under any *)
(* loss, delay, reordering and duplication of frames.                      *)
THEOREM TypeCorrect == Spec => []TypeOK
<1>1. Inv => TypeOK
  BY DEF Inv
<1> QED
  BY <1>1, InvAlways, PTL

(* The requester's caller learns of answers in the order they came in, as  *)
(* often as they came in and from whom they came.                          *)
THEOREM DeliveryOrder == Spec => []EventsInDeliveryOrder
<1>1. Inv => EventsInDeliveryOrder
  BY DEF Inv, InOrder, Senders, EventsInDeliveryOrder
<1> QED
  BY <1>1, InvAlways, PTL

(* Each answer delivered is booked once by the requester, and a request is *)
(* pending or at most one timeout in the responder's books, never an       *)
(* answer.                                                                 *)
THEOREM Books == Spec => []BooksOfBothSides
<1>1. Inv => BooksOfBothSides
  <2> SUFFICES ASSUME Inv PROVE BooksOfBothSides
    OBVIOUS
  <2>1. Len(heard) \in Nat
    BY DEF Inv, TypeOK
  <2>2. req.stats.replies = Len(heard) /\ req.stats.dups = 0
    BY DEF Inv, RequesterBooks
  <2>3. /\ res.stats.timeouts + (IF res.waiting THEN 1 ELSE 0) <= asked.no
        /\ res.stats.replies = 0 /\ res.stats.dups = 0
    BY DEF Inv, ResponderBooks
  <2> QED
    BY <2>1, <2>2, <2>3 DEF BooksOfBothSides
<1> QED
  BY <1>1, InvAlways, PTL

(* A timeout is reported only when no request has reached the responder    *)
(* for longer than TIMEOUT, and never to hosts that pass no times.         *)
THEOREM SilenceBeforeTimeout == Spec => TimeoutMeansSilence
<1> DEFINE Silence ==
       res'.stats.timeouts > res.stats.timeouts =>
         timed /\ asked.no > 0 /\ now - asked.at > TIMEOUT
<1>1. Inv /\ [Next]_vars => [Silence]_vars
  <2> SUFFICES ASSUME Inv, Next PROVE Silence
    OBVIOUS
  <2>0. res.stats.timeouts \in Nat
    BY Numbers
  <2>1. ASSUME NEW family \in Family, Ask(family) PROVE Silence
    BY <2>0, <2>1 DEF Ask
  <2>2. ASSUME NEW f \in wire, NEW left \in Left(f), NEW answer \in Answers(f.family),
               DeliverRequest(f, left, answer)
        PROVE  Silence
    BY <2>0, <2>2, DeliverRequestStep
  <2>3. ASSUME NEW f \in wire, NEW left \in Left(f), DeliverReply(f, left) PROVE Silence
    BY <2>0, <2>3 DEF DeliverReply
  <2>4. ASSUME NEW f \in wire, Lose(f) PROVE Silence
    BY <2>0, <2>4 DEF Lose
  <2>5. CASE Process
    <3>1. CASE ~Expired(res, now)
      BY <2>0, <2>5, <3>1, ProcessStep
    <3>2. CASE Expired(res, now)
      <4>1. res.waiting /\ res.send_ts # 0 /\ now > res.send_ts + TIMEOUT
        BY <3>2 DEF Expired
      <4>2. timed /\ asked.no > 0 /\ res.send_ts = asked.at
        BY <4>1 DEF Inv, TypeOK, PendingIsLast
      <4>3. now \in Int /\ asked.at \in Int /\ TIMEOUT \in Int
        BY ArpingAssumption DEF Inv, TypeOK
      <4> QED
        BY <4>1, <4>2, <4>3
    <3> QED
      BY <3>1, <3>2
  <2>6. CASE TakeReply
    BY <2>0, <2>6 DEF TakeReply
  <2>7. CASE TakeTimeout
    BY <2>0, <2>7, TakeTimeoutStep
  <2>8. CASE ResetRequester
    BY <2>0, <2>8 DEF ResetRequester
  <2>9. CASE ResetResponder
    BY <2>0, <2>9, ResetResponderStep
  <2>10. CASE Tick
    BY <2>0, <2>10 DEF Tick
  <2> QED
    BY <2>1, <2>2, <2>3, <2>4, <2>5, <2>6, <2>7, <2>8, <2>9, <2>10 DEF Next
<1> QED
  BY <1>1, InvAlways, PTL DEF Spec, TimeoutMeansSilence
=============================================================================
