----------------------------- MODULE PingProofs -----------------------------
(***************************************************************************)
(* The safety properties of Ping for every queue size, clock bound,        *)
(* timeout and set of sequence numbers.                                    *)
(*                                                                         *)
(* Inv is inductive.  LossIsAllOrNothing is not without RoleBooks, which   *)
(* keeps replies out of a responder and timeouts out of a requester, and   *)
(* without the bounds of the counters, below which the product of the loss *)
(* does not wrap.  TimeoutIsDue needs PendingIsLastRequest, which ties the *)
(* pending slot to the request that filled it, and SlotIsAsOldAsLastStamp, *)
(* which ties its age to the last stamped request.                         *)
(***************************************************************************)
EXTENDS Ping, ContextProofs

\* Each counter of answers is within its bound, and samples are replies.
CountsBounded ==
  /\ stats.replies <= MaxCount
  /\ stats.count_lat = stats.replies
  /\ stats.sum_lat = UntimedLatency * stats.count_lat

ReplyEvents == {ReplyEvent(seq, UntimedLatency) : seq \in SeqNo}
TimeoutEvents == {TimeoutEvent(seq) : seq \in SeqNo \cup {0}}

\* A context keeps the books of one role: only a responder's branch sets
\* send_ts and waiting, and only a requester's counts and queues replies.
RoleBooks ==
  /\ role = REQUESTER =>
       /\ ~waiting /\ send_ts = 0 /\ stats.timeouts = 0
       /\ \A i \in 1..ring.cnt : Contents(ring)[i] \in ReplyEvents
  /\ role = RESPONDER =>
       /\ stats.replies = 0
       /\ \A i \in 1..ring.cnt : Contents(ring)[i] \in TimeoutEvents

\* What is pending is judged by the stamp of the last stamped request, also
\* when that came before a reset.
SlotIsAsOldAsLastStamp == send_ts = asked.stamp

Inv == /\ TypeOK
       /\ CountsBounded
       /\ RoleBooks
       /\ OneTimeoutPerRequest
       /\ PendingIsLastRequest
       /\ SlotIsAsOldAsLastStamp

LEMMA EventTypes ==
  /\ ZeroEvent \in Event
  /\ \A seq \in SeqNo, lat \in Word : ReplyEvent(seq, lat) \in Event
  /\ \A seq \in SeqNo \cup {0} : TimeoutEvent(seq) \in Event
  BY WordAssumption DEF Event, ZeroEvent, ReplyEvent, TimeoutEvent, Word

LEMMA NoRequestOK ==
  /\ NoRequest \in Requests
  /\ asked \in Requests => AskedNothing \in Requests
  BY PingAssumption DEF NoRequest, AskedNothing, Requests

LEMMA AskedAgainOK ==
  ASSUME asked \in Requests, NEW seq \in SeqNo, NEW ts \in 0..MaxNow, asked.no < MaxCount
  PROVE  AskedAgain(seq, ts) \in Requests
  BY PingAssumption DEF AskedAgain, Requests

LEMMA InitInv == Init => Inv
<1> SUFFICES ASSUME Init PROVE Inv
  OBVIOUS
<1>1. PICK r \in Role, size \in QueueSizes : ping_create_with_config(r, size)
  BY DEF Init
<1>2. ring = qinit(Allocated(ZeroEvent), size) /\ size \in Nat
  BY <1>1, PingAssumption DEF ping_create_with_config
<1>3. ring \in Rings(Event) /\ RingOK(ring) /\ ring.cnt = 0
  BY <1>2, InitOK, AllocatedRaw, EventTypes
<1>4. stats \in Counters /\ stats = ZeroStats
  BY <1>1, ZeroStatsOK DEF ping_create_with_config
<1>5. TypeOK
  <2>1. role \in Role /\ last_seq = 0 /\ send_ts = 0 /\ waiting = FALSE
    BY <1>1 DEF ping_create_with_config
  <2>2. now = 0 /\ ev \in Event /\ asked = NoRequest
    BY EventTypes DEF Init
  <2>3. send_ts \in 0..MaxNow
    BY <2>1, PingAssumption
  <2>4. /\ now \in 0..MaxNow
        /\ asked \in Requests
    BY <2>2, NoRequestOK, PingAssumption
  <2>5. last_seq \in SeqNo \cup {0}
    BY <2>1
  <2>6. waiting \in BOOLEAN
    BY <2>1
  <2> QED
    BY <1>3, <1>4, <2>1, <2>2, <2>3, <2>4, <2>5, <2>6 DEF TypeOK
<1>6. CountsBounded
  BY <1>4, PingAssumption DEF CountsBounded, ZeroStats, UntimedLatency
<1>7. RoleBooks
  BY <1>1, <1>3, <1>4 DEF RoleBooks, ping_create_with_config, ZeroStats
<1>8. OneTimeoutPerRequest /\ PendingIsLastRequest /\ SlotIsAsOldAsLastStamp
  BY <1>1, <1>4 DEF Init, ping_create_with_config, OneTimeoutPerRequest,
                    PendingIsLastRequest, SlotIsAsOldAsLastStamp, ZeroStats, NoRequest
<1> QED
  BY <1>5, <1>6, <1>7, <1>8 DEF Inv

LEMMA ReplyStep ==
  ASSUME Inv, NEW seq \in SeqNo, NEW ts \in 0..now, FeedEchoReply(seq, ts)
  PROVE  Inv'
<1> DEFINE lat == Latency(send_ts, ts)
<1>1. /\ role = REQUESTER /\ send_ts = 0 /\ stats.timeouts = 0 /\ ~waiting
      /\ stats.replies < MaxCount
      /\ ring' = qpush(ring, ReplyEvent(seq, lat))
      /\ stats' = CountReply(stats, lat)
      /\ waiting' = FALSE
      /\ UNCHANGED <<role, last_seq, send_ts, now, ev, asked>>
  BY DEF FeedEchoReply, Inv, RoleBooks
<1>2. lat \in Word /\ lat = UntimedLatency
  BY <1>1, LatencyOK DEF Inv, TypeOK
<1>3. ReplyEvent(seq, lat) \in Event /\ ReplyEvent(seq, lat) \in ReplyEvents
  BY <1>2, EventTypes DEF ReplyEvents
<1>4. ring \in Rings(Event) /\ RingOK(ring) /\ stats \in Counters
  BY DEF Inv, TypeOK
<1>5. ring' \in Rings(Event) /\ RingOK(ring')
  BY <1>1, <1>3, <1>4, PushOK
<1>6. /\ stats.replies \in Nat /\ stats.count_lat = stats.replies
      /\ stats.sum_lat = 5 * stats.replies /\ MaxCount * 100 < U32
      /\ MaxCount \in Nat /\ U32 \in Nat
  BY <1>4, PingAssumption, WordAssumption
     DEF Inv, CountsBounded, Counters, Word, UntimedLatency
<1>7. /\ stats.replies + 1 < U32 /\ stats.count_lat + 1 < U32
      /\ stats.sum_lat + lat < U32
  BY <1>1, <1>2, <1>6 DEF UntimedLatency
<1>8. /\ stats' \in Counters
      /\ stats'.replies = stats.replies + 1
      /\ stats'.count_lat = stats.count_lat + 1
      /\ stats'.sum_lat = stats.sum_lat + lat
      /\ stats'.timeouts = stats.timeouts
  BY <1>1, <1>2, <1>4, <1>7, CountReplyOK
<1>9. TypeOK'
  BY <1>1, <1>5, <1>8 DEF Inv, TypeOK
<1>10. CountsBounded'
  BY <1>1, <1>2, <1>6, <1>8 DEF CountsBounded, UntimedLatency
<1>11. \A i \in 1..ring'.cnt : Contents(ring')[i] \in ReplyEvents
  BY <1>1, <1>3, <1>4, PushKeeps DEF Inv, RoleBooks
<1>12. RoleBooks'
  BY <1>1, <1>8, <1>11 DEF RoleBooks, REQUESTER, RESPONDER, ReplyEvents
<1>13. OneTimeoutPerRequest' /\ PendingIsLastRequest' /\ SlotIsAsOldAsLastStamp'
  BY <1>1, <1>8 DEF Inv, TypeOK, OneTimeoutPerRequest, PendingIsLastRequest,
                    SlotIsAsOldAsLastStamp
<1> QED
  BY <1>9, <1>10, <1>12, <1>13 DEF Inv

LEMMA RequestStep ==
  ASSUME Inv, NEW seq \in SeqNo, NEW ts \in 0..now, FeedEchoRequest(seq, ts)
  PROVE  Inv'
<1>1. /\ role = RESPONDER /\ asked.no < MaxCount
      /\ last_seq' = seq /\ waiting' = TRUE
      /\ send_ts' = IF ts # 0 THEN ts ELSE send_ts
      /\ asked' = AskedAgain(seq, ts)
      /\ UNCHANGED <<role, ring, stats, now, ev>>
  BY DEF FeedEchoRequest, MayAsk
<1>2. /\ asked.no \in Nat /\ now \in 0..MaxNow /\ MaxNow \in Nat /\ ts \in 0..MaxNow
      /\ stats.timeouts \in Nat
  BY PingAssumption, WordAssumption DEF Inv, TypeOK, Requests, Counters, Word
<1>3. TypeOK'
  <2>1. asked' \in Requests
    BY <1>1, <1>2, AskedAgainOK DEF Inv, TypeOK
  <2> QED
    BY <1>1, <1>2, <2>1, PingAssumption DEF Inv, TypeOK
<1>4. CountsBounded'
  BY <1>1 DEF Inv, CountsBounded
<1>5. RoleBooks'
  BY <1>1 DEF Inv, RoleBooks, REQUESTER, RESPONDER, ReplyEvents, TimeoutEvents
<1>6. OneTimeoutPerRequest'
  BY <1>1, <1>2 DEF Inv, OneTimeoutPerRequest, AskedAgain
<1>7. PendingIsLastRequest' /\ SlotIsAsOldAsLastStamp'
  BY <1>1, <1>2 DEF Inv, PendingIsLastRequest, SlotIsAsOldAsLastStamp, AskedAgain
<1> QED
  BY <1>3, <1>4, <1>5, <1>6, <1>7 DEF Inv

LEMMA ProcessStep ==
  ASSUME Inv, ping_process(now)
  PROVE  Inv'
<1>1. /\ waiting /\ ring' = qpush(ring, TimeoutEvent(last_seq))
      /\ stats' = CountTimeout(stats) /\ waiting' = FALSE
      /\ UNCHANGED <<role, last_seq, send_ts, now, ev, asked>>
  BY DEF ping_process, Expired
<1>2. ring \in Rings(Event) /\ RingOK(ring) /\ stats \in Counters
  BY DEF Inv, TypeOK
<1>3. TimeoutEvent(last_seq) \in Event /\ TimeoutEvent(last_seq) \in TimeoutEvents
  BY EventTypes DEF TimeoutEvents, Inv, TypeOK
<1>4. ring' \in Rings(Event) /\ RingOK(ring')
  BY <1>1, <1>2, <1>3, PushOK
<1>5. /\ stats.timeouts \in Nat /\ asked.no \in Nat /\ asked.no <= MaxCount
      /\ stats.timeouts + 1 <= asked.no /\ MaxCount \in Nat /\ U32 \in Nat
      /\ MaxCount * 100 < U32
  BY <1>1, <1>2, PingAssumption, WordAssumption
     DEF Inv, TypeOK, Requests, OneTimeoutPerRequest, Counters, Word
<1>6. stats.timeouts + 1 < U32
  BY <1>5
<1>7. /\ stats' \in Counters
      /\ stats'.timeouts = stats.timeouts + 1
      /\ stats'.replies = stats.replies
      /\ stats'.count_lat = stats.count_lat
      /\ stats'.sum_lat = stats.sum_lat
  BY <1>1, <1>2, <1>6, CountTimeoutOK
<1>8. TypeOK'
  BY <1>1, <1>4, <1>7 DEF Inv, TypeOK
<1>9. CountsBounded'
  BY <1>7 DEF Inv, CountsBounded
<1>10. role = RESPONDER
  BY <1>1 DEF Inv, RoleBooks, TypeOK, Role
<1>11. \A i \in 1..ring'.cnt : Contents(ring')[i] \in TimeoutEvents
  BY <1>1, <1>2, <1>3, <1>10, PushKeeps DEF Inv, RoleBooks
<1>12. RoleBooks'
  BY <1>1, <1>7, <1>10, <1>11 DEF Inv, RoleBooks, REQUESTER, RESPONDER, TimeoutEvents
<1>13. OneTimeoutPerRequest'
  BY <1>1, <1>5, <1>7 DEF OneTimeoutPerRequest
<1>14. PendingIsLastRequest' /\ SlotIsAsOldAsLastStamp'
  BY <1>1 DEF Inv, PendingIsLastRequest, SlotIsAsOldAsLastStamp
<1> QED
  BY <1>8, <1>9, <1>12, <1>13, <1>14 DEF Inv

LEMMA NextEventStep ==
  ASSUME Inv, ping_next_event
  PROVE  Inv'
<1>1. /\ ring' = qpop(ring)
      /\ ev' = IF ring.cnt = 0 THEN ev ELSE Oldest(ring)
      /\ UNCHANGED <<role, last_seq, send_ts, waiting, stats, now, asked>>
  BY DEF ping_next_event
<1>2. ring \in Rings(Event) /\ RingOK(ring) /\ ev \in Event
  BY DEF Inv, TypeOK
<1>3. ring' \in Rings(Event) /\ RingOK(ring') /\ ev' \in Event
  BY <1>1, <1>2, PopOK, PopEmpty
<1>4. TypeOK'
  BY <1>1, <1>3 DEF Inv, TypeOK
<1>5. CountsBounded'
  BY <1>1 DEF Inv, CountsBounded
<1>6. role = REQUESTER => \A i \in 1..ring'.cnt : Contents(ring')[i] \in ReplyEvents
  BY <1>1, <1>2, PopKeeps DEF Inv, RoleBooks
<1>7. role = RESPONDER => \A i \in 1..ring'.cnt : Contents(ring')[i] \in TimeoutEvents
  BY <1>1, <1>2, PopKeeps DEF Inv, RoleBooks
<1>8. RoleBooks'
  BY <1>1, <1>6, <1>7 DEF Inv, RoleBooks, ReplyEvents, TimeoutEvents
<1>9. OneTimeoutPerRequest' /\ PendingIsLastRequest' /\ SlotIsAsOldAsLastStamp'
  BY <1>1 DEF Inv, OneTimeoutPerRequest, PendingIsLastRequest, SlotIsAsOldAsLastStamp
<1> QED
  BY <1>4, <1>5, <1>8, <1>9 DEF Inv

LEMMA ResetStep ==
  ASSUME Inv, ping_reset
  PROVE  Inv'
<1>1. /\ ring' = qinit(ring, ring.qsz) /\ stats' = ZeroStats
      /\ waiting' = FALSE /\ asked' = AskedNothing
      /\ UNCHANGED <<role, last_seq, send_ts, now, ev>>
  BY DEF ping_reset
<1>2. ring \in RawRings(Event) /\ ring.qsz \in Nat
  BY RingIsRaw DEF Inv, TypeOK, RawRings
<1>3. ring' \in Rings(Event) /\ RingOK(ring') /\ ring'.cnt = 0
  BY <1>1, <1>2, InitOK
<1>4. TypeOK'
  BY <1>1, <1>3, ZeroStatsOK, NoRequestOK DEF Inv, TypeOK
<1>5. CountsBounded'
  BY <1>1, PingAssumption DEF CountsBounded, ZeroStats, UntimedLatency
<1>6. RoleBooks'
  BY <1>1, <1>3 DEF Inv, RoleBooks, ZeroStats
<1>7. OneTimeoutPerRequest' /\ PendingIsLastRequest' /\ SlotIsAsOldAsLastStamp'
  BY <1>1 DEF Inv, OneTimeoutPerRequest, PendingIsLastRequest, SlotIsAsOldAsLastStamp,
              ZeroStats, AskedNothing, NoRequest
<1> QED
  BY <1>4, <1>5, <1>6, <1>7 DEF Inv

LEMMA TickStep ==
  ASSUME Inv, Tick
  PROVE  Inv'
<1>1. /\ now' = now + 1 /\ now < MaxNow
      /\ UNCHANGED <<role, ring, last_seq, send_ts, waiting, stats, ev, asked>>
  BY DEF Tick, ctx
<1>2. TypeOK'
  BY <1>1, PingAssumption DEF Inv, TypeOK
<1>3. CountsBounded' /\ OneTimeoutPerRequest' /\ PendingIsLastRequest' /\ SlotIsAsOldAsLastStamp'
  BY <1>1 DEF Inv, CountsBounded, OneTimeoutPerRequest, PendingIsLastRequest,
              SlotIsAsOldAsLastStamp
<1>4. RoleBooks'
  BY <1>1 DEF Inv, RoleBooks, ReplyEvents, TimeoutEvents
<1> QED
  BY <1>2, <1>3, <1>4 DEF Inv

LEMMA StutterStep ==
  ASSUME Inv, UNCHANGED vars
  PROVE  Inv'
  BY DEF Inv, vars, TypeOK, CountsBounded, RoleBooks, OneTimeoutPerRequest,
         PendingIsLastRequest, SlotIsAsOldAsLastStamp, ReplyEvents, TimeoutEvents

\* Inv is inductive: the invariant every other theorem rests on.
THEOREM Inductive == Spec => []Inv
<1>1. Inv /\ [Next]_vars => Inv'
  <2> SUFFICES ASSUME Inv, [Next]_vars PROVE Inv'
    OBVIOUS
  <2>1. ASSUME NEW seq \in SeqNo, NEW ts \in 0..now, FeedEchoReply(seq, ts)
        PROVE  Inv'
    BY <2>1, ReplyStep
  <2>2. ASSUME NEW seq \in SeqNo, NEW ts \in 0..now, FeedEchoRequest(seq, ts)
        PROVE  Inv'
    BY <2>2, RequestStep
  <2>3. CASE ping_process(now)
    BY <2>3, ProcessStep
  <2>4. CASE ping_next_event
    BY <2>4, NextEventStep
  <2>5. CASE ping_reset
    BY <2>5, ResetStep
  <2>6. CASE Tick
    BY <2>6, TickStep
  <2>7. CASE UNCHANGED vars
    BY <2>7, StutterStep
  <2> QED
    BY <2>1, <2>2, <2>3, <2>4, <2>5, <2>6, <2>7 DEF Next
<1> QED
  BY InitInv, <1>1, PTL DEF Spec

\* Every variable keeps its type; in particular the indices stay in the array.
THEOREM TypeCorrect == Spec => []TypeOK
<1>1. Inv => TypeOK
  BY DEF Inv
<1> QED
  BY <1>1, Inductive, PTL

\* No request times out twice.
THEOREM TimesOutOnce == Spec => []OneTimeoutPerRequest
<1>1. Inv => OneTimeoutPerRequest
  BY DEF Inv
<1> QED
  BY <1>1, Inductive, PTL

\* What is pending is the last request.
THEOREM PendingIsLast == Spec => []PendingIsLastRequest
<1>1. Inv => PendingIsLastRequest
  BY DEF Inv
<1> QED
  BY <1>1, Inductive, PTL

\* The loss reported is all or nothing; the product that computes it does not
\* wrap because the counters are bounded.
THEOREM LossAllOrNothing == Spec => []LossIsAllOrNothing
<1>1. Inv => LossIsAllOrNothing
  <2> SUFFICES ASSUME Inv PROVE LossIsAllOrNothing
    OBVIOUS
  <2>1. PICK r \in Nat, t \in Nat : r = stats.replies /\ t = stats.timeouts
    BY WordAssumption DEF Inv, TypeOK, Counters, Word
  <2>2. r <= MaxCount /\ t <= MaxCount
    <3>1. asked.no \in 0..MaxCount
      BY DEF Inv, TypeOK, Requests
    <3> QED
      BY <2>1, <3>1, PingAssumption DEF Inv, CountsBounded, OneTimeoutPerRequest
  <2>3. r = 0 \/ t = 0
    BY <2>1 DEF Inv, RoleBooks, TypeOK, Role
  <2>4. /\ r + t \in Nat /\ r + t < U32
        /\ t * 100 \in Nat /\ t * 100 < U32
    BY <2>2, <2>3, PingAssumption, WordAssumption
  <2>5. (r + t) % U32 = r + t /\ (t * 100) % U32 = t * 100
    BY <2>4, ModWord
  <2>6. CASE t = 0
    <3>1. (t * 100) % U32 = 0
      BY <2>5, <2>6
    <3>2. r # 0 => 0 \div r = 0
      BY <2>1
    <3> QED
      BY <2>1, <2>5, <2>6, <3>1, <3>2 DEF LossIsAllOrNothing, LossPct
  <2>7. CASE t # 0
    <3>1. r = 0 /\ (t * 100) \div t = 100 /\ r + t = t
      BY <2>1, <2>3, <2>7
    <3> QED
      BY <2>1, <2>5, <2>7, <3>1 DEF LossIsAllOrNothing, LossPct
  <2> QED
    BY <2>6, <2>7
<1> QED
  BY <1>1, Inductive, PTL

\* No timeout before its time, for another request, after a reset until
\* something is asked, or for want of a stamp.
THEOREM TimesOutWhenDue == Spec => TimeoutIsDue
<1> DEFINE Due == stats'.timeouts > stats.timeouts =>
                    /\ waiting /\ ~waiting'
                    /\ asked.no > 0
                    /\ asked.stamp # 0 /\ now - asked.stamp > TIMEOUT
                    /\ ring.cnt < ring.qsz =>
                         Contents(ring')[ring'.cnt] = TimeoutEvent(asked.seq)
<1>1. Inv /\ [Next]_vars => [Due]_vars
  <2> SUFFICES ASSUME Inv, [Next]_vars PROVE Due
    OBVIOUS
  <2>0. stats \in Counters /\ stats.timeouts \in Nat
    BY WordAssumption DEF Inv, TypeOK, Counters, Word
  <2>1. ASSUME NEW seq \in SeqNo, NEW ts \in 0..now, FeedEchoReply(seq, ts)
        PROVE  Due
    <3>1. stats'.timeouts = stats.timeouts
      BY <2>1 DEF FeedEchoReply, CountReply
    <3> QED
      BY <2>0, <3>1
  <2>2. ASSUME NEW seq \in SeqNo, NEW ts \in 0..now, FeedEchoRequest(seq, ts)
        PROVE  Due
    BY <2>0, <2>2 DEF FeedEchoRequest
  <2>3. CASE ping_process(now)
    <3>1. /\ waiting /\ ~waiting' /\ send_ts # 0 /\ now > send_ts + TIMEOUT
          /\ ring' = qpush(ring, TimeoutEvent(last_seq))
      BY <2>3 DEF ping_process, Expired
    <3>2. asked.no > 0 /\ last_seq = asked.seq /\ send_ts = asked.stamp
      BY <3>1 DEF Inv, PendingIsLastRequest, SlotIsAsOldAsLastStamp
    <3>3. asked.stamp # 0 /\ now - asked.stamp > TIMEOUT
      BY <3>1, <3>2, PingAssumption DEF Inv, TypeOK
    <3>4. ASSUME ring.cnt < ring.qsz
          PROVE  Contents(ring')[ring'.cnt] = TimeoutEvent(asked.seq)
      <4>1. ring \in Rings(Event) /\ RingOK(ring) /\ TimeoutEvent(last_seq) \in Event
        BY EventTypes DEF Inv, TypeOK
      <4>2. /\ ring'.cnt = ring.cnt + 1
            /\ Contents(ring') = Append(Contents(ring), TimeoutEvent(last_seq))
        BY <3>1, <3>4, <4>1, PushRoom
      <4>3. /\ Contents(ring) \in Seq(Event) /\ Len(Contents(ring)) = ring.cnt
        BY <4>1, ContentsSeq
      <4> QED
        BY <3>2, <4>1, <4>2, <4>3, AppendProperties
    <3> QED
      BY <3>1, <3>2, <3>3, <3>4
  <2>4. CASE ping_next_event
    BY <2>0, <2>4 DEF ping_next_event
  <2>5. CASE ping_reset
    BY <2>0, <2>5 DEF ping_reset, ZeroStats
  <2>6. CASE Tick
    BY <2>0, <2>6 DEF Tick, ctx
  <2>7. CASE UNCHANGED vars
    BY <2>0, <2>7 DEF vars
  <2> QED
    BY <2>1, <2>2, <2>3, <2>4, <2>5, <2>6, <2>7 DEF Next
<1> QED
  BY <1>1, Inductive, PTL DEF Spec, TimeoutIsDue

\* One event produced: offered to the channel, kept if there is room.
LEMMA PushOffers ==
  ASSUME Inv, Inv', NEW e \in Event, ring' = qpush(ring, e), ev' = ev,
         stats'.replies + stats'.timeouts = stats.replies + stats.timeouts + 1
  PROVE  Channel!Offer
<1>1. ring \in Rings(Event) /\ RingOK(ring) /\ stats \in Counters
  BY DEF Inv, TypeOK
<1>2. /\ Contents(ring) \in Seq(Event) /\ Len(Contents(ring)) = ring.cnt
      /\ ring.cnt \in Nat /\ ring.qsz \in Nat /\ ring.cnt <= ring.qsz
  BY <1>1, ContentsSeq, RingFields
<1>3. stats.replies + stats.timeouts \in Nat
  BY <1>1, WordAssumption DEF Counters, Word
<1>4. CASE ring.cnt = ring.qsz
  <2>1. ring' = ring
    BY <1>1, <1>4, PushFull
  <2> QED
    BY <1>2, <1>3, <1>4, <2>1 DEF Channel!Offer
<1>5. CASE ring.cnt < ring.qsz
  <2>1. ring'.qsz = ring.qsz /\ Contents(ring') = Append(Contents(ring), e)
    BY <1>1, <1>5, PushRoom
  <2>2. /\ Contents(ring') \in Seq(Event)
        /\ Len(Contents(ring')) = ring.cnt + 1
        /\ \A i \in 1..ring.cnt : Contents(ring')[i] = Contents(ring)[i]
    BY <1>2, <2>1, AppendProperties
  <2> QED
    BY <1>2, <1>3, <1>5, <2>1, <2>2 DEF Channel!Offer
<1> QED
  BY <1>2, <1>4, <1>5

\* The detailed queue implements the promise of EventChannel.
THEOREM Refinement == Spec => KeepsEventPromise
<1>1. Init => Channel!Init
  <2> SUFFICES ASSUME Init PROVE Channel!Init
    OBVIOUS
  <2>1. PICK r \in Role, size \in QueueSizes : ping_create_with_config(r, size)
    BY DEF Init
  <2>2. ring = qinit(Allocated(ZeroEvent), size) /\ size \in Nat /\ stats = ZeroStats
    BY <2>1, PingAssumption DEF ping_create_with_config
  <2>3. Contents(ring) = <<>> /\ ring.qsz \in 1..MAX_Q
    BY <2>2, InitOK, AllocatedRaw, EventTypes, ClampSizeOK
  <2>4. stats.replies + stats.timeouts = 0 /\ ev \in Event
    BY <2>2, EventTypes DEF ZeroStats, Init
  <2> QED
    BY <2>3, <2>4, QueueAssumption DEF Channel!Init
<1>2. Inv /\ Inv' /\ [Next]_vars => [Channel!Next]_(Channel!vars)
  <2> SUFFICES ASSUME Inv, Inv', [Next]_vars PROVE [Channel!Next]_(Channel!vars)
    OBVIOUS
  <2>0. /\ ring \in Rings(Event) /\ RingOK(ring) /\ stats \in Counters
        /\ stats' \in Counters /\ stats.replies \in Nat /\ stats.timeouts \in Nat
    BY WordAssumption DEF Inv, TypeOK, Counters, Word
  <2>1. ASSUME NEW seq \in SeqNo, NEW ts \in 0..now, FeedEchoReply(seq, ts)
        PROVE  Channel!Next
    <3>1. Latency(send_ts, ts) \in Word
      BY LatencyOK DEF Inv, TypeOK
    <3>2. /\ stats' = CountReply(stats, Latency(send_ts, ts))
          /\ ring' = qpush(ring, ReplyEvent(seq, Latency(send_ts, ts)))
          /\ ev' = ev /\ stats.replies < MaxCount
      BY <2>1 DEF FeedEchoReply
    <3>3. stats.replies + 1 < U32
      BY <2>0, <3>2, PingAssumption, WordAssumption
    <3>4. /\ stats'.replies = stats.replies + 1
          /\ stats'.timeouts = stats.timeouts
      BY <2>0, <3>1, <3>2, <3>3, CountReplyOK
    <3>5. ReplyEvent(seq, Latency(send_ts, ts)) \in Event
      BY <3>1, EventTypes
    <3> QED
      BY <2>0, <3>2, <3>4, <3>5, PushOffers DEF Channel!Next
  <2>2. ASSUME NEW seq \in SeqNo, NEW ts \in 0..now, FeedEchoRequest(seq, ts)
        PROVE  UNCHANGED Channel!vars
    BY <2>2 DEF FeedEchoRequest, Channel!vars
  <2>3. CASE ping_process(now)
    <3>1. /\ stats' = CountTimeout(stats) /\ ev' = ev
          /\ ring' = qpush(ring, TimeoutEvent(last_seq)) /\ waiting
      BY <2>3 DEF ping_process, Expired
    <3>2. stats.timeouts + 1 <= asked.no /\ asked.no \in 0..MaxCount
      BY <3>1 DEF Inv, TypeOK, Requests, OneTimeoutPerRequest
    <3>3. stats.timeouts + 1 < U32
      BY <2>0, <3>2, PingAssumption, WordAssumption
    <3>4. /\ stats'.timeouts = stats.timeouts + 1
          /\ stats'.replies = stats.replies
      BY <2>0, <3>1, <3>3, CountTimeoutOK
    <3>5. TimeoutEvent(last_seq) \in Event
      BY EventTypes DEF Inv, TypeOK
    <3> QED
      BY <2>0, <3>1, <3>4, <3>5, PushOffers DEF Channel!Next
  <2>4. CASE ping_next_event
    <3>1. /\ ring' = qpop(ring) /\ stats' = stats
          /\ ev' = IF ring.cnt = 0 THEN ev ELSE Oldest(ring)
      BY <2>4 DEF ping_next_event
    <3>2. CASE ring.cnt = 0
      BY <3>1, <3>2, PopEmpty DEF Channel!vars
    <3>3. CASE ring.cnt # 0
      <4>1. /\ Contents(ring) # <<>> /\ Oldest(ring) = Head(Contents(ring))
            /\ Contents(ring') = Tail(Contents(ring)) /\ ring'.qsz = ring.qsz
        BY <2>0, <3>1, <3>3, PopOK
      <4> QED
        BY <3>1, <3>3, <4>1 DEF Channel!Next, Channel!Take
    <3> QED
      BY <3>2, <3>3
  <2>5. CASE ping_reset
    <3>1. ring' = qinit(ring, ring.qsz) /\ stats' = ZeroStats /\ ev' = ev
      BY <2>5 DEF ping_reset
    <3>2. ring \in RawRings(Event) /\ ring.qsz \in 1..MAX_Q /\ ring.qsz \in Nat
      BY <2>0, RingIsRaw, QueueAssumption DEF Rings
    <3>3. Contents(ring') = <<>> /\ ring'.qsz = ring.qsz
      BY <3>1, <3>2, InitOK, ClampSizeFixed
    <3>4. stats'.replies + stats'.timeouts = 0
      BY <3>1 DEF ZeroStats
    <3> QED
      BY <3>1, <3>3, <3>4 DEF Channel!Next, Channel!Clear
  <2>6. CASE Tick
    BY <2>6 DEF Tick, ctx, Channel!vars
  <2>7. CASE UNCHANGED vars
    BY <2>7 DEF vars, Channel!vars
  <2> QED
    BY <2>1, <2>2, <2>3, <2>4, <2>5, <2>6, <2>7 DEF Next
<1> QED
  BY <1>1, <1>2, Inductive, PTL DEF Spec, Channel!Spec, KeepsEventPromise
=============================================================================
