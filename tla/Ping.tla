-------------------------------- MODULE Ping --------------------------------
(***************************************************************************)
(* One ping context (src/src/ping.c) and the caller that drives it: the    *)
(* caller feeds it ICMP packets with an optional capture time, tells it    *)
(* the time (ping_process), takes events out of it and resets it.  The     *)
(* library is single threaded and passive, so a behaviour is a sequence of *)
(* API calls in an order the caller chooses, and of ticks of its clock.    *)
(*                                                                         *)
(* A packet is what ping_feed_input_with_ts reads of it: its kind (type    *)
(* byte 0/129 or 8/128) and its sequence number.  Packets that are too     *)
(* short or that the role ignores change nothing and are left out.         *)
(***************************************************************************)
EXTENDS EventRing, DiagStats

CONSTANTS
  SeqNo,       \* ICMP sequence numbers seen on the wire
  QueueSizes,  \* configured event_queue_size values; 0 also stands for cfg = NULL
  TIMEOUT,     \* 1000 ms in the code
  MaxNow,      \* bound of the caller's clock
  MaxCount     \* bound of the replies, and of the requests, between two resets

ASSUME PingAssumption ==
  /\ SeqNo \subseteq Nat
  /\ QueueSizes \subseteq Nat
  /\ TIMEOUT \in Nat
  /\ MaxNow \in Nat /\ MaxNow < U32
  /\ MaxCount \in Nat /\ MaxCount * 100 < U32

REQUESTER == "NETDIAG_ROLE_REQUESTER"
RESPONDER == "NETDIAG_ROLE_RESPONDER"
Role == {REQUESTER, RESPONDER}

\* The fields of netdiag_event_t that ping writes; reason only repeats type.
Event == [type : {"NONE", "PING_REPLY", "PING_TIMEOUT"},
          seq : SeqNo \cup {0}, latency_ms : Word]

ZeroEvent == [type |-> "NONE", seq |-> 0, latency_ms |-> 0]
ReplyEvent(seq, lat) == [type |-> "PING_REPLY", seq |-> seq, latency_ms |-> lat]
TimeoutEvent(seq) == [type |-> "PING_TIMEOUT", seq |-> seq, latency_ms |-> 0]

VARIABLES
  role, ring, last_seq, send_ts, waiting, stats,  \* struct ping_ctx
  now,    \* the caller's clock, in the unit of TIMEOUT
  ev,     \* the caller's netdiag_event_t, the argument of ping_next_event
  asked   \* history: the last echo request since creation or reset:
          \*   no: how many there were, seq, at: its time, 0 if not stamped,
          \*   stamp: the time of the last stamped one since creation, 0 if none

ctx == <<role, ring, last_seq, send_ts, waiting, stats>>
vars == <<role, ring, last_seq, send_ts, waiting, stats, now, ev, asked>>

NoRequest == [no |-> 0, seq |-> 0, at |-> 0, stamp |-> 0]
Requests == [no : 0..MaxCount, seq : SeqNo \cup {0}, at : 0..MaxNow, stamp : 0..MaxNow]

TypeOK ==
  /\ role \in Role
  /\ ring \in Rings(Event) /\ RingOK(ring)
  /\ last_seq \in SeqNo \cup {0}
  /\ send_ts \in 0..MaxNow
  /\ waiting \in BOOLEAN
  /\ stats \in Counters
  /\ now \in 0..MaxNow
  /\ ev \in Event
  /\ asked \in Requests

----------------------------------------------------------------------------
\* calloc, then qinit with the configured size.
ping_create_with_config(r, size) ==
  /\ role = r
  /\ ring = qinit(Allocated(ZeroEvent), size)
  /\ last_seq = 0 /\ send_ts = 0 /\ waiting = FALSE
  /\ stats = ZeroStats

Init ==
  /\ \E r \in Role, size \in QueueSizes : ping_create_with_config(r, size)
  /\ now = 0
  /\ ev = ZeroEvent
  /\ asked = NoRequest

(* Mutant: the answer is queued twice when there is room. *)
PushTwice(seq, ts) ==
  /\ role = REQUESTER
  /\ stats.replies < MaxCount
  /\ ring' = qpush(qpush(ring, ReplyEvent(seq, Latency(send_ts, ts))), ReplyEvent(seq, 0))
  /\ stats' = CountReply(stats, Latency(send_ts, ts))
  /\ waiting' = FALSE
  /\ UNCHANGED <<role, last_seq, send_ts, now, ev, asked>>

\* Echo reply fed to a requester at time ts (0: no timestamp).
FeedEchoReply(seq, ts) ==
  /\ role = REQUESTER
  /\ stats.replies < MaxCount
  /\ LET lat == Latency(send_ts, ts)
     IN  /\ ring' = qpush(ring, ReplyEvent(seq, lat))
         /\ stats' = CountReply(stats, lat)
  /\ waiting' = FALSE
  /\ UNCHANGED <<role, last_seq, send_ts, now, ev, asked>>

\* Bounds of the model: so many requests, and time for the last to run out.
MayAsk(ts) == asked.no < MaxCount /\ (ts # 0 => now + TIMEOUT < MaxNow)

\* The history of requests after one more, and after a reset.
AskedAgain(seq, ts) ==
  [no |-> asked.no + 1, seq |-> seq, at |-> ts,
   stamp |-> IF ts # 0 THEN ts ELSE asked.stamp]
AskedNothing == [NoRequest EXCEPT !.stamp = asked.stamp]

(* Mutant: a request that comes while one is pending keeps the old number. *)
KeepOldSeq(seq, ts) ==
  /\ role = RESPONDER
  /\ MayAsk(ts)
  /\ last_seq' = IF waiting THEN last_seq ELSE seq
  /\ send_ts' = IF ts # 0 THEN ts ELSE send_ts
  /\ waiting' = TRUE
  /\ asked' = AskedAgain(seq, ts)
  /\ UNCHANGED <<role, ring, stats, now, ev>>

\* Echo request fed to a responder: the single pending slot is overwritten.
\* Without a timestamp the old send_ts stays.
FeedEchoRequest(seq, ts) ==
  /\ role = RESPONDER
  /\ MayAsk(ts)
  /\ last_seq' = seq
  /\ send_ts' = IF ts # 0 THEN ts ELSE send_ts
  /\ waiting' = TRUE
  /\ asked' = AskedAgain(seq, ts)
  /\ UNCHANGED <<role, ring, stats, now, ev>>

(* Mutant: only a requester's request can time out. *)
RequesterExpired(ts) ==
  role = REQUESTER /\ waiting /\ send_ts # 0 /\ ts > send_ts + TIMEOUT

(* Mutant: a request that nothing stamped is as old as the clock. *)
UnstampedExpired(ts) == waiting /\ ts > send_ts + TIMEOUT

Expired(ts) == waiting /\ send_ts # 0 /\ ts > send_ts + TIMEOUT

\* ping_process(ts); a call that finds nothing expired changes nothing.
ping_process(ts) ==
  /\ Expired(ts)
  /\ ring' = qpush(ring, TimeoutEvent(last_seq))
  /\ stats' = CountTimeout(stats)
  /\ waiting' = FALSE
  /\ UNCHANGED <<role, last_seq, send_ts, now, ev, asked>>

\* ping_next_event: an empty queue returns 0 and leaves *e as it was.
ping_next_event ==
  /\ ring' = qpop(ring)
  /\ ev' = IF ring.cnt = 0 THEN ev ELSE Oldest(ring)
  /\ UNCHANGED <<role, last_seq, send_ts, waiting, stats, now, asked>>

(* Mutant: reset forgets that a request is pending. *)
ResetKeepsWaiting ==
  /\ ring' = qinit(ring, ring.qsz)
  /\ stats' = ZeroStats
  /\ asked' = AskedNothing
  /\ UNCHANGED <<role, last_seq, send_ts, waiting, now, ev>>

\* ping_reset: qinit with the size in use; last_seq and send_ts stay.
ping_reset ==
  /\ ring' = qinit(ring, ring.qsz)
  /\ stats' = ZeroStats
  /\ waiting' = FALSE
  /\ asked' = AskedNothing
  /\ UNCHANGED <<role, last_seq, send_ts, now, ev>>

Tick ==
  /\ now < MaxNow
  /\ now' = now + 1
  /\ UNCHANGED <<ctx, ev, asked>>

\* A packet's capture time is not after the call that feeds it; 0: none.
Next ==
  \/ \E seq \in SeqNo, ts \in 0..now : FeedEchoReply(seq, ts)
  \/ \E seq \in SeqNo, ts \in 0..now : FeedEchoRequest(seq, ts)
  \/ ping_process(now)
  \/ ping_next_event
  \/ ping_reset
  \/ Tick

Spec == Init /\ [][Next]_vars

(* The documented duty of the caller (ARCHITECTURE.md): time goes on, it   *)
(* calls process with the current time, and it drains the queue.           *)
Fairness == WF_vars(Tick) /\ WF_vars(ping_process(now)) /\ WF_vars(ping_next_event)

FairSpec == Spec /\ Fairness

----------------------------------------------------------------------------
(* A request times out at most once, however often process is called,      *)
(* whatever is asked in between and across resets: the timeouts counted    *)
(* and the request still pending are no more than the requests.            *)
OneTimeoutPerRequest ==
  stats.timeouts + (IF waiting THEN 1 ELSE 0) <= asked.no

(* The pending slot describes the last request: its number and, when it    *)
(* was stamped, its time.                                                  *)
PendingIsLastRequest ==
  waiting => /\ asked.no > 0
             /\ last_seq = asked.seq
             /\ asked.at # 0 => send_ts = asked.at

(* Each context sees one half of what a loss is made of, so the loss it    *)
(* reports is all or nothing: a requester has replies and no timeouts, a   *)
(* responder timeouts and no replies.                                      *)
LossIsAllOrNothing == LossPct(stats) = IF stats.timeouts = 0 THEN 0 ELSE 100

(* No step reports a timeout before the last stamped request is older than *)
(* TIMEOUT, nor for another request than the last, nor after a reset until *)
(* something is asked again.  A request without a stamp is as old as the   *)
(* last stamped one before it, also one from before a reset, and never     *)
(* times out when there is none.                                           *)
TimeoutIsDue ==
  [][stats'.timeouts > stats.timeouts =>
       /\ waiting /\ ~waiting'
       /\ asked.no > 0
       /\ asked.stamp # 0 /\ now - asked.stamp > TIMEOUT
       /\ ring.cnt < ring.qsz =>
            Contents(ring')[ring'.cnt] = TimeoutEvent(asked.seq)]_vars

(* The queue keeps the promise of EventChannel: what ping produced comes   *)
(* out in order, once and unaltered, and only the newest are lost.         *)
Channel == INSTANCE EventChannel WITH
  capacity <- ring.qsz, items <- Contents(ring),
  produced <- stats.replies + stats.timeouts, out <- ev

KeepsEventPromise == Channel!Spec

(* A stamped request that stays the last one is answered for: it times     *)
(* out, unless the caller asks again or resets first.                      *)
StampedRequestResolves ==
  \A n \in 1..MaxCount :
    (waiting /\ asked.at # 0 /\ asked.no = n) ~> (~waiting \/ asked.no # n)

(* A caller that keeps taking events makes room: the queue does not refuse *)
(* new events for ever.                                                    *)
FullQueueRecovers == (ring.cnt = ring.qsz) ~> (ring.cnt < ring.qsz)
=============================================================================
