------------------------------ MODULE DnsDiag ------------------------------
(***************************************************************************)
(* One DNS diagnostic context (src/src/dnsdiag.c) and its caller.  A       *)
(* requester reports the responses it is fed and those that carry an error *)
(* code; a responder keeps the last message as a pending query.  process   *)
(* does nothing and has no action.                                         *)
(*                                                                         *)
(* A message is what dnsdiag_feed_input_with_ts reads of it: its ID, the   *)
(* QR bit and the RCODE.  One of less than 12 bytes changes nothing.       *)
(***************************************************************************)
EXTENDS EventRing, DiagStats, FiniteSets

CONSTANTS
  Id,          \* DNS IDs seen on the wire
  Rcode,       \* RCODE values; 0 is success
  QueueSizes,  \* configured event_queue_size values; 0 also stands for cfg = NULL
  MaxNow,      \* bound of the caller's clock
  MaxCount     \* bound of the messages between two resets

ASSUME DnsDiagAssumption ==
  /\ Id \subseteq Nat
  /\ Rcode \subseteq 0..15
  /\ QueueSizes \subseteq Nat
  /\ MaxNow \in Nat /\ MaxNow < U32
  /\ MaxCount \in Nat /\ MaxCount * 100 < U32

REQUESTER == "NETDIAG_ROLE_REQUESTER"
RESPONDER == "NETDIAG_ROLE_RESPONDER"
Role == {REQUESTER, RESPONDER}

Message == [id : Id, qr : BOOLEAN, rcode : Rcode]

\* The fields of netdiag_event_t that dnsdiag writes; reason is the code.
Event == [type : {"NONE", "DNS_REPLY", "FAULT_DETECTED"}, seq : Id \cup {0},
          latency_ms : Word, reason : Rcode \cup {0}]

ZeroEvent == [type |-> "NONE", seq |-> 0, latency_ms |-> 0, reason |-> 0]
FaultEvent(seq, rcode) ==
  [type |-> "FAULT_DETECTED", seq |-> seq, latency_ms |-> 0, reason |-> rcode]
ReplyEvent(seq, lat) ==
  [type |-> "DNS_REPLY", seq |-> seq, latency_ms |-> lat, reason |-> 0]

VARIABLES
  role, ring, last_seq, send_ts, waiting, stats,  \* struct dnsdiag_ctx
  now,  \* the caller's clock
  ev,   \* the caller's netdiag_event_t, the argument of dnsdiag_next_event
  fed,  \* history: the messages since creation or reset, oldest first
  taken \* history: what the events taken since then told, oldest first

vars == <<role, ring, last_seq, send_ts, waiting, stats, now, ev, fed, taken>>

\* What an event tells of a message, and what there is to tell of one.
Report == [type : {"NONE", "DNS_REPLY", "FAULT_DETECTED"}, reason : Rcode \cup {0}]

Tells(e) == [type |-> e.type, reason |-> e.reason]

Outcome(msg) ==
  [type |-> CASE msg.rcode # 0 -> "FAULT_DETECTED"
              [] msg.rcode = 0 /\ msg.qr -> "DNS_REPLY"
              [] OTHER -> "NONE",
   reason |-> msg.rcode]

TypeOK ==
  /\ role \in Role
  /\ ring \in Rings(Event) /\ RingOK(ring)
  /\ last_seq \in Id \cup {0}
  /\ send_ts \in 0..MaxNow
  /\ waiting \in BOOLEAN
  /\ stats \in Counters
  /\ now \in 0..MaxNow
  /\ ev \in Event
  /\ fed \in Seq(Message) /\ Len(fed) <= MaxCount
  /\ taken \in Seq(Report)

----------------------------------------------------------------------------
\* calloc, then qinit with the configured size.
dnsdiag_create_with_config(r, size) ==
  /\ role = r
  /\ ring = qinit(Allocated(ZeroEvent), size)
  /\ last_seq = 0 /\ send_ts = 0 /\ waiting = FALSE
  /\ stats = ZeroStats

Init ==
  /\ \E r \in Role, size \in QueueSizes : dnsdiag_create_with_config(r, size)
  /\ now = 0 /\ ev = ZeroEvent
  /\ fed = <<>> /\ taken = <<>>

\* Every message, whatever the role makes of it, leaves its time in send_ts.
Stamp(ts) == IF ts # 0 THEN ts ELSE send_ts

Feed(msg, ts) ==
  /\ Len(fed) < MaxCount
  /\ fed' = Append(fed, msg)
  /\ send_ts' = Stamp(ts)
  /\ UNCHANGED <<role, now, ev, taken>>

(* Mutant: only a fault that is queued is counted. *)
CountQueuedFaults(msg, ts) ==
  /\ role = REQUESTER /\ msg.rcode # 0
  /\ Feed(msg, ts)
  /\ ring' = qpush(ring, FaultEvent(last_seq, msg.rcode))
  /\ stats' = IF ring.cnt < ring.qsz THEN CountTimeout(stats) ELSE stats
  /\ waiting' = FALSE
  /\ UNCHANGED last_seq

\* An error code is a fault to a requester, in a query as well.
FeedFault(msg, ts) ==
  /\ role = REQUESTER /\ msg.rcode # 0
  /\ Feed(msg, ts)
  /\ ring' = qpush(ring, FaultEvent(last_seq, msg.rcode))
  /\ stats' = CountTimeout(stats)
  /\ waiting' = FALSE
  /\ UNCHANGED last_seq

(* Mutant: the QR bit is looked at before the code. *)
ReplyBeforeCode(msg, ts) ==
  /\ role = REQUESTER /\ msg.qr
  /\ Feed(msg, ts)
  /\ LET lat == Latency(Stamp(ts), ts)
     IN  /\ ring' = qpush(ring, ReplyEvent(last_seq, lat))
         /\ stats' = CountReply(stats, lat)
  /\ waiting' = FALSE
  /\ UNCHANGED last_seq

\* A response is timed against the stamp it has just left itself.
FeedReply(msg, ts) ==
  /\ role = REQUESTER /\ msg.rcode = 0 /\ msg.qr
  /\ Feed(msg, ts)
  /\ LET lat == Latency(Stamp(ts), ts)
     IN  /\ ring' = qpush(ring, ReplyEvent(last_seq, lat))
         /\ stats' = CountReply(stats, lat)
  /\ waiting' = FALSE
  /\ UNCHANGED last_seq

\* A query without an error only leaves its time in a requester.
FeedIgnored(msg, ts) ==
  /\ role = REQUESTER /\ msg.rcode = 0 /\ ~msg.qr
  /\ Feed(msg, ts)
  /\ UNCHANGED <<ring, last_seq, waiting, stats>>

\* To a responder every message is a query, responses and failures too.
FeedQuery(msg, ts) ==
  /\ role = RESPONDER
  /\ Feed(msg, ts)
  /\ last_seq' = msg.id
  /\ waiting' = TRUE
  /\ UNCHANGED <<ring, stats>>

\* An empty queue returns 0 and leaves *e as it was.
dnsdiag_next_event ==
  /\ ring.cnt > 0
  /\ ring' = qpop(ring)
  /\ ev' = Oldest(ring)
  /\ taken' = Append(taken, Tells(Oldest(ring)))
  /\ UNCHANGED <<role, last_seq, send_ts, waiting, stats, now, fed>>

\* dnsdiag_reset: qinit with the size in use; last_seq and send_ts stay.
dnsdiag_reset ==
  /\ ring' = qinit(ring, ring.qsz)
  /\ stats' = ZeroStats
  /\ waiting' = FALSE
  /\ fed' = <<>> /\ taken' = <<>>
  /\ UNCHANGED <<role, last_seq, send_ts, now, ev>>

Tick ==
  /\ now < MaxNow
  /\ now' = now + 1
  /\ UNCHANGED <<role, ring, last_seq, send_ts, waiting, stats, ev, fed, taken>>

\* A message's capture time is not after the call that feeds it; 0: none.
Next ==
  \/ \E msg \in Message, ts \in 0..now :
       FeedFault(msg, ts) \/ FeedReply(msg, ts) \/ FeedIgnored(msg, ts) \/ FeedQuery(msg, ts)
  \/ dnsdiag_next_event
  \/ dnsdiag_reset
  \/ Tick

Spec == Init /\ [][Next]_vars

----------------------------------------------------------------------------
(* The counters of a requester are those of the wire since the last reset: *)
(* every message with an error code is one timeout and every other         *)
(* response one reply, also when the queue lost the event; a responder     *)
(* counts nothing.                                                         *)
BooksMatchTheWire ==
  LET failed == {i \in 1..Len(fed) : fed[i].rcode # 0}
      answered == {i \in 1..Len(fed) : fed[i].rcode = 0 /\ fed[i].qr}
  IN  IF role = REQUESTER
      THEN stats.timeouts = Cardinality(failed) /\ stats.replies = Cardinality(answered)
      ELSE stats = ZeroStats /\ ring.cnt = 0

(* The caller learns of responses and failures in the order in which they  *)
(* came in and as often, each failure with its own code: what it has taken *)
(* and what it has yet to take are the outcomes of the messages since the  *)
(* reset, less those that are none and those that found the queue full.    *)
EventsFollowTheWire ==
  LET waits == [i \in 1..ring.cnt |-> Tells(Contents(ring)[i])]
      outcomes == [i \in 1..Len(fed) |-> Outcome(fed[i])]
  IN  SubsequenceOf(taken \o waits, outcomes)

(* The queue keeps the promise of EventChannel: an event for every fault   *)
(* and every reply of a requester, in order, and only the newest are lost. *)
Channel == INSTANCE EventChannel WITH
  capacity <- ring.qsz, items <- Contents(ring),
  produced <- stats.replies + stats.timeouts, out <- ev

KeepsEventPromise == Channel!Spec
=============================================================================
