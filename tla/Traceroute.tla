----------------------------- MODULE Traceroute -----------------------------
(***************************************************************************)
(* One traceroute context (src/src/traceroute.c) and its caller.  A        *)
(* requester turns ICMP errors into hop events, a responder keeps one      *)
(* pending echo request and reports it when it times out; both book the    *)
(* outcome to a hop.  The caller may also book probes of its own with      *)
(* traceroute_record_hop and ask for the loss of a hop.                    *)
(*                                                                         *)
(* A packet is what traceroute_feed_input_with_ts reads of it: the ICMP    *)
(* type and, of an echo request, the sequence number.  A packet of 20 to   *)
(* 29 bytes ends before these; the code takes what follows it, which is    *)
(* some type and some number.                                              *)
(***************************************************************************)
EXTENDS EventRing, DiagStats, FiniteSets, Functions

CONSTANTS
  SeqNo,       \* sequence numbers of the echo requests on the wire
  MAX_HOPS,    \* slots of the per-hop tables: 32 in the code
  QueueSizes,  \* configured event_queue_size values; 0 also stands for cfg = NULL
  TIMEOUT,     \* 1000 ms in the code
  MaxNow,      \* bound of the caller's clock
  MaxCount,    \* bound of the replies, and of the requests, between two resets
  MaxRecords   \* bound of the probes the caller books itself between two resets

ASSUME TracerouteAssumption ==
  /\ SeqNo \subseteq Nat
  /\ MAX_HOPS \in Nat \ {0}
  /\ QueueSizes \subseteq Nat
  /\ TIMEOUT \in Nat
  /\ MaxNow \in Nat /\ MaxNow < U32
  /\ MaxCount \in Nat /\ MaxRecords \in Nat /\ (MaxCount + MaxRecords) * 100 < U32

REQUESTER == "NETDIAG_ROLE_REQUESTER"
RESPONDER == "NETDIAG_ROLE_RESPONDER"
Role == {REQUESTER, RESPONDER}

Hops == 0..(MAX_HOPS - 1)

\* What a packet's ICMP type means here: 11 or 3, 8, any other.
Kind == {"unreachable", "echo_request", "other"}

\* The fields of netdiag_event_t that traceroute writes.  A timeout is told
\* from a reply by its reason only: both have type TRACEROUTE_HOP.
Event == [type : {"NONE", "TRACEROUTE_HOP"}, seq : SeqNo \cup {0},
          latency_ms : Word, reason : {"", "timeout"}]

ZeroEvent == [type |-> "NONE", seq |-> 0, latency_ms |-> 0, reason |-> ""]
HopEvent(seq, lat, reason) ==
  [type |-> "TRACEROUTE_HOP", seq |-> seq, latency_ms |-> lat, reason |-> reason]

VARIABLES
  role, ring, last_seq, send_ts, waiting, stats,  \* struct traceroute_ctx
  hops,      \* hop_replies, hop_timeouts, hop_sum_lat, hop_count, by hop
  now,       \* the caller's clock, in the unit of TIMEOUT
  ev,        \* the caller's netdiag_event_t, the argument of next_event
  asked,     \* history: number of requests since creation or reset, and of
             \* the last one the sequence number and the time, 0: not stamped
  recorded,  \* history: probes the caller booked itself, by hop and outcome
  polled     \* history: the time of the last traceroute_process since the
             \* last request

ctx == <<role, ring, last_seq, send_ts, waiting, stats, hops>>
history == <<asked, recorded, polled>>
vars == <<role, ring, last_seq, send_ts, waiting, stats, hops, now, ev,
          asked, recorded, polled>>

HopBook == [replies : Word, timeouts : Word, sum_lat : Word, count : Word]
ZeroHop == [replies |-> 0, timeouts |-> 0, sum_lat |-> 0, count |-> 0]
NoHops == [h \in Hops |-> ZeroHop]
NoRequest == [no |-> 0, seq |-> 0, at |-> 0]
NothingRecorded == [h \in Hops |-> [good |-> 0, bad |-> 0]]

TypeOK ==
  /\ role \in Role
  /\ ring \in Rings(Event) /\ RingOK(ring)
  /\ last_seq \in SeqNo \cup {0}
  /\ send_ts \in 0..MaxNow
  /\ waiting \in BOOLEAN
  /\ stats \in Counters
  /\ hops \in [Hops -> HopBook]
  /\ now \in 0..MaxNow
  /\ ev \in Event
  /\ asked \in [no : 0..MaxCount, seq : SeqNo \cup {0}, at : 0..MaxNow]
  /\ recorded \in [Hops -> [good : 0..MaxRecords, bad : 0..MaxRecords]]
  /\ polled \in 0..MaxNow

----------------------------------------------------------------------------
\* calloc, then qinit with the configured size.
traceroute_create_with_config(r, size) ==
  /\ role = r
  /\ ring = qinit(Allocated(ZeroEvent), size)
  /\ last_seq = 0 /\ send_ts = 0 /\ waiting = FALSE
  /\ stats = ZeroStats
  /\ hops = NoHops

Init ==
  /\ \E r \in Role, size \in QueueSizes : traceroute_create_with_config(r, size)
  /\ now = 0 /\ ev = ZeroEvent
  /\ asked = NoRequest /\ recorded = NothingRecorded /\ polled = 0

\* The table after traceroute_record_hop(ctx, hop, success, latency_ms); a
\* hop that is not in the table is ignored.
record_hop(hop, success, lat) ==
  IF hop \notin Hops THEN hops
  ELSE LET b == hops[hop]
       IN  [hops EXCEPT ![hop] =
              IF success
              THEN [replies |-> (b.replies + 1) % U32, timeouts |-> b.timeouts,
                    sum_lat |-> (b.sum_lat + lat) % U32, count |-> (b.count + 1) % U32]
              ELSE [replies |-> b.replies, timeouts |-> (b.timeouts + 1) % U32,
                    sum_lat |-> b.sum_lat, count |-> b.count]]

(* Mutant: hops are counted from 1. *)
NextHop(seq) == (seq + 1) % MAX_HOPS

\* The slot a probe is booked to: sequence numbers MAX_HOPS apart share one.
HopOf(seq) == seq % MAX_HOPS

\* Every packet long enough stamps the context, whatever it is.
Stamp(ts) == send_ts' = IF ts # 0 THEN ts ELSE send_ts

\* The loss of a hop in percent; -1 for a hop that is not in the table.
traceroute_hop_loss_pct(hop) ==
  IF hop \notin Hops THEN -1
  ELSE LET b == hops[hop]
           total == (b.replies + b.timeouts) % U32
       IN  IF total = 0 THEN 0 ELSE ((b.timeouts * 100) % U32) \div total

\* netdiag_stats_t: the loss is never computed.
traceroute_get_stats == [get_stats(stats) EXCEPT !.loss_pct = 0]

(* ICMP error fed to a requester at time ts (0: no timestamp).  send_ts is *)
(* set to ts first, and the latency is taken from the new send_ts.         *)
FeedUnreachable(ts) ==
  /\ role = REQUESTER
  /\ stats.replies < MaxCount
  /\ Stamp(ts)
  /\ LET lat == Latency(send_ts', ts)
     IN  /\ ring' = qpush(ring, HopEvent(last_seq, lat, ""))
         /\ stats' = CountReply(stats, lat)
         /\ hops' = record_hop(HopOf(last_seq), TRUE, lat)
  /\ waiting' = FALSE
  /\ UNCHANGED <<role, last_seq, now, ev, history>>

\* Echo request fed to a responder: the pending slot is overwritten.
FeedEchoRequest(seq, ts) ==
  /\ role = RESPONDER
  /\ asked.no < MaxCount
  /\ Stamp(ts)
  /\ last_seq' = seq
  /\ waiting' = TRUE
  /\ asked' = [no |-> asked.no + 1, seq |-> seq, at |-> ts] /\ polled' = 0
  /\ UNCHANGED <<role, ring, stats, hops, now, ev, recorded>>

\* A packet that the role ignores still stamps the context.
FeedIgnored(kind, ts) ==
  /\ ~(kind = "unreachable" /\ role = REQUESTER)
  /\ ~(kind = "echo_request" /\ role = RESPONDER)
  /\ Stamp(ts)
  /\ UNCHANGED <<role, ring, last_seq, waiting, stats, hops, now, ev, history>>

Expired(ts) == waiting /\ send_ts # 0 /\ ts > send_ts + TIMEOUT

\* traceroute_process(ts).
traceroute_process(ts) ==
  /\ polled' = ts
  /\ IF Expired(ts)
     THEN /\ ring' = qpush(ring, HopEvent(last_seq, 0, "timeout"))
          /\ stats' = CountTimeout(stats)
          /\ hops' = record_hop(HopOf(last_seq), FALSE, 0)
          /\ waiting' = FALSE
     ELSE UNCHANGED <<ring, stats, hops, waiting>>
  /\ UNCHANGED <<role, last_seq, send_ts, now, ev, asked, recorded>>

\* An empty queue returns 0 and leaves *e as it was.
traceroute_next_event ==
  /\ ring.cnt > 0
  /\ ring' = qpop(ring)
  /\ ev' = Oldest(ring)
  /\ UNCHANGED <<role, last_seq, send_ts, waiting, stats, hops, now, history>>

\* traceroute_record_hop called by the application.
RecordHop(hop, success, lat) ==
  /\ hop \in Hops => recorded[hop].good + recorded[hop].bad < MaxRecords
  /\ hops' = record_hop(hop, success, lat)
  /\ recorded' = IF hop \notin Hops THEN recorded
                 ELSE IF success THEN [recorded EXCEPT ![hop].good = @ + 1]
                 ELSE [recorded EXCEPT ![hop].bad = @ + 1]
  /\ UNCHANGED <<role, ring, last_seq, send_ts, waiting, stats, now, ev, asked, polled>>

(* Mutant: reset clears the totals and keeps the hops. *)
ResetKeepsHops ==
  /\ ring' = qinit(ring, ring.qsz)
  /\ stats' = ZeroStats
  /\ waiting' = FALSE
  /\ asked' = NoRequest /\ recorded' = NothingRecorded /\ polled' = 0
  /\ UNCHANGED <<role, last_seq, send_ts, hops, now, ev>>

\* traceroute_reset: qinit with the size in use; last_seq and send_ts stay.
traceroute_reset ==
  /\ ring' = qinit(ring, ring.qsz)
  /\ stats' = ZeroStats
  /\ waiting' = FALSE
  /\ hops' = NoHops
  /\ asked' = NoRequest /\ recorded' = NothingRecorded /\ polled' = 0
  /\ UNCHANGED <<role, last_seq, send_ts, now, ev>>

Tick ==
  /\ now < MaxNow
  /\ now' = now + 1
  /\ UNCHANGED <<ctx, ev, history>>

\* A packet's capture time is not after the call that feeds it; 0: none.
Next ==
  \/ \E ts \in 0..now : FeedUnreachable(ts)
  \/ \E seq \in SeqNo, ts \in 0..now : FeedEchoRequest(seq, ts)
  \/ \E kind \in Kind, ts \in 0..now : FeedIgnored(kind, ts)
  \/ traceroute_process(now)
  \/ traceroute_next_event
  \/ \E hop \in -1..MAX_HOPS, success \in BOOLEAN : RecordHop(hop, success, UntimedLatency)
  \/ traceroute_reset
  \/ Tick

Spec == Init /\ [][Next]_vars

----------------------------------------------------------------------------
(* The hop table adds up to the totals.  Every reply is booked once, to    *)
(* hop 0, because a requester never learns a sequence number; a timeout is *)
(* booked once, to some hop; the rest of the table is what the caller      *)
(* recorded, and nothing is left over from before a reset.  The loss       *)
(* reported of a hop is the share of the timeouts booked to it in percent, *)
(* rounded down, 0 where nothing is booked and -1 where there is no hop.   *)
HopTableAddsUp ==
  /\ \A h \in Hops :
       /\ hops[h].replies = recorded[h].good + (IF h = 0 THEN stats.replies ELSE 0)
       /\ hops[h].count = hops[h].replies
  /\ SumFunction([h \in Hops |-> hops[h].timeouts])
       = stats.timeouts + SumFunction([h \in Hops |-> recorded[h].bad])
  /\ \A h \in Hops :
       LET lost == hops[h].timeouts
           probes == hops[h].replies + hops[h].timeouts
           loss == traceroute_hop_loss_pct(h)
       IN  IF probes = 0 THEN loss = 0
           ELSE loss * probes <= 100 * lost /\ 100 * lost < (loss + 1) * probes
  /\ \A hop \in {-1, MAX_HOPS} : traceroute_hop_loss_pct(hop) = -1

(* A timeout is booked once for a request that is pending, at the hop of   *)
(* the last request and at no other, and is reported under the number of   *)
(* that request; after a reset there is none until something is asked.     *)
TimeoutBookedToItsHop ==
  [][stats'.timeouts > stats.timeouts =>
       /\ waiting /\ ~waiting'
       /\ asked.no > 0
       /\ \A h \in Hops :
            hops'[h].timeouts - hops[h].timeouts = IF h = asked.seq % MAX_HOPS THEN 1 ELSE 0
       /\ ring.cnt < ring.qsz =>
            Contents(ring')[ring'.cnt] = HopEvent(asked.seq, 0, "timeout")]_vars

(* What get_stats says of the latencies agrees with itself: once there is  *)
(* a reply, the smallest is not above the average nor the average above    *)
(* the largest.  (Four fields hold them, the smallest starts at ~0U, and   *)
(* the average is an integer division.)                                    *)
AverageIsBetween ==
  LET s == traceroute_get_stats
  IN  s.replies > 0 => /\ s.min_latency_ms <= s.avg_latency_ms
                       /\ s.avg_latency_ms <= s.max_latency_ms

(* The queue keeps the promise of EventChannel.                            *)
Channel == INSTANCE EventChannel WITH
  capacity <- ring.qsz, items <- Contents(ring),
  produced <- stats.replies + stats.timeouts, out <- ev

KeepsEventPromise == Channel!Spec
=============================================================================
