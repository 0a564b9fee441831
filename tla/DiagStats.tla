----------------------------- MODULE DiagStats -----------------------------
(***************************************************************************)
(* The counters every probe context keeps for get_stats, and what          *)
(* get_stats computes from them.  All of them are uint32_t: arithmetic is  *)
(* modulo U32, which stands for 2^32.                                      *)
(***************************************************************************)
EXTENDS Integers

CONSTANT U32   \* 2^32 in the code; any modulus that leaves room for 100 and 5

ASSUME WordAssumption == U32 \in Nat /\ U32 > 100

Word == 0..(U32 - 1)

\* The latency reported when a reply cannot be timed (uint32_t lat = 5).
UntimedLatency == 5

Counters == [replies : Word, timeouts : Word, dups : Word, sum_lat : Word,
             max_lat : Word, min_lat : Word, count_lat : Word]

\* qinit: everything 0, min_lat = ~0U.
ZeroStats ==
  [replies |-> 0, timeouts |-> 0, dups |-> 0, sum_lat |-> 0,
   max_lat |-> 0, min_lat |-> U32 - 1, count_lat |-> 0]

(* Mutant: a sample that is a new minimum is not tried as a maximum. *)
OneExtremum(s, lat) ==
  [replies |-> (s.replies + 1) % U32, timeouts |-> s.timeouts, dups |-> s.dups,
   sum_lat |-> (s.sum_lat + lat) % U32,
   max_lat |-> IF lat > s.max_lat /\ ~(lat < s.min_lat) THEN lat ELSE s.max_lat,
   min_lat |-> IF lat < s.min_lat THEN lat ELSE s.min_lat,
   count_lat |-> (s.count_lat + 1) % U32]

CountReply(s, lat) ==
  [replies |-> (s.replies + 1) % U32, timeouts |-> s.timeouts, dups |-> s.dups,
   sum_lat |-> (s.sum_lat + lat) % U32,
   max_lat |-> IF lat > s.max_lat THEN lat ELSE s.max_lat,
   min_lat |-> IF lat < s.min_lat THEN lat ELSE s.min_lat,
   count_lat |-> (s.count_lat + 1) % U32]

CountTimeout(s) == [s EXCEPT !.timeouts = (@ + 1) % U32]

CountDups(s, k) == [s EXCEPT !.dups = (@ + k) % U32]

(* lat = 5, or the time since send_ts when both stamps are known; a clock  *)
(* that went backwards gives 0.                                            *)
Latency(send_ts, ts) ==
  IF send_ts = 0 \/ ts = 0 THEN UntimedLatency
  ELSE IF ts > send_ts THEN (ts - send_ts) % U32 ELSE 0

(* Mutant: the share of the replies, not of the timeouts. *)
ReplyPct(s) ==
  LET total == (s.replies + s.timeouts) % U32
  IN  IF total = 0 THEN 0 ELSE ((s.replies * 100) % U32) \div total

LossPct(s) ==
  LET total == (s.replies + s.timeouts) % U32
  IN  IF total = 0 THEN 0 ELSE ((s.timeouts * 100) % U32) \div total

\* netdiag_stats_t as ping, arping, arprecon and netdiag fill it.
get_stats(s) ==
  [replies |-> s.replies, timeouts |-> s.timeouts, duplicates |-> s.dups,
   loss_pct |-> LossPct(s),
   avg_latency_ms |-> IF s.count_lat = 0 THEN 0 ELSE s.sum_lat \div s.count_lat,
   max_latency_ms |-> s.max_lat,
   min_latency_ms |-> IF s.min_lat = U32 - 1 THEN 0 ELSE s.min_lat]
============================================================================
