----------------------------- MODULE PingClaims -----------------------------
(***************************************************************************)
(* What docs/decisions/002-event-model-timestamping-queue.md says of the   *)
(* event queue and the code does otherwise, stated for a ping context.     *)
(***************************************************************************)
EXTENDS Ping

(* ADR 002, line 26: "Backpressure: oldest dropped if full (documented)".  *)
(* The last event produced is therefore always the newest in the queue; in *)
(* the code qpush (ping.c:28) drops the new event and keeps the old ones.  *)
OldestDroppedIfFull ==
  [][stats'.timeouts > stats.timeouts =>
       /\ ring'.cnt > 0
       /\ Contents(ring')[ring'.cnt] = TimeoutEvent(last_seq)
       /\ ring.cnt = ring.qsz =>
            \A i \in 1..(ring.cnt - 1) : Contents(ring')[i] = Contents(ring)[i + 1]]_vars

=============================================================================
