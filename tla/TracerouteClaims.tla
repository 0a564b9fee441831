-------------------------- MODULE TracerouteClaims --------------------------
(***************************************************************************)
(* What docs/decisions/002-event-model-timestamping-queue.md says of       *)
(* process, stated for a traceroute context.                               *)
(***************************************************************************)
EXTENDS Traceroute

(* ADR 002, line 53: "Periodic process(now): scan for timeouts -> emit     *)
(* TIMEOUT + update loss stats".  After a call of process no stamped       *)
(* request older than TIMEOUT is still pending.  In the code any packet    *)
(* with a timestamp, also one the role ignores, moves send_ts              *)
(* (traceroute.c:70), and the request is young again.                      *)
StaleRequestTimesOut ==
  waiting /\ asked.at # 0 => polled <= asked.at + TIMEOUT
=============================================================================
