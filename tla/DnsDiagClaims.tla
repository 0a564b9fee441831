--------------------------- MODULE DnsDiagClaims ---------------------------
(***************************************************************************)
(* What docs/decisions/002-event-model-timestamping-queue.md says of round *)
(* trip times, stated for a dnsdiag requester whose caller feeds it the    *)
(* query it sends and then the response, each with its time.               *)
(***************************************************************************)
EXTENDS DnsDiag

VARIABLE asked  \* history: the last query fed since the reset, and when; 0: no time

claimVars == <<role, ring, last_seq, send_ts, waiting, stats, now, ev, fed, taken, asked>>

NoQuery == [id |-> 0, at |-> 0]

ClaimInit == Init /\ asked = NoQuery

ClaimNext ==
  \/ \E msg \in Message, ts \in 0..now :
       \/ FeedIgnored(msg, ts) /\ asked' = [id |-> msg.id, at |-> ts]
       \/ (FeedFault(msg, ts) \/ FeedReply(msg, ts) \/ FeedQuery(msg, ts)) /\ UNCHANGED asked
  \/ dnsdiag_reset /\ asked' = NoQuery
  \/ (dnsdiag_next_event \/ Tick) /\ UNCHANGED asked

ClaimSpec == ClaimInit /\ [][ClaimNext]_claimVars

(* ADR 002, line 21: "RTT calculated as `now_ms - send_ts` stored          *)
(* per-probe in internal state", and line 52: "On reply: match seq,        *)
(* compute RTT, detect dups".  The response to a query that was fed with   *)
(* its time adds what lies between the two to the latencies.  In the code  *)
(* the time of the response overwrites that of the query (dnsdiag.c:60)    *)
(* before the two are compared (dnsdiag.c:77), and the latency is 0.       *)
AnswersAreTimed ==
  [][\A msg \in Message, ts \in 1..now :
       FeedReply(msg, ts) /\ msg.id = asked.id /\ asked.at # 0 /\ ts > asked.at =>
         stats'.sum_lat = stats.sum_lat + (ts - asked.at)]_claimVars
=============================================================================
