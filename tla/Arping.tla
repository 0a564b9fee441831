------------------------------ MODULE Arping ------------------------------
(***************************************************************************)
(* The arping context (src/src/arping.c) as a record, and its operations   *)
(* as operators on it; ArpingSession runs two of them against each other.  *)
(*                                                                         *)
(* A frame is what arping_feed_input_with_ts reads of it: [op, family,     *)
(* mac], where op is "REPLY" for an ARP reply or a Neighbor Advertisement, *)
(* "REQUEST" for an ARP request or a Neighbor Solicitation.  An            *)
(* advertisement of 41 to 70 bytes has no address and mac is NoMac.        *)
(* Frames that are shorter or are neither change nothing.  last_mac is     *)
(* cleared and never read.                                                 *)
(***************************************************************************)
EXTENDS EventRing, DiagStats

CONSTANTS
  Mac, NoMac,  \* sender addresses; the six zero bytes of an event without one
  TIMEOUT      \* 1000 ms in the code

ASSUME ArpingAssumption == NoMac \notin Mac /\ TIMEOUT \in Nat

REQUESTER == "NETDIAG_ROLE_REQUESTER"
RESPONDER == "NETDIAG_ROLE_RESPONDER"

AnyMac == Mac \cup {NoMac}

\* The fields of netdiag_event_t that arping writes.  A timeout is of type
\* ARP_DUPLICATE and differs from a duplicate by its reason.
Event == [type : {"NONE", "ARP_REPLY", "ARP_DUPLICATE"}, src_mac : AnyMac,
          latency_ms : Word]

ZeroEvent == [type |-> "NONE", src_mac |-> NoMac, latency_ms |-> 0]
ReplyEvent(mac, lat) == [type |-> "ARP_REPLY", src_mac |-> mac, latency_ms |-> lat]
TimeoutEvent == [type |-> "ARP_DUPLICATE", src_mac |-> NoMac, latency_ms |-> 0]

Contexts(Time) ==
  [role : {REQUESTER, RESPONDER}, ring : {r \in Rings(Event) : RingOK(r)},
   send_ts : Time, waiting : BOOLEAN, stats : Counters]

\* calloc, then qinit with the configured size.
arping_create_with_config(role, size) ==
  [role |-> role, ring |-> qinit(Allocated(ZeroEvent), size), send_ts |-> 0,
   waiting |-> FALSE, stats |-> ZeroStats]

\* A reply to a requester, of either family.
FeedReply(c, f, ts) ==
  LET lat == Latency(c.send_ts, ts)
  IN  [c EXCEPT !.ring = qpush(@, ReplyEvent(f.mac, lat)),
                !.stats = CountReply(@, lat),
                !.waiting = FALSE]

(* Mutant: a request that comes while one is pending does not restart it. *)
KeepFirstStamp(c, f, ts) ==
  [c EXCEPT !.send_ts = IF ts # 0 /\ ~c.waiting THEN ts ELSE @, !.waiting = TRUE]

\* A request to a responder, of either family: they share the pending slot.
FeedRequest(c, f, ts) ==
  [c EXCEPT !.send_ts = IF ts # 0 THEN ts ELSE @, !.waiting = TRUE]

arping_feed_input_with_ts(c, f, ts) ==
  IF f.op = "REPLY" /\ c.role = REQUESTER THEN FeedReply(c, f, ts)
  ELSE IF f.op = "REQUEST" /\ c.role = RESPONDER THEN FeedRequest(c, f, ts)
  ELSE c

Expired(c, ts) == c.waiting /\ c.send_ts # 0 /\ ts > c.send_ts + TIMEOUT

(* Mutant: the pending request is not forgotten when it times out. *)
TimeoutStaysPending(c, ts) ==
  IF Expired(c, ts)
  THEN [c EXCEPT !.ring = qpush(@, TimeoutEvent), !.stats = CountTimeout(@)]
  ELSE c

arping_process(c, ts) ==
  IF Expired(c, ts)
  THEN [c EXCEPT !.ring = qpush(@, TimeoutEvent), !.stats = CountTimeout(@),
                 !.waiting = FALSE]
  ELSE c

\* Only called with cnt > 0; the event is Oldest(c.ring).
arping_next_event(c) == [c EXCEPT !.ring = qpop(@)]

\* qinit with the size in use; send_ts stays.
arping_reset(c) ==
  [c EXCEPT !.ring = qinit(@, @.qsz), !.stats = ZeroStats, !.waiting = FALSE]
=============================================================================
