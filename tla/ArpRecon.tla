------------------------------ MODULE ArpRecon ------------------------------
(***************************************************************************)
(* One ARP reconnaissance context (src/src/arprecon.c) and its caller.  A  *)
(* requester listens to ARP replies, keeps a table of the neighbours it    *)
(* has heard and reports an address claimed by two of them; a responder    *)
(* keeps one pending ARP request and reports it when it times out.         *)
(*                                                                         *)
(* A frame is what arprecon_feed_input_with_ts reads of it: the operation  *)
(* and, of a reply, the sender's MAC and IP.  A reply cut off before these *)
(* bytes gives whatever follows it in the caller's buffer, which is some   *)
(* MAC and some IP.  Frames that are shorter, are no ARP or do not concern *)
(* the role change nothing.  last_mac is written and never read.           *)
(***************************************************************************)
EXTENDS EventRing, DiagStats, FiniteSets

CONSTANTS
  Mac, Ip,     \* sender addresses seen on the wire
  NoMac,       \* the six zero bytes of an event without a MAC
  MAX_NEIGH,   \* slots of the neighbour table: 64 in the code
  QueueSizes,  \* configured event_queue_size values; 0 also stands for cfg = NULL
  TIMEOUT,     \* 1000 ms in the code
  MaxNow,      \* bound of the caller's clock
  MaxCount     \* bound of the replies, and of the requests, between two resets

ASSUME ArpReconAssumption ==
  /\ MAX_NEIGH \in Nat \ {0}
  /\ QueueSizes \subseteq Nat
  /\ TIMEOUT \in Nat
  /\ MaxNow \in Nat /\ MaxNow < U32
  /\ MaxCount \in Nat /\ MaxCount * 100 < U32 /\ MAX_NEIGH * MAX_NEIGH < U32

REQUESTER == "NETDIAG_ROLE_REQUESTER"
RESPONDER == "NETDIAG_ROLE_RESPONDER"
Role == {REQUESTER, RESPONDER}

Neighbour == [mac : Mac, ip : Ip]

\* The fields of netdiag_event_t that arprecon writes; reason repeats type.
Event == [type : {"NONE", "ARP_REPLY", "ARP_SPOOF", "ARP_ANOMALY"},
          src_mac : Mac \cup {NoMac}, latency_ms : Word]

ZeroEvent == [type |-> "NONE", src_mac |-> NoMac, latency_ms |-> 0]
ReplyEvent(mac, lat) == [type |-> "ARP_REPLY", src_mac |-> mac, latency_ms |-> lat]
SpoofEvent == [type |-> "ARP_SPOOF", src_mac |-> NoMac, latency_ms |-> 0]
TimeoutEvent == [type |-> "ARP_ANOMALY", src_mac |-> NoMac, latency_ms |-> 0]

VARIABLES
  role, ring, send_ts, waiting, stats,  \* struct arprecon_ctx
  neigh,  \* neigh_macs and neigh_ips up to neigh_count, in the order heard
  now,    \* the caller's clock, in the unit of TIMEOUT
  ev,     \* the caller's netdiag_event_t, the argument of arprecon_next_event
  heard,  \* history: the senders of the replies since creation or reset
  asked   \* history: the requests since creation or reset, and the time of
          \* the last one, 0 if it was not stamped

ctx == <<role, ring, send_ts, waiting, stats, neigh>>
history == <<heard, asked>>
vars == <<role, ring, send_ts, waiting, stats, neigh, now, ev, heard, asked>>

TypeOK ==
  /\ role \in Role
  /\ ring \in Rings(Event) /\ RingOK(ring)
  /\ send_ts \in 0..MaxNow
  /\ waiting \in BOOLEAN
  /\ stats \in Counters
  /\ neigh \in Seq(Neighbour) /\ Len(neigh) <= MAX_NEIGH
  /\ now \in 0..MaxNow
  /\ ev \in Event
  /\ heard \in Seq(Neighbour) /\ Len(heard) <= MaxCount
  /\ asked \in [no : 0..MaxCount, at : 0..MaxNow]

----------------------------------------------------------------------------
\* calloc, then qinit with the configured size.
arprecon_create_with_config(r, size) ==
  /\ role = r
  /\ ring = qinit(Allocated(ZeroEvent), size)
  /\ send_ts = 0 /\ waiting = FALSE
  /\ stats = ZeroStats
  /\ neigh = <<>>

Init ==
  /\ \E r \in Role, size \in QueueSizes : arprecon_create_with_config(r, size)
  /\ now = 0 /\ ev = ZeroEvent
  /\ heard = <<>> /\ asked = [no |-> 0, at |-> 0]

\* k calls of qpush with the same event, one for each conflict: the first of
\* them fill the free slots from tail on, the others find the queue full.
PushSpoofs(r, k) ==
  LET n == Min2(k, r.qsz - r.cnt)
      Distance(i) == (i + r.qsz - r.tail) % r.qsz
  IN  [qsz |-> r.qsz,
       q |-> [i \in Slots |-> IF i < r.qsz /\ Distance(i) < n THEN SpoofEvent ELSE r.q[i]],
       head |-> r.head, tail |-> (r.tail + n) % r.qsz, cnt |-> r.cnt + n]

(* Mutant: the comparison stops at the first conflict. *)
FirstConflict(mac, ip) ==
  LET all == {i \in 1..Len(neigh) : neigh[i].ip = ip /\ neigh[i].mac # mac}
  IN  {i \in all : \A j \in all : i <= j}

\* Earlier neighbours with the sender's address and another MAC.
Conflicts(mac, ip) == {i \in 1..Len(neigh) : neigh[i].ip = ip /\ neigh[i].mac # mac}

TableFull == Len(neigh) = MAX_NEIGH

(* Mutant: conflicts are counted and the reply itself is not queued. *)
SilentReply(mac, ip, ts) ==
  /\ role = REQUESTER
  /\ Len(heard) < MaxCount
  /\ LET lat == Latency(send_ts, ts)
         spoofs == IF TableFull THEN 0 ELSE Cardinality(Conflicts(mac, ip))
     IN  /\ ring' = IF spoofs > 0 THEN PushSpoofs(ring, spoofs)
                    ELSE qpush(ring, ReplyEvent(mac, lat))
         /\ stats' = CountDups(CountReply(stats, lat), spoofs)
  /\ neigh' = IF TableFull THEN neigh ELSE Append(neigh, [mac |-> mac, ip |-> ip])
  /\ waiting' = FALSE
  /\ heard' = Append(heard, [mac |-> mac, ip |-> ip])
  /\ UNCHANGED <<role, send_ts, now, ev, asked>>

(* ARP reply fed to a requester at time ts (0: no timestamp).  Only a      *)
(* sender that still goes into the table is compared with the others.      *)
FeedArpReply(mac, ip, ts) ==
  /\ role = REQUESTER
  /\ Len(heard) < MaxCount
  /\ LET lat == Latency(send_ts, ts)
         spoofs == IF TableFull THEN 0 ELSE Cardinality(Conflicts(mac, ip))
     IN  /\ ring' = PushSpoofs(qpush(ring, ReplyEvent(mac, lat)), spoofs)
         /\ stats' = CountDups(CountReply(stats, lat), spoofs)
  /\ neigh' = IF TableFull THEN neigh ELSE Append(neigh, [mac |-> mac, ip |-> ip])
  /\ waiting' = FALSE
  /\ heard' = Append(heard, [mac |-> mac, ip |-> ip])
  /\ UNCHANGED <<role, send_ts, now, ev, asked>>

\* ARP request fed to a responder.
FeedArpRequest(ts) ==
  /\ role = RESPONDER
  /\ asked.no < MaxCount
  /\ send_ts' = IF ts # 0 THEN ts ELSE send_ts
  /\ waiting' = TRUE
  /\ asked' = [no |-> asked.no + 1, at |-> ts]
  /\ UNCHANGED <<role, ring, stats, neigh, now, ev, heard>>

Expired(ts) == waiting /\ send_ts # 0 /\ ts > send_ts + TIMEOUT

\* arprecon_process(ts); a call that finds nothing expired changes nothing.
arprecon_process(ts) ==
  /\ Expired(ts)
  /\ ring' = qpush(ring, TimeoutEvent)
  /\ stats' = CountTimeout(stats)
  /\ waiting' = FALSE
  /\ UNCHANGED <<role, send_ts, neigh, now, ev, history>>

\* An empty queue returns 0 and leaves *e as it was.
arprecon_next_event ==
  /\ ring.cnt > 0
  /\ ring' = qpop(ring)
  /\ ev' = Oldest(ring)
  /\ UNCHANGED <<role, send_ts, waiting, stats, neigh, now, history>>

(* Mutant: reset keeps the neighbours. *)
ResetKeepsTable ==
  /\ ring' = qinit(ring, ring.qsz)
  /\ stats' = ZeroStats
  /\ waiting' = FALSE
  /\ heard' = <<>> /\ asked' = [no |-> 0, at |-> 0]
  /\ UNCHANGED <<role, send_ts, neigh, now, ev>>

\* arprecon_reset: qinit with the size in use; send_ts stays.
arprecon_reset ==
  /\ ring' = qinit(ring, ring.qsz)
  /\ stats' = ZeroStats
  /\ waiting' = FALSE
  /\ neigh' = <<>>
  /\ heard' = <<>> /\ asked' = [no |-> 0, at |-> 0]
  /\ UNCHANGED <<role, send_ts, now, ev>>

Tick ==
  /\ now < MaxNow
  /\ now' = now + 1
  /\ UNCHANGED <<ctx, ev, history>>

\* A frame's capture time is not after the call that feeds it; 0: none.
Next ==
  \/ \E mac \in Mac, ip \in Ip, ts \in 0..now : FeedArpReply(mac, ip, ts)
  \/ \E ts \in 0..now : FeedArpRequest(ts)
  \/ arprecon_process(now)
  \/ arprecon_next_event
  \/ arprecon_reset
  \/ Tick

Spec == Init /\ [][Next]_vars

----------------------------------------------------------------------------
\* Senders that claim one address with two MACs, and the pairs of them.
Conflicting(a, b) == a.ip = b.ip /\ a.mac # b.mac

ConflictingPairs(senders) ==
  {p \in (1..Len(senders)) \X (1..Len(senders)) :
     p[1] < p[2] /\ Conflicting(senders[p[1]], senders[p[2]])}

(* The table is the first MAX_NEIGH senders since the last reset, in the   *)
(* order they were heard: a sender is neither moved nor forgotten when the *)
(* table is full, and none is left from before a reset.                    *)
TableIsFirstHeard == neigh = SubSeq(heard, 1, Min2(Len(heard), MAX_NEIGH))

(* duplicates, the counter behind the spoof reports, is the number of      *)
(* conflicting pairs in the table, however the replies were ordered and    *)
(* whatever the queue lost: the one pass made over the table per reply     *)
(* adds up to all pairs.                                                   *)
DupsCountConflicts == stats.dups = Cardinality(ConflictingPairs(neigh))

(* A spoof is reported behind the reply that shows it.  In what the caller *)
(* took last and what it has yet to take, the event before a spoof is a    *)
(* reply or another spoof, and that reply came from a sender whose address *)
(* an earlier one had claimed with another MAC since the last reset.       *)
SpoofFollowsItsReply ==
  LET log == <<ev>> \o Contents(ring)
      IsSpoof(i) == log[i].type = "ARP_SPOOF"
      IsReply(i) == log[i].type = "ARP_REPLY"
  IN  \A i \in 2..Len(log) : IsSpoof(i) =>
        /\ IsReply(i - 1) \/ IsSpoof(i - 1)
        /\ \A p \in 1..(i - 1) :
             (IsReply(p) /\ \A j \in (p + 1)..i : IsSpoof(j)) =>
               \E k \in 1..Len(heard), j \in 1..Len(heard) :
                 j < k /\ heard[k].mac = log[p].src_mac /\ Conflicting(heard[j], heard[k])

(* The queue keeps the promise of EventChannel also when one reply yields  *)
(* several events: the burst is cut at its end, never in the middle and    *)
(* never at the expense of what was queued before.                         *)
Channel == INSTANCE EventChannel WITH
  capacity <- ring.qsz, items <- Contents(ring),
  produced <- stats.replies + stats.dups + stats.timeouts, out <- ev

KeepsEventPromise == Channel!Spec
=============================================================================
