--------------------------- MODULE ArpingSession ---------------------------
(***************************************************************************)
(* A requester and a responder context that exchange frames, as the        *)
(* dialectic tests do (ARCHITECTURE.md, "Dialectic Testing"), over a       *)
(* segment that loses, delays, reorders and duplicates them.  The host of  *)
(* the requester asks; what reaches the other host is fed to the responder *)
(* context and answered by that host, if it answers; what comes back is    *)
(* fed to the requester context.  The hosts and the segment are not part   *)
(* of the library.                                                         *)
(***************************************************************************)
EXTENDS Arping

CONSTANTS
  QueueSizes,  \* configured event_queue_size values; 0 also stands for cfg = NULL
  MaxNow,      \* bound of the clock
  MaxCount     \* bound of the frames delivered to a context between two resets

ASSUME SessionAssumption ==
  /\ QueueSizes \subseteq Nat
  /\ MaxNow \in Nat \ {0} /\ MaxNow < U32
  /\ MaxCount \in Nat /\ MaxCount * 100 < U32

Family == {"ARP", "NDP"}

Request(family) == [op |-> "REQUEST", family |-> family, mac |-> NoMac]
Reply(family, mac) == [op |-> "REPLY", family |-> family, mac |-> mac]

\* Only an advertisement may come without an address.
Replies(family) == {Reply(family, mac) : mac \in IF family = "NDP" THEN AnyMac ELSE Mac}

Requests == {Request(family) : family \in Family}
Frame == Requests \cup UNION {Replies(family) : family \in Family}

VARIABLES
  req, res,  \* the two contexts
  timed,     \* whether the hosts pass times to feed_input, or none
  now,       \* the clock of both hosts
  wire,      \* the frames on the segment
  asked,     \* history: requests delivered to res since its reset, and when last
  heard,     \* history: senders of the replies delivered to req since its reset
  taken      \* history: senders in the events taken from req since its reset

vars == <<req, res, timed, now, wire, asked, heard, taken>>

NoRequest == [no |-> 0, at |-> 0]

TypeOK ==
  /\ req \in Contexts(0..MaxNow) /\ res \in Contexts(0..MaxNow)
  /\ timed \in BOOLEAN
  /\ now \in 1..MaxNow
  /\ wire \subseteq Frame
  /\ asked \in [no : 0..MaxCount, at : 0..MaxNow]
  /\ heard \in Seq(AnyMac) /\ taken \in Seq(AnyMac)

Init ==
  /\ \E size \in QueueSizes :
       /\ req = arping_create_with_config(REQUESTER, size)
       /\ res = arping_create_with_config(RESPONDER, size)
  /\ timed \in BOOLEAN
  /\ now = 1
  /\ wire = {}
  /\ asked = NoRequest
  /\ heard = <<>> /\ taken = <<>>

----------------------------------------------------------------------------
\* The time a host passes to feed_input_with_ts.
Stamp == IF timed THEN now ELSE 0

\* The requester's host asks.
Ask(family) ==
  /\ Request(family) \notin wire
  /\ wire' = wire \cup {Request(family)}
  /\ UNCHANGED <<req, res, timed, now, asked, heard, taken>>

\* What stays on the wire when f is delivered: a duplicate may come later.
Left(f) == {wire, wire \ {f}}

Answers(family) == {{}} \cup {{r} : r \in Replies(family)}

\* A request reaches the responder's host, which answers it or does not.
DeliverRequest(f, left, answer) ==
  /\ f \in wire /\ f.op = "REQUEST"
  /\ asked.no < MaxCount
  /\ res' = arping_feed_input_with_ts(res, f, Stamp)
  /\ wire' = left \cup answer
  /\ asked' = [no |-> asked.no + 1, at |-> now]
  /\ UNCHANGED <<req, timed, now, heard, taken>>

DeliverReply(f, left) ==
  /\ f \in wire /\ f.op = "REPLY"
  /\ Len(heard) < MaxCount
  /\ req' = arping_feed_input_with_ts(req, f, Stamp)
  /\ wire' = left
  /\ heard' = Append(heard, f.mac)
  /\ UNCHANGED <<res, timed, now, asked, taken>>

Lose(f) ==
  /\ f \in wire
  /\ wire' = wire \ {f}
  /\ UNCHANGED <<req, res, timed, now, asked, heard, taken>>

\* Each host calls arping_process from time to time.
Process ==
  /\ req' = arping_process(req, now)
  /\ res' = arping_process(res, now)
  /\ UNCHANGED <<timed, now, wire, asked, heard, taken>>

TakeReply ==
  /\ req.ring.cnt > 0
  /\ req' = arping_next_event(req)
  /\ taken' = Append(taken, Oldest(req.ring).src_mac)
  /\ UNCHANGED <<res, timed, now, wire, asked, heard>>

TakeTimeout ==
  /\ res.ring.cnt > 0
  /\ res' = arping_next_event(res)
  /\ UNCHANGED <<req, timed, now, wire, asked, heard, taken>>

ResetRequester ==
  /\ req' = arping_reset(req)
  /\ heard' = <<>> /\ taken' = <<>>
  /\ UNCHANGED <<res, timed, now, wire, asked>>

ResetResponder ==
  /\ res' = arping_reset(res)
  /\ asked' = NoRequest
  /\ UNCHANGED <<req, timed, now, wire, heard, taken>>

Tick ==
  /\ now < MaxNow
  /\ now' = now + 1
  /\ UNCHANGED <<req, res, timed, wire, asked, heard, taken>>

Next ==
  \/ \E family \in Family : Ask(family)
  \/ \E f \in wire : \E left \in Left(f) :
       \/ \E answer \in Answers(f.family) : DeliverRequest(f, left, answer)
       \/ DeliverReply(f, left)
  \/ \E f \in wire : Lose(f)
  \/ Process
  \/ TakeReply \/ TakeTimeout
  \/ ResetRequester \/ ResetResponder
  \/ Tick

Spec == Init /\ [][Next]_vars

----------------------------------------------------------------------------
(* The requester's caller learns of answers in the order they came in, as  *)
(* often as they came in and from whom they came: what it has taken and    *)
(* what it has yet to take are the senders of the answers delivered since  *)
(* the reset, less those that found the queue full.                        *)
EventsInDeliveryOrder ==
  LET senders == [i \in 1..req.ring.cnt |-> Contents(req.ring)[i].src_mac]
  IN  SubsequenceOf(taken \o senders, heard)

(* What the two contexts book of one exchange.  Every answer delivered is  *)
(* booked once by the requester, as a reply or as a duplicate, whether its *)
(* event found room or not and in the new books when it comes after a      *)
(* reset.  The responder books silences: a request is pending or at most   *)
(* one timeout, not both, whether its answer got through or not; and it    *)
(* never books an answer.                                                  *)
BooksOfBothSides ==
  /\ req.stats.replies + req.stats.dups = Len(heard)
  /\ res.stats.timeouts + (IF res.waiting THEN 1 ELSE 0) <= asked.no
  /\ res.stats.replies + res.stats.dups = 0

(* A timeout is reported only when no request, of either family and first  *)
(* or duplicate, has reached the responder for longer than TIMEOUT, since  *)
(* each of them restarts the one pending slot; and never to hosts that     *)
(* pass no times.                                                          *)
TimeoutMeansSilence ==
  [][res'.stats.timeouts > res.stats.timeouts =>
       timed /\ asked.no > 0 /\ now - asked.at > TIMEOUT]_vars
=============================================================================
