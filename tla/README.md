# libnetdiag in TLA+

libnetdiag is a C library of passive state machines: a caller feeds packets or
netlink buffers into a context, tells it the time, and takes events and
statistics out of it. It opens no socket, reads no clock and starts no thread
(`ARCHITECTURE.md`, "Deliberate Absences"), so the hard behaviours are not races
inside the library but *sequences of calls*: what was pending when a reset came,
what is in a ring that wrapped, which of several events a full queue loses, which
request a late timeout belongs to, what one message leaves behind for the next.
These modules state what the library promises over every such sequence.

Paths below are relative to the repository (`src/ping.c` is the library's source
file, `docs/` its documents).

## The system

| part | state | operations | who calls whom |
|---|---|---|---|
| event queue (`qinit`, `qpush`, `qpop`, repeated in every file) | `qsz`, `q[32]`, `head`, `tail`, `cnt` | initialise, push (drops when full), pop | every context embeds one |
| statistics (`netdiag_stats_t`) | `replies`, `timeouts`, `dups`, `sum_lat`, `max_lat`, `min_lat`, `count_lat`, all `uint32_t` | count a reply, a timeout, a conflict; `get_stats` | every probe context embeds them |
| `ping` | role, queue, one pending request (`last_seq`, `send_ts`, `waiting`), statistics | create, feed, process, next_event, reset, get_stats | the application |
| `arprecon` | as ping, and a table of 64 neighbours | the same | the application |
| `traceroute` | as ping, and four counters for each of 32 hops | the same, `record_hop`, `hop_loss_pct` | the application; feed and process call `record_hop` |
| `nfct` | queue | create, feed, next_event, reset, two tuple extractors | the CPE forensics daemon, which owns the netlink socket |
| `nl80211_parse` | queue | create, feed, next_event, reset | the same daemon |
| `arping` | as ping, fed with ARP and NDP frames | as ping | the application |
| `dnsdiag` | as ping, fed with DNS messages; process does nothing | as ping | the application |
| `netdiag` | queue that nothing pushes to, last time | create, feed, process, next_event, reset | the application |
| `event_to_string`, eBPF accessors | none | formatting, constant tables | the application |
| `nmapdiag.c`, `bwdiag.c` | - | - | not built (`CMakeLists.txt` does not list them) and not declared |
| `tests/`, `fuzz/`, `examples/` | - | - | callers of the library |

Components do not call each other. They meet in the caller (the application's
loop of `docs/DOMAIN.md`: feed, process, drain, get_stats) and share the text of
the queue and of the statistics, which is why those are modules of their own
that the contexts are built from.

What makes each part correct:

- *queue*: first in, first out; nothing accepted is lost, duplicated, altered or
  overtaken; what a full queue loses is the newest; the indices enclose exactly
  `cnt` slots after any mix of pushes, pops and resets, also at sizes below 32;
- *statistics*: a percentage is one, an average lies between its extremes, and
  the counters count each occurrence once, also what the queue lost;
- *probe contexts*: a request times out at most once, not before its time, under
  its own number, not after a reset; a pending request is resolved if the caller
  keeps its side; the figures of get_stats agree with each other;
- *arprecon*: every conflict that the table shows is counted and reported behind
  the reply that shows it;
- *traceroute*: the hop table adds up to the totals, and an outcome goes to the
  hop it belongs to;
- *arping*, *dnsdiag*: the counters add up to what was on the wire, and the events
  follow it in its order; a timeout is reported after a silence only;
- *parsers*: an event is about one connection or station only, says so, and says
  what it does not know, whatever the order of attributes and whatever was parsed
  before; the walk stays inside its buffer, finds what was written and ends;
- *nfct with its daemon*: a table kept from the events lags behind the kernel's by
  what is under way and by nothing else, and catches up.

## Modules

| module | models | kind |
|---|---|---|
| `EventRing` | `qinit`, `qpush`, `qpop` as operators on a record | operators |
| `EventChannel` | what the queue promises: a bounded FIFO channel | abstract specification |
| `DiagStats` | the counters and `get_stats` modulo 2^32 | operators |
| `Ping` | `src/ping.c` and its caller | state machine |
| `ArpRecon` | `src/arprecon.c` and its caller | state machine |
| `Traceroute` | `src/traceroute.c` and its caller | state machine |
| `DnsDiag` | `src/dnsdiag.c` and its caller | state machine |
| `Arping` | `src/arping.c`, a context as a record | operators |
| `ArpingSession` | two `Arping` contexts and a lossy segment | composition |
| `Nfct` | `src/nfct.c`: the context, and the parser written with folds | operators and steps |
| `Conntrack` | the kernel's messages about a connection (outside the repository) | operators |
| `NatWatch` | `Nfct` between the kernel, a socket and the forensics daemon | composition |
| `Nl80211` | `src/nl80211_parse.c` and its caller | state machine on top of a parser written as folds |
| `NlaWalk` | how both parsers walk over the bytes of a buffer | state machine |
| `MC*` | constants, input sets and bounds for TLC | model checking |
| `PingClaims`, `ArpReconClaims`, `TracerouteClaims`, `NatWatchClaims`, `DnsDiagClaims` | what the documents say and the code does not do | refuted properties |
| `ContextProofs` | theorems about what every context embeds, the queue and the statistics, and about the folds that the parsers are written with | proofs |
| `PingProofs`, `DnsDiagProofs`, `ArpReconProofs`, `TracerouteProofs`, `ArpingSessionProofs`, `NatWatchProofs` | theorems about one state machine each | proofs |
| `ParserProofs` | theorems about `NlaWalk` and about `Nl80211` | proofs |

### How the state and the actions correspond to the code

A context's fields are variables of the same name (`waiting`, `send_ts`,
`last_seq`, `role`), and in `ArpingSession`, which has two contexts, fields of a
record; the queue is one record `ring` with the fields of the C structure,
including the slots that `qinit` does not clear; the seven counters are one record
`stats`. `now` is the caller's clock and `ev` the event structure it passes to
`next_event`. `asked`, `heard`, `taken`, `recorded`, `polled`, `produced`,
`changes` and `lost` are history variables: the code does not keep them, the
properties compare against them, and no guard of a handler reads them except to
bound the model.

One action is one API call with everything it changes: `FeedEchoReply` and
`FeedEchoRequest` are the two branches of `ping_feed_input_with_ts`,
`ping_process`, `ping_next_event` and `ping_reset` are those functions,
`ping_create_with_config` is part of `Init`. `FeedArpReply` contains the loop that
queues a spoof event for each conflict, and `FeedUnreachable` and
`traceroute_process` contain the call of `record_hop`. `Tick` advances the caller's
clock. A call that changes nothing (a packet too short, a null pointer, a packet
the role ignores) is a stuttering step and has no action; only in traceroute does
an ignored packet change something (`send_ts`), and there it is `FeedIgnored`.
`feed_input` without a time is the case `ts = 0`. `dnsdiag_process` has an empty
body and no action.

`ArpingSession` is the arrangement of the repository's dialectic tests: what one
host sends is fed to the context of the other. The segment is a set of frames; a
delivery may leave the frame in it (a duplicate that comes later) or take it out,
and `Lose` drops one, so frames are lost, delayed, duplicated and overtaken. An
answer is sent in the step that delivers the request, or never.

In `Nfct` and `Nl80211` a buffer is what the walk over lengths finds in it: a
sequence of messages, each a sequence of attributes. The nested loops are folds over
these sequences, or take the last attribute of a type where the loop does no more than
copy it, so a later attribute overwrites an earlier one as in the code. The
headers `SHORT` and `CUT` stand for the two early exits of the walk. Attributes
that change no more than a copied number (mark, zone, status, byte counters) are
left out, or one stands for all of them.

`NlaWalk` is the walk itself. The code has four nested loops in each parser
(messages, attributes, and two kinds of nested attributes), which are the same loop
with another header size: `level` says which runs, `off` and `end` are its `off` and
`len` as offsets into the whole buffer, `alen` the length in the header it is at.
Each way through a loop's body is an action: `AtEnd` (the `while` condition),
`Break`, `SkipShort` (`continue`), `Descend` (the call of the next loop) and
`Visit`. A buffer is `[len, start, at]`: its length, the level the walk starts on (2
for the bare attribute stream that the Wi-Fi parser takes as well, 1 otherwise), and
the headers written into it, by offset. Without headers its bytes are arbitrary: each
is chosen when it is read, which is sound because nothing is read twice
(`NothingReadTwice`, proved). With headers it is `LaidOut` as netlink does, the way
`nla_put` and `build_ct_new` of `tests/test_nfct_cta.c` do it: elements padded to four
bytes, one behind or within another, values on every level but that of messages, the
padding of the last element inside another there or not; and cut off at any byte.

In `NatWatch` only the context is code of this repository. `Create`, `Change` and
`Destroy` are the kernel's, which sends the message types and flags that the parser
distinguishes; `ReceiveSome` is the daemon's `recv` and `nfct_feed`, `TakeEvent` its
drain, `Apply` what `include/nfct.h` lets a daemon make of an event. These are marked
external in the map.

Abstractions of data: a packet is the fields that the handler reads; addresses
are model values; `reason` texts are left out except where they are the only
difference between two events (traceroute's timeout, dnsdiag's error code). A frame
that ends before the bytes which the handler reads yields whatever follows it in the
caller's buffer; this is covered because every value of these fields is enumerated
for each packet.

## What the runs check

Expected to pass:

- **ping** - `OneTimeoutPerRequest`, `PendingIsLastRequest`, `LossIsAllOrNothing`;
  steps: `TimeoutIsDue`, which also says what becomes of a request without a stamp;
  refinement: `KeepsEventPromise` (`EventChannel`); liveness:
  `StampedRequestResolves`, `FullQueueRecovers`.
- **arprecon** - `TableIsFirstHeard`, `DupsCountConflicts`, `SpoofFollowsItsReply`,
  `KeepsEventPromise`. `MCArpRecon` also assumes `SpoofsAreQpushCalls`, which TLC
  evaluates: the one-step operator for the burst of spoof events is repeated `qpush`,
  for every small queue (`SpoofsArePushes` proves it for every queue).
- **traceroute** - `HopTableAddsUp` (the loss of a hop is the exact share, rounded
  down), `AverageIsBetween` (smallest, average and largest latency), steps:
  `TimeoutBookedToItsHop`, `KeepsEventPromise`.
- **dnsdiag** - `BooksMatchTheWire`, `EventsFollowTheWire` (the events are the outcomes
  of the messages in their order, less those that a full queue lost),
  `KeepsEventPromise`.
- **arping_session** - `EventsInDeliveryOrder`, `BooksOfBothSides`,
  `TimeoutMeansSilence`: what the books of the two ends say of one exchange, whatever
  the segment does to the frames.
- **natwatch** - `RecoversConnection` (every order of the attributes and of those
  nested in them, one level at a time, for IPv4 and IPv6 connections, whole and in
  part), `BacklogExplainsLag`, `KeepsEventPromise`; liveness: `Converges`.
- **parsers** - the walk and the station parser, which share no state and run one
  after the other. The walk: `LevelsNest`, `NothingReadTwice`, `FindsWhatWasWritten`
  (when the walk of a written buffer ends, it found the values of its whole messages
  and nothing else, each once, in its length and in their order); liveness:
  `WalkEnds`. The stations: `StationsAreIdentified`, `StationsAreNotMixed` (what an
  event says comes from one message of one buffer, and is all that this message says;
  what it does not say is marked as unknown); steps: `EveryStationIsReported` (each
  message about a station yields one event, in its place among the others, whatever
  stands before it; what finds no room are the last ones).
Each also checks its modules' type invariants, which contain the index invariant of
the ring. Every property has a mutant: an operator next to the definition it replaces,
marked "Mutant", that breaks it the way a slip in the code would.

Expected to be violated, each a disagreement between a document and the code:

| run | the document | the code |
|---|---|---|
| ping_oldest_dropped | ADR 002:26 "oldest dropped if full" | `qpush` drops the new event (`src/ping.c:28`) |
| arprecon_conflicts | ADR 004:14 spoof events for "multiple MACs for same IP" | nothing is compared once the table is full (`src/arprecon.c:85`) |
| traceroute_stale_request | ADR 002:53 process scans for timeouts | any stamped packet makes the pending request young again (`src/traceroute.c:70`) |
| natwatch_new_means_created | `include/nfct.h:31` NEW is "Connection created" | a change of a known connection is reported as NEW too (`src/nfct.c:427`) |
| dnsdiag_answers_timed | ADR 002:21 "RTT calculated as `now_ms - send_ts`", ADR 002:52 "On reply: match seq, compute RTT, detect dups", `README.md:7` "timestamp-driven RTT/timeout" | the stamp of a response replaces that of its query before the two are compared: the latency is 0 (`src/dnsdiag.c:60`, `:77`) |

More are plain from one place in the code and have no run; no property of a passing
run asserts what the code does there:

- **No round trip is measured.** ADR 002:21 and :52 and `README.md:7` (see above) and
  `docs/DOMAIN.md:6` ("path latency"). In ping and arping only a responder stores a
  stamp (`src/ping.c:75`, `src/arping.c:76`), so a requester's latencies are all the
  placeholder 5. `src/traceroute.c:70` overwrites the stamp as dnsdiag does, so there
  they are 0 or 5, and as a requester never learns a sequence number, its replies all
  go to hop 0 (`:79`).
- **No reply is matched and no duplicate detected.** ADR 002:52 "match seq, [...]
  detect dups"; the comment at `src/dnsdiag.c:63` "(ID match + flags)". ping, arping,
  traceroute and dnsdiag count every reply, expected or repeated, as a reply
  (`src/ping.c:68`, `src/arping.c:70`, `src/dnsdiag.c:80`); only arprecon ever counts
  a duplicate. dnsdiag does not read the ID of a response.
- **dnsdiag has no timeouts.** ADR 002:53 "Periodic `process(now)`: scan for timeouts ->
  emit TIMEOUT + update loss stats", `docs/DOMAIN.md:18` "Calls `process(now_ms)`
  periodically for timeout/fault logic", `README.md:7`. `dnsdiag_process` is empty
  (`src/dnsdiag.c:93-98`): a responder's query stays pending until a reset. What it
  calls a timeout in its statistics is a message with an error code (`:70`).
- **arping reports its timeouts as duplicates.** `docs/DOMAIN.md:5` gives ARP_DUPLICATE
  for a duplicate answer (`:9` "duplicate replies, missing replies"), `include/netdiag.h:44`
  bit 0 of the flags for one; the timeout is queued with the type ARP_DUPLICATE
  (`src/arping.c:109`) and the flags are never set.
- **No event.** ADR 002:25 says next_event is "always `NETDIAG_EVENT_NONE` when no
  event"; `qpop` leaves the caller's structure as it was (`src/ping.c:32`).
- **Default sizes.** ADR 002:24 "default 16" where the probe contexts take 8
  (`src/ping.c:21`); `include/nfct.h:26` and `include/nl80211_parse.h:24` "0 = default
  (32)" where both take 16 (`src/nfct.c:70`, `src/nl80211_parse.c:47`).
- **`is_destroy`.** `include/nfct.h:71` "1 = DESTROY event (alias of type for callers)";
  a synthetic frame of type DESTROY leaves it at 0 (`src/nfct.c:355-358`).

### Bounds, and why they are enough

- `MAX_Q = 3` with configured sizes 0 (the default, 2), 1 and 4 (clamped) in ping:
  the ring wraps at a size below, equal to and, before the clamp, above the array.
  The queue lemmas hold for every size. The other runs use one small and one full or
  clamped size, and bring more events than either holds; the parsers' buffers yield
  up to two events, so a burst is cut in the middle.
- `MaxCount` (2 to 4) bounds replies and requests *between two resets*, so counters
  come back to it again and again; it is above the smallest queue of each run and
  above the number of neighbour slots, so both overflow.
- `MaxNow` (2 to 5) with `TIMEOUT = 1`: a request can be young, exactly at its limit
  and overdue, and a second one can follow it. In ping, requests are stamped only
  while there is time left for them to run out (`MayAsk`), so that the end of the
  clock does not look like a request that is never answered. In `ArpingSession` the
  clock lasts for two timeouts; dnsdiag has none, and two instants
  suffice: a query and a later response.
- `U32` is a few hundred and stands for 2^32; the assumptions of the modules keep
  100 times the counters below it, which is the range where the code's percentage
  is one. `DiagStats` computes modulo `U32` all the same. What happens beyond, after
  2^32/100 timeouts of one context without a reset or 2^32 ms of latency, is not
  examined.
- Sequence numbers: two, and in traceroute two that lie `MAX_HOPS` apart and share a
  hop. MACs: three, IPs: two, so two MACs can claim one address, three can, and two
  addresses interleave. In `ArpingSession` one MAC, and none: a second would tell no
  property apart.
- Connections: three, two of them with the same origin so that one can follow the
  other under a new id, and an IPv6 one; stations: two. They differ in the fields that
  are compared, so that a value taken from the wrong one is seen.
- `NatWatch`: three changes are a connection created, destroyed and another created
  in its place, or created, changed and destroyed; a socket and a buffer of two and a
  queue of one or two make each of them lose something. One synthetic frame.
- `MCParsers`: the station parser runs once the walk over a buffer of no bytes is over,
  so that the states of the two add up instead of multiplying; neither reads what the
  other writes. `CHECK_DEADLOCK FALSE`, as the walk stops at its end.
- `NlaWalk`: `LenMod = 128` stands for 2^32 and `AttrMod = 64` for 2^16; they and
  buffers of up to 96 bytes keep the order of sizes of the code (a length can lie far
  beyond the buffer). Arbitrary bytes: up to 36, which is a message with three levels
  of attributes or with four attributes; written buffers: one or two messages of one
  or two tuples, values beside and inside them, empty and filled nests, with and
  without the last padding, and bare attributes, each cut at every byte.
  `LevelsNest`, `NothingReadTwice` and `FindsWhatWasWritten` are proved for every buffer.

### Fairness

- `Ping!Fairness` is weak fairness of `Tick`, `ping_process(now)` and
  `ping_next_event`. The library has no scheduler; these are the duties that
  `docs/DOMAIN.md` (workflow, steps 3 to 5) and `ARCHITECTURE.md` give the caller:
  timestamps come from a monotonic clock, process is called periodically with the
  current time, the queue is drained. Nothing is assumed about packets or resets:
  neither has to come, and `StampedRequestResolves` ends when the caller asks again or
  resets.
- `NatWatch!WatchSpec`: the daemon's loop reads its socket while something is in it
  and drains the queue until it is empty, the use that `include/nfct.h` describes. The
  first is written `WF_sock(SocketIsRead)`, where `SocketIsRead` is what `ReceiveSome`
  and no other action does to the socket; it is the same step and costs TLC less.
  Nothing is assumed about the kernel or about resets; a loss ends the promise.
- `NlaWalk!WalkSpec`: the loops run in one call, so `WalkNext` goes on while it is
  enabled.

Safety properties need none of this; the other runs use `Spec` without fairness.

## What is proved

`tlapm` checks every step; the assumptions are the named `ASSUME`s of the modules
(sizes are natural numbers, the array has a slot, the clock and 100 times the
counters fit the word, a buffer is shorter than 2^32 - 3 bytes, and one that counts as
written is `LaidOut`, which TLC finds true of all that the writer in `MCNlaWalk`
produces; for the kernel's part
of `NatWatch`, that a connection has an id of its own and a protocol other than 0, and
that the attributes of a message about it are about it) and nothing else.

- `ContextProofs`, the queue: `qinit`, `qpush` and `qpop` keep the record in `Rings(Event)` and
  the indices together (`RingOK`), a push appends to `Contents` or changes nothing, a
  pop takes the head of `Contents` off, and an empty ring has empty contents. These
  lemmas speak of any set of events, so the other contexts can cite them.
- `ContextProofs`, bursts and folds: what `qpush` makes of a sequence of events is the
  front of it that there is room for (`BurstIsCut`); and what a `FoldLeft` reads, prefix
  by prefix (`FoldExists`, `UpTo`).
- `ContextProofs`, order: what pushes, pops and full queues do to a subsequence
  (`KeepLast`, `LeaveOut`, `AsReadPush`, `AsReadPop`).
- `ContextProofs`, the statistics: counters stay words, latencies are words, and `LossPctRange`: the
  loss is in 0..100 as long as 100 times the answers fits the word.
- `PingProofs`, for all sizes, sequence numbers, timeouts and bounds: `TypeCorrect`,
  `TimesOutOnce`, `PendingIsLast`, `LossAllOrNothing`, `TimesOutWhenDue`
  and `Refinement` (`Spec => Channel!Spec`).
- `DnsDiagProofs`, for all queue sizes, ids and response codes: `TypeCorrect`,
  `CountsTheWire`, `EventsInOrder` and `Refinement`.
- `ArpReconProofs`, for all sizes of queue and table and all MACs and addresses:
  `TypeCorrect`, `TableIsPrefix`, `CountsAllPairs`, `SpoofsFollow` and `Refinement`, and
  for all queues and lengths of a burst `SpoofsArePushes` (`PushSpoofs` is repeated
  `qpush`).
- `TracerouteProofs`, for all sizes of queue and hop table, sequence numbers and
  timeouts: `TypeCorrect`, `TableAddsUp`, `AverageInRange`, `TimeoutBooked` and
  `Refinement`.
- `ArpingSessionProofs`, for all queue sizes and frames and every behaviour of the
  segment: `TypeCorrect`, `DeliveryOrder`, `Books` and `SilenceBeforeTimeout`.
- `ParserProofs`, the walk, for buffers of any length and any bytes and any number of
  levels: `WalkTypeCorrect`, `WalkIsContained`, `ReadsOnce`, and `FindsAll` for those
  that are written, whatever the elements are, how many, how deep and where they are
  cut. `WalkAdvances` and `AheadIsBounded` are what `WalkEnds` rests on: every step but
  the last makes `Ahead` grow, and it stays between two bounds, so the walk is over
  after at most 2 * (MaxLen + 3) + 7 * Levels + 1 steps.
- `ParserProofs`, the Wi-Fi parser, for all sizes of queue and for buffers whose
  messages and attributes come in any order and any number of times or not at all, on
  every level: `TypeCorrect`, `StationsIdentified`, `StationsApart` and `Refinement`.
  That its context implements `EventChannel` (`KeepsEventPromise` of `Nl80211`) is
  proved only; the same is checked as well as proved for ping, arprecon, traceroute,
  dnsdiag and nfct.
- `NatWatchProofs`, for all sets of connections, all sizes of queue, socket and buffer,
  and messages whose attributes come in any order, any number of times or not at all
  (those nested in a tuple in any order and repeatedly, but all there):
  `TypeCorrect`, `EventsNameTheirConnection`, `NothingElseIsMissing` and `Refinement`.
  `IdleMeansUpToDate` and `EachRoundDrains` are what `Converges` rests on: a daemon that
  lost nothing and has nothing left to read or take knows exactly what the kernel
  has, and each of its two actions shortens `UnderWay`, which counts what is left.

The inductive invariant of ping is `Inv = TypeOK /\ CountsBounded /\ RoleBooks /\
OneTimeoutPerRequest /\ PendingIsLastRequest /\ SlotIsAsOldAsLastStamp`. A context keeps
the books of one role, and `RoleBooks` says so of its counters, its pending slot and of
each event in its queue; `LossIsAllOrNothing` follows from it and from the bounds of the
counters (`CountsBounded`), below which the product of the loss does not wrap.
`TimeoutIsDue` is an action property: the step that counts a timeout has its guard on
`send_ts`; `SlotIsAsOldAsLastStamp` turns that into the last stamp a request was given,
and `PendingIsLastRequest` the pending slot into the last request. `Refinement` has
one case per action: a counted event that finds room or does not is `Offer`, a pop
from a filled queue is `Take`, a reset is `Clear`, and everything else leaves the
mapped variables alone.

That of dnsdiag is `TypeOK /\ Books /\ InOrder`. `Books` ties each counter to the
messages fed, of which there are at most `MaxCount` between two resets, so no counter
wraps. `InOrder` says that what was taken and what is queued, read as outcomes, is a
subsequence of the outcomes of the messages. The lemmas for it are in `ContextProofs`
and shared with the arping session: an element is added to both sequences
(`KeepLast`) or to the longer one only (`LeaveOut`), and a push or a pop does to what
the queue tells what it does to the queue (`AsReadPush`, `AsReadPop`). In `Refinement` a
fault and a reply are `Offer`s of one event, whether or not there is room, and a query
changes nothing that the channel sees.

That of arprecon is `TypeOK /\ TableIsFirstHeard /\ DupsCountConflicts /\
CountsBounded`. A reply adds to the conflicting pairs exactly the conflicts of the new
sender (`PairsGrow`), and those are what the loop over the table counts; the pairs are
at most the square of the table, so the counter does not wrap. `BurstOK` is the lemma
for the queue: a burst keeps `RingOK`, fills the room there is and touches no earlier
event. `BurstOffers` makes of it one `Offer` of several events.
`SpoofFollowsItsReply` speaks of the queue only and is inductive beside `Inv`: its proof
writes the queue as a log of replies and the spoofs each of them showed, which a burst
lengthens (`LogGrows`) and a pop shortens from the front (`LogShrinks`);
`TableIsFirstHeard` names the earlier sender that a new spoof event is about, and
`BurstFills` says that where the queue cuts a burst off, it is its tail that is lost.

That of traceroute is `TypeOK /\ CountsBounded /\ PendingIsLast /\ HopBooks /\
TimeoutsAddUp /\ Latencies`. `HopTableAddsUp` speaks of sums over a table of any size,
and the sum is a fold that the prover cannot unfold. The proof counts instead: the sum
of a function over a finite set is the number of its *units*, pairs of a hop and a
number below the hop's count (`SumIsUnits`), and a step that counts an outcome adds
one unit. That they are equal is an induction over the set, done as a smallest
counterexample. `HopBooks` bounds each cell by what was fed, so no cell wraps;
`PendingIsLast` ties `last_seq` to the last request, which decides the hop.
`Latencies` says what the sum and the extremes of the latencies can be together;
`AverageIsBetween` is not inductive without the sum.

That of the arping session is `TypeOK /\ Roles /\ PendingIsLast /\ RequesterBooks /\
ResponderBooks /\ InOrder`. `InOrder` says that what was taken and what is queued is a
subsequence of what was heard. The witness of a subsequence is an increasing function
on indices, and each step gives a new one: a delivery extends it or, with a full queue,
leaves it, a pop moves the border between taken and queued and keeps it, a reset
empties both. The first attempt at this proof showed that the assumption on the clock
was too weak: the clock starts at 1, so `SessionAssumption` has to ask for `MaxNow > 0`.

That of the walk is `LevelsNest` with `read <= off[level] /\ read <= end[level]` for
the innermost loop. The second part is what makes the outer loop safe: when the inner
one ends, the outer goes on behind the element it was in, and that is behind all that
was read only because the inner one never read past its end. Padding is the one place
where arithmetic wraps; `AlignBounds` says that below 2^32 - 3 it adds at most three.

`FindsWhatWasWritten` needs `FindInv` beside it: on every level the walk is at an
element that was written or past the last of the one around it (`OnElement`), and what
it found are the values of whole messages written before the place it is at
(`Collected`), in order. A step that moves the place has to show that no other value
lies in between, and that is what the layout says: what starts after an element and
not behind it is within it, so going into the element or behind it passes over no
value that is not in it. Cut off, a message does not fit
what is left of the buffer, and `Break` gives up its values and those only, as
nothing whole is written behind it.

That of the conntrack parser with its daemon is `WatchTypeOK /\ SockOK(sock) /\
QueueIsFaithful /\ (~lost => Outlook = TruthOf(table))`. `QueueIsFaithful` says of each
queued event what `RecoversConnection` says, and that its type and id are what a daemon
can apply; `SockOK`, that the notices in the socket are such as the kernel sends;
`Outlook` is what the daemon's table will be once the queue and then the socket are
drained, which is the left side of `BacklogExplainsLag`. The proof goes up the parser: a
block of addresses or ports in any order gives the connection's (`IpBlock`,
`ProtoBlock`), so any run of such blocks gives its tuple (`TupleOK`), a message gives an
event about its connection or one that names none (`AttrsOK`, `MessageOK`), and a buffer
gives the events of its messages (`NetlinkOK`). A burst is cut at the queue's size and
keeps its front (`BurstIsCut`). What a daemon makes of a run of events is that of its
first part and then of its second (`ApplySplit`), and a message that says enough has the
effect of a whole one (`MessageEffect`): that is why reading the socket leaves `Outlook`
alone, and a change in the kernel changes it as it changes the truth. Several
assumptions of `NatWatch` were sharpened by this proof: ids have to be unique and a
protocol 0, which the extractors take for none, has to be excluded.

That of the Wi-Fi parser is `TypeOK` and that each queued event is `Sound`: it is
identified as `StationsAreIdentified` asks and told as `StationsAreNotMixed` asks. All
the work is in what the parser makes of a buffer. An attribute adds to the event what
it says and leaves alone what the earlier ones said: `Knows(e, macs, S)` is that the
event says what the addresses `macs` and the attributes `S` say, so a run of
attributes adds its range (`StaInfoOK` for those of a STA_INFO, `TopAttrsOK` for those
of a message). `MessagesOK`, `BareOK` and `FrameOK` make `Sound` events of the three
kinds of input, and `BurstIsCut` puts a front of them into the queue. `StationsApart`
rests on each message starting from `BlankStation`: with the event of the message
before it, `Knows` would hold of the attributes of both.

Induction over data is not available as a theorem of the library here, but a smallest
counterexample is: a property that fails for some number or set fails for a smallest
one, which well-foundedness (`NatLessThanWellFounded`,
`FS_StrictSubsetOrderingWellFounded`, with `WFMin`) gives, and the step below it
contradicts that. The sums of traceroute are proved so, and the folds of the two
parsers are followed so along the prefixes of a sequence (`FoldExists`, `UpTo`).

Only model-checked: the four liveness properties `StampedRequestResolves`,
`FullQueueRecovers`, `Converges` and `WalkEnds`, because fairness and ENABLED are out
of the prover's reach, and `EveryStationIsReported`, whose reference counts the due
messages of a buffer (`Due`) where the parser folds over them; what is proved of the
same events is `StationsIdentified`, `StationsApart` and `Refinement`. Of `Converges`
and `WalkEnds`, what fairness does not give is proved: the measure that every step
decreases, and what holds where it can decrease no more. Every other safety or action
property that a passing run checks is a theorem. That a written buffer is
`LaidOut` is an assumption of the proofs, as the bytes come from outside the library.

## Not modelled, and why

- `destroy` frees the context and ends the behaviour; `event_to_string` is formatting;
  the eBPF accessors return constants and the eBPF programs are placeholders.
- `nmapdiag.c` and `bwdiag.c` are not part of the build.
- `netdiag` stores a time that nothing reads and never queues an event: whatever is
  called, its queue is empty and `next_event` returns 0. There is nothing for a model
  to get wrong.
- A failed `calloc` gives no context, and every function rejects a null one.
- Buffers within three bytes of 2^32: there the padded length of a message could be 0.
- Numbers that the parsers copy without looking at them: mark, zone, status,
  frequencies, all but one of the station's counters.
- One parser fed in pieces: the code keeps nothing of a buffer after the call, so a
  message that a caller splits over two calls is two cut messages.

## Plan

1. Done: the queue and its promise, statistics, the five probe contexts, the two
   parsers and their walk, the two compositions; a proof of every safety and action
   property that a passing run checks but one, and of the promise of the queue for each
   context whose caller is modelled with the event structure it passes.
2. Open: a proof of `EveryStationIsReported`; and the two contexts of `ArpingSession` as
   two `EventChannel`s, which needs an event structure for each side; `InOrder` says for
   them what was taken and queued.
