------------------------------ MODULE Nl80211 ------------------------------
(***************************************************************************)
(* The Wi-Fi station parser (src/src/nl80211_parse.c): a context that      *)
(* turns a buffer of generic-netlink messages, a bare attribute stream or  *)
(* one synthetic frame into station events, and the caller that feeds it,  *)
(* takes the events and resets it.                                         *)
(*                                                                         *)
(* A buffer is what the walks over lengths and padding find in it; the     *)
(* attributes that are too short or of unknown type change nothing and are *)
(* left out.  tx_retries stands for the counters, which are all copied     *)
(* alike; frequency_mhz, signal_avg_dbm and snr_db are left out as well.   *)
(***************************************************************************)
EXTENDS EventRing, SequencesExt

CONSTANTS
  Mac, NoMac,  \* client addresses; six zero bytes
  Byte,        \* payload bytes of SIGNAL and MCS attributes
  Count,       \* counter values
  Buffers,     \* the buffers fed, see below
  Frames,      \* the synthetic frames fed
  QueueSizes,  \* configured event_queue_size values; 0 also stands for config = NULL
  MaxEvents    \* bound of the events produced between two resets

Octet == 0..255
Dbm == Int         \* int32_t, which is only copied

\* The attributes of a message, those of a STA_INFO and those of a TX_BITRATE,
\* in any order, any number of times or not at all.
RateAttr == [type : {"MCS"}, value : Byte]
StaAttr == [type : {"SIGNAL"}, value : Byte] \cup
           [type : {"TX_RETRIES"}, value : Count] \cup
           [type : {"TX_BITRATE"}, value : Seq(RateAttr)]
TopAttr == [type : {"MAC"}, value : Mac] \cup
           [type : {"STA_INFO"}, value : Seq(StaAttr)]

\* SHORT has no room for genlmsghdr and is skipped; CUT is longer than what is
\* left of the buffer, or too short for its own header.
Header == {"STATION", "SHORT", "CUT"}

ASSUME Nl80211Assumption ==
  /\ NoMac \notin Mac
  /\ Byte \subseteq Octet
  /\ Count \subseteq Nat
  /\ Buffers \subseteq
       [bare : {TRUE}, attrs : Seq(TopAttr)] \cup
       [bare : {FALSE}, messages : Seq([header : Header, attrs : Seq(TopAttr)])]
  /\ Frames \subseteq [mac : Mac, signal : Dbm, mcs : Octet, retries : Count]
  /\ QueueSizes \subseteq Nat
  /\ MaxEvents \in Nat

Event == [type : {"NONE", "STATION", "ERROR"}, client_mac : Mac \cup {NoMac},
          signal_dbm : Dbm, mcs_index : Octet, tx_retries : Count \cup {0},
          has_mac : BOOLEAN, has_signal : BOOLEAN, has_mcs : BOOLEAN]

ZeroEvent == [type |-> "NONE", client_mac |-> NoMac, signal_dbm |-> 0,
              mcs_index |-> 0, tx_retries |-> 0,
              has_mac |-> FALSE, has_signal |-> FALSE, has_mcs |-> FALSE]

\* (int8_t)b
SignedByte(b) == IF b < 128 THEN b ELSE b - 256

\* The mcs_index of a station whose rate is not known.
NoMcs == 255

\* What each message starts from.
BlankStation ==
  [type |-> "STATION", client_mac |-> NoMac, signal_dbm |-> 0,
   mcs_index |-> NoMcs, tx_retries |-> 0,
   has_mac |-> FALSE, has_signal |-> FALSE, has_mcs |-> FALSE]

----------------------------------------------------------------------------
(* The nested attributes.  Each loop handles them in order, and a later    *)
(* one overwrites what an earlier one of its type set.                     *)

\* NL80211_RATE_INFO_MCS and _VHT_MCS are handled alike.
parse_rate_info(e, attrs) ==
  IF attrs = <<>> THEN e
  ELSE [e EXCEPT !.mcs_index = Last(attrs).value, !.has_mcs = TRUE]

parse_sta_info(ev, attrs) ==
  LET Step(e, a) ==
        CASE a.type = "SIGNAL" -> [e EXCEPT !.signal_dbm = SignedByte(a.value),
                                            !.has_signal = TRUE]
          [] a.type = "TX_RETRIES" -> [e EXCEPT !.tx_retries = a.value]
          [] a.type = "TX_BITRATE" -> parse_rate_info(e, a.value)
  IN  FoldLeft(Step, ev, attrs)

parse_top_attrs(ev, attrs) ==
  LET Step(e, a) ==
        CASE a.type = "MAC" -> [e EXCEPT !.client_mac = a.value, !.has_mac = TRUE]
          [] a.type = "STA_INFO" -> parse_sta_info(e, a.value)
  IN  FoldLeft(Step, ev, attrs)

HasStation(e) == e.has_mac \/ e.has_signal

----------------------------------------------------------------------------
(* A buffer is [bare, attrs] when its first word cannot be the length of a *)
(* message in it, and [bare, messages] otherwise; so a buffer whose first  *)
(* message is longer than the buffer is a bare stream, one without         *)
(* attributes.  SHORT has no room for genlmsghdr, CUT ends the walk.       *)

(* Mutant: a bare stream without a station is not reported. *)
SilentBare(attrs) ==
  LET e == parse_top_attrs(BlankStation, attrs)
  IN  IF HasStation(e) THEN <<e>> ELSE <<BlankStation>>

parse_bare(attrs) ==
  LET e == parse_top_attrs(BlankStation, attrs)
  IN  <<IF HasStation(e) THEN e ELSE [e EXCEPT !.type = "ERROR"]>>

\* The messages that the walk comes to: those before the first that is cut.
Walked(messages) ==
  LET cut == {i \in 1..Len(messages) : messages[i].header = "CUT"}
  IN  SubSeq(messages, 1, IF cut = {} THEN Len(messages) ELSE Min(cut) - 1)

(* Mutant: the event is not cleared from one message to the next. *)
CarryOver(messages) ==
  LET whole == SelectSeq(Walked(messages), LAMBDA msg : msg.header # "SHORT")
      event(i) == FoldLeft(LAMBDA e, msg : parse_top_attrs(e, msg.attrs), BlankStation,
                           SubSeq(whole, 1, i))
  IN  SelectSeq([i \in 1..Len(whole) |-> event(i)], HasStation)

(* Mutant: a station is dropped when its message does not name it. *)
NamedOnly(messages) ==
  LET Step(events, msg) ==
        LET e == parse_top_attrs(BlankStation, msg.attrs)
        IN  IF msg.header # "SHORT" /\ e.has_mac THEN Append(events, e) ELSE events
  IN  FoldLeft(Step, <<>>, Walked(messages))

\* A message without a station is dropped and not reported.
parse_messages(messages) ==
  LET Step(events, msg) ==
        LET e == parse_top_attrs(BlankStation, msg.attrs)
        IN  IF msg.header # "SHORT" /\ HasStation(e) THEN Append(events, e) ELSE events
  IN  FoldLeft(Step, <<>>, Walked(messages))

parse_nl80211_messages(buf) ==
  IF buf.bare THEN parse_bare(buf.attrs) ELSE parse_messages(buf.messages)

\* The event of a synthetic frame, whose signal has 32 bits.
try_synth(frame) ==
  [BlankStation EXCEPT !.client_mac = frame.mac, !.signal_dbm = frame.signal,
                       !.mcs_index = frame.mcs, !.tx_retries = frame.retries,
                       !.has_mac = TRUE, !.has_signal = TRUE, !.has_mcs = frame.mcs # NoMcs]

----------------------------------------------------------------------------
VARIABLES
  ring,     \* struct nl80211_parse_ctx: qsz, q, head, tail, cnt
  ev,       \* the caller's nl80211_event_t, the argument of next_event
  produced  \* history: events decoded since creation or reset

vars == <<ring, ev, produced>>

TypeOK ==
  /\ ring \in Rings(Event) /\ RingOK(ring)
  /\ ev \in Event
  /\ produced \in 0..MaxEvents

\* calloc, then qinit with the configured size.
nl80211_parse_create_with_config(size) == ring = qinit(Allocated(ZeroEvent), size)

Init ==
  /\ \E size \in QueueSizes : nl80211_parse_create_with_config(size)
  /\ ev = ZeroEvent
  /\ produced = 0

\* Each event is offered to the queue; what does not fit is lost.
PushAll(events) ==
  /\ produced + Len(events) <= MaxEvents
  /\ ring' = FoldLeft(qpush, ring, events)
  /\ produced' = produced + Len(events)

\* nl80211_parse_feed_input with a buffer, and with a synthetic frame.
FeedBuffer(buf) ==
  /\ PushAll(parse_nl80211_messages(buf))
  /\ UNCHANGED ev

FeedSynth(frame) ==
  /\ PushAll(<<try_synth(frame)>>)
  /\ UNCHANGED ev

\* An empty queue returns 0 and leaves *event as it was.
nl80211_parse_next_event ==
  /\ ring.cnt > 0
  /\ ring' = qpop(ring)
  /\ ev' = Oldest(ring)
  /\ UNCHANGED produced

(* Mutant: reset empties the queue and keeps the read index. *)
ResetKeepsHead ==
  /\ ring' = [qinit(ring, ring.qsz) EXCEPT !.head = ring.head]
  /\ produced' = 0
  /\ UNCHANGED ev

\* nl80211_parse_reset: qinit with the size in use.
nl80211_parse_reset ==
  /\ ring' = qinit(ring, ring.qsz)
  /\ produced' = 0
  /\ UNCHANGED ev

Next ==
  \/ \E buf \in Buffers : FeedBuffer(buf)
  \/ \E frame \in Frames : FeedSynth(frame)
  \/ nl80211_parse_next_event
  \/ nl80211_parse_reset

Spec == Init /\ [][Next]_vars

----------------------------------------------------------------------------
(* An ERROR is about no station and every other event about one: the two   *)
(* ways a buffer is read and the synthetic frame agree on it.              *)
StationsAreIdentified ==
  \A i \in 1..ring.cnt :
    LET e == Contents(ring)[i]
    IN  (e.type = "ERROR") <=> ~HasStation(e)

\* The attributes of each message in a buffer; a bare stream is one message.
MessagesOf(buf) ==
  IF buf.bare THEN {buf.attrs} ELSE {msg.attrs : msg \in Range(buf.messages)}

\* What the attributes of a type say, and the attributes nested in those of a
\* type.
Values(attrs, type) == {a.value : a \in {x \in attrs : x.type = type}}
Inside(attrs, type) == UNION {Range(s) : s \in Values(attrs, type)}

\* A value is one of those given, and marked as known, or the one for unknown.
Told(known, value, given, unknown) ==
  IF given = {} THEN ~known /\ value = unknown ELSE known /\ value \in given

\* e says what the attributes of one message say.
Reports(e, attrs) ==
  LET infos == Inside(Range(attrs), "STA_INFO")
      signals == {SignedByte(b) : b \in Values(infos, "SIGNAL")}
      retries == Values(infos, "TX_RETRIES")
  IN  /\ Told(e.has_mac, e.client_mac, Values(Range(attrs), "MAC"), NoMac)
      /\ Told(e.has_signal, e.signal_dbm, signals, 0)
      /\ Told(e.has_mcs, e.mcs_index, Values(Inside(infos, "TX_BITRATE"), "MCS"), NoMcs)
      /\ Told(retries # {}, e.tx_retries, retries, 0)

(* What an event says of a station comes from one message, whatever was in *)
(* the buffer before it, and nothing that this message says of the station *)
(* is missing; what it does not say has the documented value for unknown,  *)
(* 255 or 0, and not that of its predecessor.                              *)
StationsAreNotMixed ==
  \A i \in 1..ring.cnt :
    LET e == Contents(ring)[i]
    IN  \/ \E frame \in Frames : e = try_synth(frame)
        \/ \E buf \in Buffers : \E attrs \in MessagesOf(buf) : Reports(e, attrs)

\* Whether attributes are about a station: an address or a signal is enough.
AboutStation(attrs) ==
  \/ Values(Range(attrs), "MAC") # {}
  \/ Values(Inside(Range(attrs), "STA_INFO"), "SIGNAL") # {}

\* The attributes in a buffer that one event each is due for: a bare stream, or
\* the messages before the first that is cut off that are about a station.
Due(buf) ==
  IF buf.bare THEN <<buf.attrs>>
  ELSE LET due == {i \in DOMAIN buf.messages :
                     /\ \A j \in 1..i : buf.messages[j].header # "CUT"
                     /\ buf.messages[i].header = "STATION"
                     /\ AboutStation(buf.messages[i].attrs)}
       IN  [k \in 1..Cardinality(due) |->
              LET i == CHOOSE i \in due : Cardinality({j \in due : j <= i}) = k
              IN  buf.messages[i].attrs]

(* Every message about a station is reported once, in its place among the  *)
(* others and by what it says itself, also behind messages that say        *)
(* nothing, are skipped or do not name the station by its address; nothing *)
(* else is reported, and what finds no room are the last ones.             *)
EveryStationIsReported ==
  [][\A buf \in Buffers : FeedBuffer(buf) =>
       LET due == Due(buf)
           new == ring'.cnt - ring.cnt
       IN  /\ produced' - produced = Len(due)
           /\ new = Min2(Len(due), ring.qsz - ring.cnt)
           /\ \A k \in 1..new : Reports(Contents(ring')[ring.cnt + k], due[k])]_vars

----------------------------------------------------------------------------
(* The queue keeps the promise of EventChannel, with a buffer of several   *)
(* stations as one offer: the events that do not fit are its last ones.    *)
Channel == INSTANCE EventChannel WITH
  capacity <- ring.qsz, items <- Contents(ring), out <- ev

KeepsEventPromise == Channel!Spec
=============================================================================
