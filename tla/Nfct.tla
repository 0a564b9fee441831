-------------------------------- MODULE Nfct --------------------------------
(***************************************************************************)
(* The conntrack parser (src/src/nfct.c): a context that turns buffers of  *)
(* nfnetlink messages, or one synthetic test frame, into NAT events.       *)
(* NatWatch puts it between the kernel and a caller.                       *)
(*                                                                         *)
(* A buffer is the sequence of the messages parse_netlink walks over, a    *)
(* message the sequence of its attributes, and a nested attribute the      *)
(* sequence of those inside it: what the walk of NlaWalk finds, without    *)
(* the attributes that are too short or of unknown type, which change      *)
(* nothing.  mark, zone and status are copied like id and are left out     *)
(* too.  An address is a value, zero memory is NoAddr.                     *)
(***************************************************************************)
EXTENDS EventRing, SequencesExt

CONSTANTS
  Addr,        \* addresses, of both families
  NoAddr,      \* zero bytes
  Port, Id,    \* ports and CTA_ID values, numbers; 0 when absent
  Protocol,    \* IPPROTO_* values, numbers; 0 when absent
  QueueSizes,  \* configured event_queue_size values; 0 also stands for config = NULL
  MaxEvents    \* bound of the events produced between two resets

ASSUME NfctAssumption ==
  /\ NoAddr \notin Addr
  /\ Port \subseteq Nat /\ Id \subseteq Nat /\ Protocol \subseteq Nat
  /\ QueueSizes \subseteq Nat
  /\ MaxEvents \in Nat

AnyAddr == Addr \cup {NoAddr}
AnyPort == Port \cup {0}

\* nfct_event_t without mark, zone, status and reason.
Endpoints == [src : AnyAddr, dst : AnyAddr]
Ports == [src : AnyPort, dst : AnyPort]
Event == [type : {"NONE", "NEW", "UPDATE", "DESTROY", "PARTIAL"},
          protocol : Protocol \cup {0}, id : Id \cup {0},
          lan_ip : Endpoints, wan_ip : Endpoints,      \* lan_src_ip, lan_dst_ip, ...
          lan_ip6 : Endpoints, wan_ip6 : Endpoints,
          lan_port : Ports, wan_port : Ports,
          has_lan : BOOLEAN, has_wan : BOOLEAN, has_id : BOOLEAN,
          is_ipv6 : BOOLEAN, is_destroy : BOOLEAN]

NoEndpoints == [src |-> NoAddr, dst |-> NoAddr]
NoPorts == [src |-> 0, dst |-> 0]

\* memset(&ev, 0, sizeof(ev))
ZeroEvent ==
  [type |-> "NONE", protocol |-> 0, id |-> 0,
   lan_ip |-> NoEndpoints, wan_ip |-> NoEndpoints,
   lan_ip6 |-> NoEndpoints, wan_ip6 |-> NoEndpoints,
   lan_port |-> NoPorts, wan_port |-> NoPorts,
   has_lan |-> FALSE, has_wan |-> FALSE, has_id |-> FALSE,
   is_ipv6 |-> FALSE, is_destroy |-> FALSE]

\* tuple_t
ZeroTuple ==
  [ip |-> NoEndpoints, ip6 |-> NoEndpoints, port |-> NoPorts, proto |-> 0,
   has_ip |-> FALSE, has_ip6 |-> FALSE, has_proto |-> FALSE, has_ports |-> FALSE]

----------------------------------------------------------------------------
(* The nested attributes.  Each loop handles them in order, and a later    *)
(* one overwrites what an earlier one of its type set.                     *)

Has(attrs, type) == \E i \in 1..Len(attrs) : attrs[i].type = type

\* The value of the last attribute of a type; old if there is none.
LastOf(attrs, type, old) ==
  IF Has(attrs, type)
  THEN attrs[Max({i \in 1..Len(attrs) : attrs[i].type = type})].value
  ELSE old

parse_tuple_ip(t, attrs) ==
  [ip |-> [src |-> LastOf(attrs, "V4_SRC", t.ip.src),
           dst |-> LastOf(attrs, "V4_DST", t.ip.dst)],
   ip6 |-> [src |-> LastOf(attrs, "V6_SRC", t.ip6.src),
            dst |-> LastOf(attrs, "V6_DST", t.ip6.dst)],
   port |-> t.port, proto |-> t.proto,
   has_ip |-> t.has_ip \/ Has(attrs, "V4_SRC") \/ Has(attrs, "V4_DST"),
   has_ip6 |-> t.has_ip6 \/ Has(attrs, "V6_SRC") \/ Has(attrs, "V6_DST"),
   has_proto |-> t.has_proto, has_ports |-> t.has_ports]

parse_tuple_proto(t, attrs) ==
  [ip |-> t.ip, ip6 |-> t.ip6,
   port |-> [src |-> LastOf(attrs, "SRC_PORT", t.port.src),
             dst |-> LastOf(attrs, "DST_PORT", t.port.dst)],
   proto |-> LastOf(attrs, "NUM", t.proto),
   has_ip |-> t.has_ip, has_ip6 |-> t.has_ip6,
   has_proto |-> t.has_proto \/ Has(attrs, "NUM"),
   has_ports |-> t.has_ports \/ Has(attrs, "SRC_PORT") \/ Has(attrs, "DST_PORT")]

\* Clears the tuple, then fills it from each CTA_TUPLE_IP and CTA_TUPLE_PROTO.
parse_tuple(attrs) ==
  LET Step(t, a) == IF a.type = "IP" THEN parse_tuple_ip(t, a.value)
                    ELSE parse_tuple_proto(t, a.value)
  IN  FoldLeft(Step, ZeroTuple, attrs)

(* Mutant: the reply tuple is read in its own direction. *)
Unswapped(p) == p

Swapped(p) == [src |-> p.dst, dst |-> p.src]

\* is_ipv6: a tuple with an IPv4 address is IPv4, whatever else it has; the
\* reply can only set the flag.
IsIPv6(orig, reply) ==
  \/ ~orig.has_ip /\ orig.has_ip6
  \/ ~reply.has_ip /\ reply.has_ip6

(* Fills the event that the header of the message has given its type.      *)
(* ORIG is the LAN side as it is.  REPLY is the WAN side seen from the     *)
(* other end: its destination is the source address after NAT.             *)
parse_ct_attrs(attrs, type, gone) ==
  LET orig == parse_tuple(LastOf(attrs, "ORIG", <<>>))
      reply == parse_tuple(LastOf(attrs, "REPLY", <<>>))
  IN  [type |-> type,
       protocol |-> IF orig.has_proto THEN orig.proto ELSE reply.proto,
       id |-> LastOf(attrs, "ID", 0),
       lan_ip |-> orig.ip,
       lan_ip6 |-> IF orig.has_ip THEN NoEndpoints ELSE orig.ip6,
       wan_ip |-> Swapped(reply.ip),
       wan_ip6 |-> IF reply.has_ip THEN NoEndpoints ELSE Swapped(reply.ip6),
       lan_port |-> orig.port, wan_port |-> Swapped(reply.port),
       has_lan |-> orig.has_ip \/ orig.has_ip6,
       has_wan |-> reply.has_ip \/ reply.has_ip6,
       has_id |-> Has(attrs, "ID"),
       is_ipv6 |-> IsIPv6(orig, reply),
       is_destroy |-> gone]

----------------------------------------------------------------------------
\* What the header of a message says: its type, and NLM_F_CREATE (0x400) or
\* 0x100 in its flags.  SHORT has no room for nfgenmsg and is skipped; CUT is
\* longer than what is left of the buffer, or too short for its own header.
Header == {"DELETE", "NEW_CREATE", "NEW_0x100", "NEW_PLAIN", "OTHER", "SHORT", "CUT"}

TypeOf(header) ==
  CASE header = "DELETE" -> "DESTROY"
    [] header \in {"NEW_CREATE", "NEW_PLAIN"} -> "NEW"
    [] header \in {"NEW_0x100", "OTHER"} -> "UPDATE"

(* Mutant: a deletion without addresses is PARTIAL like any other message. *)
DeleteNeedsTuples(msg) ==
  LET ev == parse_ct_attrs(msg.attrs, TypeOf(msg.header), msg.header = "DELETE")
  IN  IF ev.has_lan \/ ev.has_wan THEN ev ELSE [ev EXCEPT !.type = "PARTIAL"]

\* The event of one message.  Without any address it is PARTIAL, but for a
\* DELETE that says which connection is gone.
EventOf(msg) ==
  LET ev == parse_ct_attrs(msg.attrs, TypeOf(msg.header), msg.header = "DELETE")
  IN  IF ev.has_lan \/ ev.has_wan \/ (ev.is_destroy /\ ev.has_id)
      THEN ev ELSE [ev EXCEPT !.type = "PARTIAL"]

\* parse_netlink: the events of a buffer, up to the first message that is cut.
parse_netlink(buf) ==
  LET cut == {i \in 1..Len(buf) : buf[i].header = "CUT"}
      walked == SubSeq(buf, 1, IF cut = {} THEN Len(buf) ELSE Min(cut) - 1)
      Step(events, msg) == IF msg.header = "SHORT" THEN events
                           ELSE Append(events, EventOf(msg))
  IN  FoldLeft(Step, <<>>, walked)

\* The event of a synthetic frame: both sides, IPv4, and is_destroy unset.
try_synth(frame) ==
  [type |-> frame.type, protocol |-> frame.protocol, id |-> 0,
   lan_ip |-> frame.lan_ip, wan_ip |-> frame.wan_ip,
   lan_ip6 |-> NoEndpoints, wan_ip6 |-> NoEndpoints,
   lan_port |-> frame.lan_port, wan_port |-> frame.wan_port,
   has_lan |-> TRUE, has_wan |-> TRUE, has_id |-> FALSE,
   is_ipv6 |-> FALSE, is_destroy |-> FALSE]

\* What the two extractors return, and the LAN and WAN source they give.
nfct_event_forensics_tuple(e) ==
  [ret |-> IF ~e.is_ipv6 /\ e.has_lan /\ e.protocol # 0 THEN 1 ELSE 0,
   lan |-> e.lan_ip.src, lan_port |-> e.lan_port.src,
   wan |-> e.wan_ip.src, wan_port |-> e.wan_port.src, protocol |-> e.protocol]

nfct_event_forensics_tuple_v6(e) ==
  [ret |-> IF e.is_ipv6 /\ e.has_lan /\ e.protocol # 0 THEN 1 ELSE 0,
   lan |-> e.lan_ip6.src, lan_port |-> e.lan_port.src,
   wan |-> e.wan_ip6.src, wan_port |-> e.wan_port.src, protocol |-> e.protocol]

----------------------------------------------------------------------------
VARIABLES
  ring,     \* struct nfct_ctx: qsz, q, head, tail, cnt; the role is never read
  ev,       \* the caller's nfct_event_t, the argument of nfct_next_event
  produced  \* history: events decoded since creation or reset

vars == <<ring, ev, produced>>

TypeOK ==
  /\ ring \in Rings(Event) /\ RingOK(ring)
  /\ ev \in Event
  /\ produced \in 0..MaxEvents

\* calloc, then qinit with the configured size.
nfct_create_with_config(size) == ring = qinit(Allocated(ZeroEvent), size)

Init ==
  /\ \E size \in QueueSizes : nfct_create_with_config(size)
  /\ ev = ZeroEvent
  /\ produced = 0

(* Mutant: one buffer yields one event, its last. *)
PushLast(events) ==
  /\ produced + Len(events) <= MaxEvents
  /\ ring' = IF events = <<>> THEN ring ELSE qpush(ring, Last(events))
  /\ produced' = produced + Len(events)

\* Each event is offered to the queue; what does not fit is lost.
PushAll(events) ==
  /\ produced + Len(events) <= MaxEvents
  /\ ring' = FoldLeft(qpush, ring, events)
  /\ produced' = produced + Len(events)

\* nfct_feed_input with netlink messages, and with a synthetic frame.
FeedNetlink(buf) ==
  /\ PushAll(parse_netlink(buf))
  /\ UNCHANGED ev

FeedSynth(frame) ==
  /\ PushAll(<<try_synth(frame)>>)
  /\ UNCHANGED ev

\* An empty queue returns 0 and leaves *event as it was.
nfct_next_event ==
  /\ ring.cnt > 0
  /\ ring' = qpop(ring)
  /\ ev' = Oldest(ring)
  /\ UNCHANGED produced

\* nfct_reset: qinit with the size in use.
nfct_reset ==
  /\ ring' = qinit(ring, ring.qsz)
  /\ produced' = 0
  /\ UNCHANGED ev

----------------------------------------------------------------------------
(* The queue keeps the promise of EventChannel, with a buffer of several   *)
(* messages as one offer: the events that do not fit are its last ones.    *)
Channel == INSTANCE EventChannel WITH
  capacity <- ring.qsz, items <- Contents(ring), out <- ev

KeepsEventPromise == Channel!Spec
=============================================================================
