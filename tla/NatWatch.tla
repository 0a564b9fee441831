------------------------------ MODULE NatWatch ------------------------------
(***************************************************************************)
(* The conntrack parser at work, between the kernel and the forensics      *)
(* daemon (ARCHITECTURE.md, "Application consumers"; nfct.h).  The kernel  *)
(* creates, changes and destroys connections and sends a message about     *)
(* each to the daemon's socket, which loses those it has no room for.  The *)
(* daemon reads some of them at a time into a buffer, feeds the buffer to  *)
(* the context, takes events out of it and keeps a table of the NAT        *)
(* mappings by CTA_ID.  Only the context is code of this repository: the   *)
(* daemon is modelled from what nfct.h offers it.                          *)
(***************************************************************************)
EXTENDS Nfct, Conntrack

CONSTANTS
  Conns,        \* connections there can be, each with an id of its own
  AttrsOf,      \* AttrsOf[c]: what the attributes of a message about c may be
  Frames,       \* synthetic frames that emitters put in place of messages
  SocketSize,   \* messages the socket holds
  BufferSize,   \* messages the daemon reads at a time
  MaxChanges,   \* bound of what happens to connections
  NoEntry       \* no mapping known

ASSUME NatWatchAssumption ==
  /\ \A c, d \in Conns : c.id = d.id => c = d
  /\ Conns \subseteq [v6 : BOOLEAN, client : Addr, remote : Addr, public : Addr,
                      cport : Port, rport : Port, pport : Port,
                      protocol : Protocol \ {0}, id : Id]
  /\ \A c \in Conns : AttrsOf[c] \subseteq Seq(AttrsAbout(c))
  /\ Frames \subseteq [type : {"NEW", "UPDATE", "DESTROY", "PARTIAL"},
                       protocol : Protocol \cup {0},
                       lan_ip : Endpoints, lan_port : Ports,
                       wan_ip : Endpoints, wan_port : Ports]
  /\ SocketSize \in Nat /\ BufferSize \in Nat
  /\ MaxChanges \in Nat /\ MaxChanges <= MaxEvents

VARIABLES
  table,    \* the kernel's connections
  sock,     \* the messages in the socket, as [header, conn]
  known,    \* the daemon's table: the mapping of each id
  changes,  \* history: what happened to connections so far
  lost      \* history: whether a message or an event was lost or was not whole

watchVars == <<ring, ev, produced, table, sock, known, changes, lost>>

\* What the daemon keeps of a connection: the endpoints of the extractors.
Entry == [lan : AnyAddr, lan_port : AnyPort, wan : AnyAddr, wan_port : AnyPort,
          protocol : Protocol]

Notice == [header : Header, conn : Conns]

WatchTypeOK ==
  /\ TypeOK
  /\ table \subseteq Conns
  /\ sock \in Seq(Notice) /\ Len(sock) <= SocketSize
  /\ known \in [Id -> Entry \cup {NoEntry}]
  /\ changes \in 0..MaxChanges
  /\ lost \in BOOLEAN

WatchInit ==
  /\ Init
  /\ table = {}
  /\ sock = <<>>
  /\ known = [id \in Id |-> NoEntry]
  /\ changes = 0
  /\ lost = FALSE

----------------------------------------------------------------------------
(* The kernel.  ctnetlink sends a creation with NLM_F_CREATE, a change     *)
(* with no flags and both as IPCTNL_MSG_CT_NEW.                            *)

SameOrigin(c, d) ==
  <<c.client, c.cport, c.remote, c.rport, c.protocol>> =
  <<d.client, d.cport, d.remote, d.rport, d.protocol>>

Notify(header, c) ==
  /\ changes < MaxChanges
  /\ changes' = changes + 1
  /\ IF Len(sock) < SocketSize
     THEN sock' = Append(sock, [header |-> header, conn |-> c]) /\ UNCHANGED lost
     ELSE lost' = TRUE /\ UNCHANGED sock
  /\ UNCHANGED <<ring, ev, produced, known>>

\* Of one origin there is one connection; another may follow it.
Create(c) ==
  /\ \A d \in table : ~SameOrigin(c, d)
  /\ table' = table \cup {c}
  /\ Notify("NEW_CREATE", c)

Change(c) ==
  /\ c \in table
  /\ Notify("NEW_PLAIN", c)
  /\ UNCHANGED table

Destroy(c) ==
  /\ c \in table
  /\ table' = table \ {c}
  /\ Notify("DELETE", c)

----------------------------------------------------------------------------
(* The daemon. *)

AllAttrs(c) == <<OrigAttr(c), ReplyAttr(c), IdAttr(c)>>

\* The messages in the socket as they are parsed when nothing is missing.
Whole(notices) ==
  [i \in 1..Len(notices) |-> Message(notices[i].header, AllAttrs(notices[i].conn))]

\* A deletion says enough if it has the id, another message if it has all.
SaysEnough(header, attrs) ==
  /\ Has(attrs, "ID")
  /\ header # "DELETE" => Has(attrs, "ORIG") /\ Has(attrs, "REPLY")

(* The daemon reads n messages and feeds them.  The attributes of the      *)
(* first may come in any order or be missing, and the last may be cut off  *)
(* by the end of the daemon's buffer.                                      *)
Receive(n, attrs, cut) ==
  LET buf == [i \in 1..n |-> Message(IF cut /\ i = n THEN "CUT" ELSE sock[i].header,
                                     IF i = 1 THEN attrs ELSE AllAttrs(sock[i].conn))]
  IN  /\ FeedNetlink(buf)
      /\ sock' = SubSeq(sock, n + 1, Len(sock))
      /\ lost' = (\/ lost \/ cut
                  \/ ~SaysEnough(sock[1].header, attrs)
                  \/ ring.cnt + Len(parse_netlink(buf)) > ring.qsz)
      /\ UNCHANGED <<table, known, changes>>

ReceiveFrame(frame) ==
  /\ produced + Len(sock) + (MaxChanges - changes) < MaxEvents
  /\ FeedSynth(frame)
  /\ lost' = (lost \/ ring.cnt = ring.qsz)
  /\ UNCHANGED <<table, sock, known, changes>>

EntryOf(x) ==
  [lan |-> x.lan, lan_port |-> x.lan_port, wan |-> x.wan, wan_port |-> x.wan_port,
   protocol |-> x.protocol]

\* What the daemon makes of an event: a deletion removes the mapping, another
\* event sets it if one of the extractors answers.
Apply(k, e) ==
  LET v4 == nfct_event_forensics_tuple(e)
      v6 == nfct_event_forensics_tuple_v6(e)
  IN  IF ~e.has_id THEN k
      ELSE IF e.type = "DESTROY" THEN [k EXCEPT ![e.id] = NoEntry]
      ELSE IF v4.ret = 1 THEN [k EXCEPT ![e.id] = EntryOf(v4)]
      ELSE IF v6.ret = 1 THEN [k EXCEPT ![e.id] = EntryOf(v6)]
      ELSE k

TakeEvent ==
  /\ nfct_next_event
  /\ known' = Apply(known, Oldest(ring))
  /\ UNCHANGED <<table, sock, changes, lost>>

StartOver ==
  /\ nfct_reset
  /\ lost' = (lost \/ ring.cnt > 0)
  /\ UNCHANGED <<table, sock, known, changes>>

ReceiveSome ==
  \E n \in 1..Min2(BufferSize, Len(sock)), cut \in BOOLEAN :
    \E attrs \in AttrsOf[Head(sock).conn] : Receive(n, attrs, cut)

WatchNext ==
  \/ \E c \in Conns : Create(c) \/ Change(c) \/ Destroy(c)
  \/ ReceiveSome
  \/ \E frame \in Frames : ReceiveFrame(frame)
  \/ TakeEvent
  \/ StartOver

\* What ReceiveSome, and no other action, does to the socket.
SocketIsRead == sock' \in {SubSeq(sock, n + 1, Len(sock)) : n \in 1..Len(sock)}

(* The daemon's event loop goes on: it reads its socket while there is     *)
(* something in it and drains the queue (nfct.h: next_event "0 if empty"). *)
WatchSpec ==
  /\ WatchInit /\ [][WatchNext]_watchVars
  /\ WF_sock(SocketIsRead) /\ WF_watchVars(TakeEvent)

----------------------------------------------------------------------------
\* The mapping of a connection, as the daemon keeps it.
Mapping(c) == [lan |-> c.client, lan_port |-> c.cport, wan |-> c.public,
               wan_port |-> c.pport, protocol |-> c.protocol]

Truth == [id \in Id |-> IF \E c \in table : c.id = id
                        THEN Mapping(CHOOSE c \in table : c.id = id) ELSE NoEntry]

(* The daemon is behind the kernel by what is under way and by nothing     *)
(* else: as long as nothing was lost, the events in the queue and then     *)
(* those of the messages in the socket turn what it knows into the NAT     *)
(* mappings of the connections there are, though changes come as NEW       *)
(* events, a deletion may have no addresses, attributes come in any order  *)
(* and one buffer holds several messages.                                  *)
BacklogExplainsLag ==
  ~lost => FoldLeft(Apply, known, Contents(ring) \o parse_netlink(Whole(sock))) = Truth

(* An event that names a connection is about that connection: its LAN side *)
(* is the client and the remote, its WAN side the public address and the   *)
(* remote, with their ports, and no other connection of the same buffer,   *)
(* no missing part and no order of the attributes changes that.            *)
RecoversConnection ==
  \A i \in 1..ring.cnt, c \in Conns :
    LET e == Contents(ring)[i]
        lan == [src |-> c.client, dst |-> c.remote]
        wan == [src |-> c.public, dst |-> c.remote]
    IN  e.has_id /\ e.id = c.id =>
          /\ e.has_lan => /\ (IF c.v6 THEN e.lan_ip6 ELSE e.lan_ip) = lan
                          /\ e.lan_port = [src |-> c.cport, dst |-> c.rport]
          /\ e.has_wan => /\ (IF c.v6 THEN e.wan_ip6 ELSE e.wan_ip) = wan
                          /\ e.wan_port = [src |-> c.pport, dst |-> c.rport]
          /\ e.has_lan \/ e.has_wan => e.is_ipv6 = c.v6 /\ e.protocol = c.protocol

(* Unless something is lost, the daemon ends up knowing exactly the        *)
(* mappings there are, once no more happens to the connections.            *)
Converges == <>[](lost \/ known = Truth)
=============================================================================
