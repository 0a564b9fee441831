----------------------------- MODULE Conntrack -----------------------------
(***************************************************************************)
(* The connections of the kernel's conntrack table and the nfnetlink       *)
(* messages it sends about them (ctnetlink, outside this repository): a    *)
(* client behind a NAT talks to a remote host, which sees the public       *)
(* address of the NAT.  A connection is of one address family.             *)
(***************************************************************************)
EXTENDS Sequences, Functions

\* Nested attributes, in the order of the fields.
Attr(type, value) == [type |-> type, value |-> value]

IpAttrs(c, src, dst) ==
  IF c.v6 THEN <<Attr("V6_SRC", src), Attr("V6_DST", dst)>>
  ELSE <<Attr("V4_SRC", src), Attr("V4_DST", dst)>>

ProtoAttrs(c, sport, dport) ==
  <<Attr("NUM", c.protocol), Attr("SRC_PORT", sport), Attr("DST_PORT", dport)>>

TupleAttrs(c, src, dst, sport, dport) ==
  <<Attr("IP", IpAttrs(c, src, dst)), Attr("PROTO", ProtoAttrs(c, sport, dport))>>

\* The direction of the first packet, and that of its answer after NAT.
OrigAttr(c) == Attr("ORIG", TupleAttrs(c, c.client, c.remote, c.cport, c.rport))
ReplyAttr(c) == Attr("REPLY", TupleAttrs(c, c.remote, c.public, c.rport, c.pport))
IdAttr(c) == Attr("ID", c.id)

Message(header, attrs) == [header |-> header, attrs |-> attrs]

----------------------------------------------------------------------------
(* The netlink protocol fixes no order of attributes.  These sets have what *)
(* the attributes of a message about c may be in any order, also when some *)
(* come repeatedly, but none of those that are nested in another is left   *)
(* out.                                                                    *)

Jumbled(s) == {t \in Seq(Range(s)) : Range(t) = Range(s)}

Blocks(c, src, dst, sport, dport) ==
  [type : {"IP"}, value : Jumbled(IpAttrs(c, src, dst))] \cup
  [type : {"PROTO"}, value : Jumbled(ProtoAttrs(c, sport, dport))]

TuplesOf(c, src, dst, sport, dport) ==
  {t \in Seq(Blocks(c, src, dst, sport, dport)) :
     {t[i].type : i \in 1..Len(t)} = {"IP", "PROTO"}}

AttrsAbout(c) ==
  [type : {"ORIG"}, value : TuplesOf(c, c.client, c.remote, c.cport, c.rport)] \cup
  [type : {"REPLY"}, value : TuplesOf(c, c.remote, c.public, c.rport, c.pport)] \cup
  {IdAttr(c)}
=============================================================================
