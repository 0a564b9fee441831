----------------------------- MODULE MCNatWatch -----------------------------
(* Two IPv4 connections of one origin, of which the second may follow the  *)
(* first, and an IPv6 connection; their attributes whole, in part and in   *)
(* every order; synthetic frames of another emitter.                       *)
EXTENDS NatWatch, FiniteSets

CONSTANTS client, remote, public, client6, remote6, public6

MCAddr == {client, remote, public, client6, remote6, public6}
MCPort == {1, 2, 3, 4}
MCId == {7, 8, 9}
MCProtocol == {6, 17}
MCQueueSizes == {0, MAX_Q + 1}

First == [v6 |-> FALSE, client |-> client, remote |-> remote, public |-> public,
          cport |-> 1, rport |-> 2, pport |-> 3, protocol |-> 6, id |-> 7]
Second == [First EXCEPT !.pport = 4, !.id = 8]
Sixth == [v6 |-> TRUE, client |-> client6, remote |-> remote6, public |-> public6,
          cport |-> 2, rport |-> 1, pport |-> 3, protocol |-> 17, id |-> 9]
MCConns == {First, Second, Sixth}

\* What a message may be reduced to.
Parts == [First |-> {<<IdAttr(First)>>},
          Second |-> {<<IdAttr(Second)>>, <<OrigAttr(Second), IdAttr(Second)>>},
          Sixth |-> {<<IdAttr(Sixth)>>, <<OrigAttr(Sixth)>>,
                     <<ReplyAttr(Sixth), IdAttr(Sixth)>>}]

\* Every order of the elements of a sequence.
Orders(s) == {[i \in DOMAIN s |-> s[p[i]]] : p \in Permutations(DOMAIN s)}

\* A tuple attribute with its blocks, or what is nested in them, the other way round.
Inside(tuple) ==
  Attr(tuple.type, <<Attr("IP", Reverse(tuple.value[1].value)),
                     Attr("PROTO", Reverse(tuple.value[2].value))>>)
Around(tuple) == Attr(tuple.type, Reverse(tuple.value))

Shuffled(c) ==
  Orders(AllAttrs(c)) \cup
  {<<Inside(OrigAttr(c)), Around(ReplyAttr(c)), IdAttr(c)>>,
   <<Around(Inside(OrigAttr(c))), Inside(ReplyAttr(c)), IdAttr(c)>>}

MCAttrsOf ==
  First :> (Shuffled(First) \cup Parts.First) @@
  Second :> (Shuffled(Second) \cup Parts.Second) @@
  Sixth :> (Shuffled(Sixth) \cup Parts.Sixth)

MCFrames ==
  {[type |-> "NEW", protocol |-> 6,
    lan_ip |-> [src |-> client, dst |-> remote], lan_port |-> [src |-> 1, dst |-> 2],
    wan_ip |-> [src |-> public, dst |-> remote], wan_port |-> [src |-> 3, dst |-> 2]]}
=============================================================================
