--------------------------- MODULE NatWatchProofs ---------------------------
(***************************************************************************)
(* The conntrack parser between the kernel and the daemon, for every set   *)
(* of connections, every order, repetition and lack of attributes and      *)
(* every size of queue, socket and buffer: its events are about the        *)
(* connections they name, and nothing but what is known to be lost or      *)
(* still under way separates the daemon's table from the kernel's.         *)
(*                                                                         *)
(* The first parts say what the parser makes of attributes, tuples,        *)
(* messages and buffers, the next what the daemon makes of events.  The    *)
(* inductive invariant comes last.                                         *)
(***************************************************************************)
EXTENDS NatWatch, ContextProofs

----------------------------------------------------------------------------
(* What the parser makes of the attributes of a message. *)

\* The last attribute of a type is one of the attributes.
LEMMA LastIsThere ==
  ASSUME NEW A, NEW s \in Seq(A), NEW type, Has(s, type), NEW old
  PROVE  \E i \in 1..Len(s) : s[i].type = type /\ LastOf(s, type, old) = s[i].value
<1> DEFINE of == {i \in 1..Len(s) : s[i].type = type}
<1>1. PICK n \in Nat : n = Len(s)
  OBVIOUS
<1>2. of \in SUBSET (1..n) /\ of # {}
  BY <1>1 DEF Has
<1>3. Max(of) \in of
  <2> HIDE DEF of
  <2> QED
    BY <1>1, <1>2, MaxOK
<1>4. LastOf(s, type, old) = s[Max(of)].value
  BY DEF LastOf
<1> QED
  BY <1>3, <1>4

\* In whatever order, and however often, the attributes of base come, the
\* parser finds one of each type that is among them, and nothing else.
LEMMA JumbledOK ==
  ASSUME NEW base, NEW s \in Jumbled(base), NEW type, NEW old
  PROVE  \/ /\ Has(s, type)
            /\ \E a \in Range(base) : a.type = type /\ LastOf(s, type, old) = a.value
         \/ /\ ~Has(s, type) /\ LastOf(s, type, old) = old
            /\ \A a \in Range(base) : a.type # type
<1>1. s \in Seq(Range(base)) /\ Range(s) = Range(base)
  BY DEF Jumbled
<1>2. \A i \in 1..Len(s) : s[i] \in Range(base)
  BY <1>1
<1>3. \A a \in Range(base) : \E i \in 1..Len(s) : s[i] = a
  BY <1>1 DEF Range
<1>4. CASE Has(s, type)
  BY <1>1, <1>2, <1>4, LastIsThere
<1>5. CASE ~Has(s, type)
  BY <1>3, <1>5 DEF Has, LastOf
<1> QED
  BY <1>4, <1>5

\* Of the attributes in base, those of the type have the value, and there is one.
Sole(base, type, value) ==
  /\ \E a \in Range(base) : a.type = type
  /\ \A a \in Range(base) : a.type = type => a.value = value

\* What the parser finds of a type that base has, in any jumble of base.
LEMMA FoundIn ==
  ASSUME NEW base, NEW s \in Jumbled(base), NEW type, NEW value, Sole(base, type, value)
  PROVE  Has(s, type) /\ \A old : LastOf(s, type, old) = value
  BY JumbledOK DEF Sole

\* What the parser finds of a type that base does not have: nothing.
LEMMA NotFoundIn ==
  ASSUME NEW base, NEW s \in Jumbled(base), NEW type,
         \A a \in Range(base) : a.type # type
  PROVE  ~Has(s, type) /\ \A old : LastOf(s, type, old) = old
  BY JumbledOK

\* The tuple of one direction of connection c, as far as its parts were seen.
TupleSeen(c, src, dst, sport, dport, parts) ==
  LET ip == "IP" \in parts
      proto == "PROTO" \in parts
  IN  [ip |-> IF ip /\ ~c.v6 THEN [src |-> src, dst |-> dst] ELSE NoEndpoints,
       ip6 |-> IF ip /\ c.v6 THEN [src |-> src, dst |-> dst] ELSE NoEndpoints,
       port |-> IF proto THEN [src |-> sport, dst |-> dport] ELSE NoPorts,
       proto |-> IF proto THEN c.protocol ELSE 0,
       has_ip |-> ip /\ ~c.v6, has_ip6 |-> ip /\ c.v6,
       has_proto |-> proto, has_ports |-> proto]

\* Both of two attributes are found, whatever their order and number.
LEMMA TwoAttrs ==
  ASSUME NEW s, NEW ta, NEW tb, NEW x, NEW y, ta # tb,
         s \in Jumbled(<<Attr(ta, x), Attr(tb, y)>>)
  PROVE  /\ Has(s, ta) /\ \A old : LastOf(s, ta, old) = x
         /\ Has(s, tb) /\ \A old : LastOf(s, tb, old) = y
<1> DEFINE base == <<Attr(ta, x), Attr(tb, y)>>
<1>1. Range(base) = {Attr(ta, x), Attr(tb, y)}
  BY DEF Range
<1>2. /\ Attr(ta, x).type = ta /\ Attr(ta, x).value = x
      /\ Attr(tb, y).type = tb /\ Attr(tb, y).value = y
  BY DEF Attr
<1>3. Sole(base, ta, x) /\ Sole(base, tb, y)
  BY <1>1, <1>2 DEF Sole
<1>4. s \in Jumbled(base)
  OBVIOUS
<1> HIDE DEF base
<1>5. Has(s, ta) /\ \A old : LastOf(s, ta, old) = x
  BY <1>3, <1>4, FoundIn
<1>6. Has(s, tb) /\ \A old : LastOf(s, tb, old) = y
  BY <1>3, <1>4, FoundIn
<1> QED
  BY <1>5, <1>6

\* Next to two attributes, nothing of a third type is found.
LEMMA NoThird ==
  ASSUME NEW s, NEW ta, NEW tb, NEW x, NEW y, NEW tc, tc \notin {ta, tb},
         s \in Jumbled(<<Attr(ta, x), Attr(tb, y)>>)
  PROVE  ~Has(s, tc) /\ \A old : LastOf(s, tc, old) = old
<1> DEFINE base == <<Attr(ta, x), Attr(tb, y)>>
<1>1. Range(base) = {Attr(ta, x), Attr(tb, y)}
  BY DEF Range
<1>2. \A a \in Range(base) : a.type # tc
  BY <1>1 DEF Attr
<1>3. s \in Jumbled(base)
  OBVIOUS
<1> HIDE DEF base
<1> QED
  BY <1>2, <1>3, NotFoundIn

\* The protocol and both ports are found, whatever their order and number.
LEMMA ProtoAttrsFound ==
  ASSUME NEW c, NEW sport, NEW dport, NEW s \in Jumbled(ProtoAttrs(c, sport, dport))
  PROVE  /\ Has(s, "NUM") /\ \A old : LastOf(s, "NUM", old) = c.protocol
         /\ Has(s, "SRC_PORT") /\ \A old : LastOf(s, "SRC_PORT", old) = sport
         /\ Has(s, "DST_PORT") /\ \A old : LastOf(s, "DST_PORT", old) = dport
<1> DEFINE base == ProtoAttrs(c, sport, dport)
<1>1. Range(base) = {Attr("NUM", c.protocol), Attr("SRC_PORT", sport), Attr("DST_PORT", dport)}
  BY DEF Range, ProtoAttrs
<1>2. /\ Attr("NUM", c.protocol).type = "NUM" /\ Attr("NUM", c.protocol).value = c.protocol
      /\ Attr("SRC_PORT", sport).type = "SRC_PORT" /\ Attr("SRC_PORT", sport).value = sport
      /\ Attr("DST_PORT", dport).type = "DST_PORT" /\ Attr("DST_PORT", dport).value = dport
  BY DEF Attr
<1>3. s \in Jumbled(base)
  OBVIOUS
<1> HIDE DEF base
<1>4. Sole(base, "NUM", c.protocol) /\ Sole(base, "SRC_PORT", sport) /\ Sole(base, "DST_PORT", dport)
  BY <1>1, <1>2 DEF Sole
<1>5. Has(s, "NUM") /\ \A old : LastOf(s, "NUM", old) = c.protocol
  BY <1>3, <1>4, FoundIn
<1>6. Has(s, "SRC_PORT") /\ \A old : LastOf(s, "SRC_PORT", old) = sport
  BY <1>3, <1>4, FoundIn
<1>7. Has(s, "DST_PORT") /\ \A old : LastOf(s, "DST_PORT", old) = dport
  BY <1>3, <1>4, FoundIn
<1> QED
  BY <1>5, <1>6, <1>7

\* A tuple by its fields, in the order of ZeroTuple.
Tuple(ip, ip6, port, proto, has_ip, has_ip6, has_proto, has_ports) ==
  [ip |-> ip, ip6 |-> ip6, port |-> port, proto |-> proto,
   has_ip |-> has_ip, has_ip6 |-> has_ip6, has_proto |-> has_proto,
   has_ports |-> has_ports]

\* A tuple of which nothing was seen is the cleared one.
LEMMA NoParts ==
  ASSUME NEW c, c.v6 \in BOOLEAN, NEW src, NEW dst, NEW sport, NEW dport,
         NEW parts, "IP" \notin parts, "PROTO" \notin parts
  PROVE  TupleSeen(c, src, dst, sport, dport, parts) = ZeroTuple
<1>1. ("IP" \in parts) = FALSE /\ ("PROTO" \in parts) = FALSE
  OBVIOUS
<1>2. CASE c.v6
  BY <1>1, <1>2 DEF ZeroTuple, TupleSeen
<1>3. CASE ~c.v6
  BY <1>1, <1>3 DEF ZeroTuple, TupleSeen
<1> QED
  BY <1>2, <1>3

\* One block of IP attributes adds the addresses to what was seen before.
LEMMA IpBlock ==
  ASSUME NEW c, c.v6 \in BOOLEAN, NEW src, NEW dst, NEW sport, NEW dport,
         NEW parts,
         NEW s \in Jumbled(IpAttrs(c, src, dst))
  PROVE  parse_tuple_ip(TupleSeen(c, src, dst, sport, dport, parts), s) =
           TupleSeen(c, src, dst, sport, dport, parts \cup {"IP"})
<1> DEFINE t == TupleSeen(c, src, dst, sport, dport, parts)
           both == [src |-> src, dst |-> dst]
           A == Has(s, "V4_SRC") \/ Has(s, "V4_DST")
           B == Has(s, "V6_SRC") \/ Has(s, "V6_DST")
<1>0. /\ t.has_ip \in BOOLEAN /\ t.has_ip6 \in BOOLEAN
      /\ t.port = IF "PROTO" \in parts THEN [src |-> sport, dst |-> dport] ELSE NoPorts
      /\ t.proto = IF "PROTO" \in parts THEN c.protocol ELSE 0
      /\ t.has_proto = ("PROTO" \in parts) /\ t.has_ports = ("PROTO" \in parts)
      /\ t.has_proto \in BOOLEAN /\ t.has_ports \in BOOLEAN
  BY DEF TupleSeen, Tuple
<1>1. parse_tuple_ip(t, s) =
        Tuple([src |-> LastOf(s, "V4_SRC", t.ip.src), dst |-> LastOf(s, "V4_DST", t.ip.dst)],
              [src |-> LastOf(s, "V6_SRC", t.ip6.src), dst |-> LastOf(s, "V6_DST", t.ip6.dst)],
              t.port, t.proto, t.has_ip \/ A, t.has_ip6 \/ B, t.has_proto, t.has_ports)
  <2> HIDE DEF t
  <2> QED
    BY <1>0 DEF parse_tuple_ip, Tuple
<1>2. CASE c.v6
  <2>1. s \in Jumbled(<<Attr("V6_SRC", src), Attr("V6_DST", dst)>>)
    BY <1>2 DEF IpAttrs
  <2>2. /\ Has(s, "V6_SRC") /\ \A old : LastOf(s, "V6_SRC", old) = src
        /\ Has(s, "V6_DST") /\ \A old : LastOf(s, "V6_DST", old) = dst
    BY <2>1, TwoAttrs
  <2>3. /\ ~Has(s, "V4_SRC") /\ \A old : LastOf(s, "V4_SRC", old) = old
        /\ ~Has(s, "V4_DST") /\ \A old : LastOf(s, "V4_DST", old) = old
    BY <2>1, NoThird
  <2>4. ~t.has_ip /\ t.ip = [src |-> t.ip.src, dst |-> t.ip.dst] /\ t.ip = NoEndpoints
    BY <1>2 DEF TupleSeen, NoEndpoints
  <2>5. parse_tuple_ip(t, s) =
          Tuple(NoEndpoints, both, t.port, t.proto, FALSE, TRUE, t.has_proto, t.has_ports)
    <3> HIDE DEF t
    <3> QED
      BY <1>1, <2>2, <2>3, <2>4
  <2>6. /\ "IP" \in parts \cup {"IP"}
        /\ ("PROTO" \in parts \cup {"IP"}) = ("PROTO" \in parts)
    OBVIOUS
  <2> QED
    BY <1>0, <1>2, <2>5, <2>6 DEF TupleSeen, Tuple
<1>3. CASE ~c.v6
  <2>1. s \in Jumbled(<<Attr("V4_SRC", src), Attr("V4_DST", dst)>>)
    BY <1>3 DEF IpAttrs
  <2>2. /\ Has(s, "V4_SRC") /\ \A old : LastOf(s, "V4_SRC", old) = src
        /\ Has(s, "V4_DST") /\ \A old : LastOf(s, "V4_DST", old) = dst
    BY <2>1, TwoAttrs
  <2>3. /\ ~Has(s, "V6_SRC") /\ \A old : LastOf(s, "V6_SRC", old) = old
        /\ ~Has(s, "V6_DST") /\ \A old : LastOf(s, "V6_DST", old) = old
    BY <2>1, NoThird
  <2>4. ~t.has_ip6 /\ t.ip6 = [src |-> t.ip6.src, dst |-> t.ip6.dst] /\ t.ip6 = NoEndpoints
    BY <1>3 DEF TupleSeen, NoEndpoints
  <2>5. parse_tuple_ip(t, s) =
          Tuple(both, NoEndpoints, t.port, t.proto, TRUE, FALSE, t.has_proto, t.has_ports)
    <3> HIDE DEF t
    <3> QED
      BY <1>1, <2>2, <2>3, <2>4
  <2>6. /\ "IP" \in parts \cup {"IP"}
        /\ ("PROTO" \in parts \cup {"IP"}) = ("PROTO" \in parts)
    OBVIOUS
  <2> QED
    BY <1>0, <1>3, <2>5, <2>6 DEF TupleSeen, Tuple
<1> QED
  BY <1>2, <1>3

\* One block of protocol attributes adds protocol and ports to what was seen before.
LEMMA ProtoBlock ==
  ASSUME NEW c, NEW src, NEW dst, NEW sport, NEW dport,
         NEW parts,
         c.v6 \in BOOLEAN, NEW s \in Jumbled(ProtoAttrs(c, sport, dport))
  PROVE  parse_tuple_proto(TupleSeen(c, src, dst, sport, dport, parts), s) =
           TupleSeen(c, src, dst, sport, dport, parts \cup {"PROTO"})
<1> DEFINE t == TupleSeen(c, src, dst, sport, dport, parts)
<1>1. /\ Has(s, "NUM") /\ \A old : LastOf(s, "NUM", old) = c.protocol
      /\ Has(s, "SRC_PORT") /\ \A old : LastOf(s, "SRC_PORT", old) = sport
      /\ Has(s, "DST_PORT") /\ \A old : LastOf(s, "DST_PORT", old) = dport
  BY ProtoAttrsFound
<1>2. parse_tuple_proto(t, s) =
        Tuple(t.ip, t.ip6, [src |-> sport, dst |-> dport], c.protocol,
              t.has_ip, t.has_ip6, TRUE, TRUE)
  <2>1. t.has_proto \in BOOLEAN /\ t.has_ports \in BOOLEAN
    BY DEF TupleSeen
  <2> HIDE DEF t
  <2> QED
    BY <1>1, <2>1 DEF parse_tuple_proto, Tuple
<1>3. TupleSeen(c, src, dst, sport, dport, parts \cup {"PROTO"}) =
        Tuple(t.ip, t.ip6, [src |-> sport, dst |-> dport], c.protocol,
              t.has_ip, t.has_ip6, TRUE, TRUE)
  BY DEF TupleSeen, Tuple
<1> QED
  BY <1>2, <1>3

\* The tuple made of the first k attributes of a tuple attribute.
LEMMA TupleFold ==
  ASSUME NEW X, ZeroTuple \in X, NEW s, NEW n \in Nat, DOMAIN s = 1..n,
         \A t \in X, i \in 1..n :
           (IF s[i].type = "IP" THEN parse_tuple_ip(t, s[i].value)
            ELSE parse_tuple_proto(t, s[i].value)) \in X
  PROVE  \E h : /\ h[0] = ZeroTuple /\ parse_tuple(s) = h[n]
                /\ \A k \in 1..n :
                     h[k] = IF s[k].type = "IP" THEN parse_tuple_ip(h[k - 1], s[k].value)
                            ELSE parse_tuple_proto(h[k - 1], s[k].value)
<1> DEFINE D == SUBSET (1..n)
           Step(t, a) == IF a.type = "IP" THEN parse_tuple_ip(t, a.value)
                         ELSE parse_tuple_proto(t, a.value)
           F == [x \in X |-> [i \in 1..n |-> Step(x, s[i])]]
           Eq(g) == g = [S \in SUBSET DOMAIN s |->
                       IF S = {} THEN ZeroTuple ELSE Step(g[S \ {Max(S)}], s[Max(S)])]
           it == CHOOSE g : Eq(g)
<1>1. F \in [X -> [1..n -> X]]
  OBVIOUS
<1>2. parse_tuple(s) = it[1..n]
  <2>1. parse_tuple(s) = it[DOMAIN s]
    BY DEF parse_tuple, FoldLeft, MapThenFoldSet
  <2> HIDE DEF it
  <2> QED
    BY <2>1
<1> HIDE DEF Step
<1>3. \E g : Eq(g)
  <2> HIDE DEF F
  <2>1. PICK g : Folds(g, X, ZeroTuple, n, F)
    BY <1>1, FoldExists
  <2>2. ASSUME NEW S \in D, S # {}
        PROVE  F[g[S \ {Max(S)}]][Max(S)] = Step(g[S \ {Max(S)}], s[Max(S)])
    <3>1. Max(S) \in 1..n
      BY <2>2, MaxOK
    <3>2. g[S \ {Max(S)}] \in X
      BY <2>1 DEF Folds
    <3> QED
      BY <3>1, <3>2 DEF F
  <2>3. \A S \in D : g[S] = IF S = {} THEN ZeroTuple ELSE Step(g[S \ {Max(S)}], s[Max(S)])
    BY <2>1, <2>2 DEF Folds
  <2>4. Eq(g)
    BY <2>1, <2>3 DEF Folds
  <2> HIDE DEF Eq
  <2> QED
    BY <2>4
<1>4. Eq(it)
  <2> HIDE DEF Eq
  <2> QED
    BY <1>3
<1> HIDE DEF it
<1> DEFINE h == [k \in 0..n |-> it[1..k]]
<1>5. h[0] = ZeroTuple /\ h[n] = it[1..n]
  <2>1. 1..0 = {} /\ 1..0 \in SUBSET (1..n)
    OBVIOUS
  <2>2. it[1..0] = ZeroTuple
    BY <1>4, <2>1
  <2> QED
    BY <2>2
<1>6. ASSUME NEW k \in 1..n PROVE h[k] = Step(h[k - 1], s[k])
  <2>0. k \in Nat \ {0}
    OBVIOUS
  <2>1. 1..k # {} /\ 1..k \in SUBSET (1..n)
    <3>1. 1 \in 1..k /\ \A i \in 1..k : i \in 1..n
      OBVIOUS
    <3> QED
      BY <3>1
  <2>2. Max(1..k) = k /\ (1..k) \ {k} = 1..(k - 1)
    BY <2>0, MaxOfAll
  <2>3. it[1..k] = Step(it[(1..k) \ {Max(1..k)}], s[Max(1..k)])
    BY <1>4, <2>1
  <2>4. h[k] = it[1..k] /\ h[k - 1] = it[1..(k - 1)]
    OBVIOUS
  <2> HIDE DEF h
  <2> QED
    BY <2>2, <2>3, <2>4
<1> HIDE DEF h
<1> QED
  BY <1>2, <1>5, <1>6 DEF Step

\* A tuple attribute is understood in whatever order its parts come.
LEMMA TupleOK ==
  ASSUME NEW c, c.v6 \in BOOLEAN, NEW src, NEW dst, NEW sport, NEW dport,
         NEW s \in TuplesOf(c, src, dst, sport, dport)
  PROVE  parse_tuple(s) = TupleSeen(c, src, dst, sport, dport, {"IP", "PROTO"})
<1> DEFINE Seen(parts) == TupleSeen(c, src, dst, sport, dport, parts)
           X == {Seen(parts) : parts \in SUBSET {"IP", "PROTO"}}
           Step(t, a) == IF a.type = "IP" THEN parse_tuple_ip(t, a.value)
                         ELSE parse_tuple_proto(t, a.value)
<1>1. PICK n \in Nat : n = Len(s) /\ DOMAIN s = 1..n
  BY DEF TuplesOf
<1>2. \A i \in 1..n : \/ s[i].type = "IP" /\ s[i].value \in Jumbled(IpAttrs(c, src, dst))
                      \/ s[i].type = "PROTO" /\ s[i].value \in Jumbled(ProtoAttrs(c, sport, dport))
  BY <1>1 DEF TuplesOf, Blocks
<1>3. {s[i].type : i \in 1..n} = {"IP", "PROTO"}
  BY <1>1 DEF TuplesOf
<1>4. ASSUME NEW i \in 1..n, NEW parts
      PROVE  Step(Seen(parts), s[i]) = Seen(parts \cup {s[i].type})
  <2>1. \A v \in Jumbled(IpAttrs(c, src, dst)) :
          parse_tuple_ip(Seen(parts), v) = Seen(parts \cup {"IP"})
    BY IpBlock
  <2>2. \A v \in Jumbled(ProtoAttrs(c, sport, dport)) :
          parse_tuple_proto(Seen(parts), v) = Seen(parts \cup {"PROTO"})
    BY ProtoBlock
  <2> HIDE DEF Seen
  <2> QED
    BY <1>2, <2>1, <2>2
<1>5. ZeroTuple = Seen({})
  <2>1. "IP" \notin {} /\ "PROTO" \notin {}
    OBVIOUS
  <2> QED
    BY <2>1, NoParts
<1> HIDE DEF Seen
<1>6. \E h : /\ h[0] = ZeroTuple /\ parse_tuple(s) = h[n]
             /\ \A k \in 1..n : h[k] = Step(h[k - 1], s[k])
  <2>1. ZeroTuple \in X
    BY <1>5
  <2>2. \A i \in 1..n : s[i].type \in {"IP", "PROTO"}
    BY <1>2
  <2>3. \A t \in X, i \in 1..n : Step(t, s[i]) \in X
    <3> SUFFICES ASSUME NEW parts \in SUBSET {"IP", "PROTO"}, NEW i \in 1..n
                 PROVE  Step(Seen(parts), s[i]) \in X
      OBVIOUS
    <3>1. Step(Seen(parts), s[i]) = Seen(parts \cup {s[i].type})
      BY <1>4
    <3>2. parts \cup {s[i].type} \in SUBSET {"IP", "PROTO"}
      BY <2>2
    <3> HIDE DEF Step
    <3> QED
      BY <3>1, <3>2
  <2> HIDE DEF X
  <2> QED
    BY <1>1, <2>1, <2>3, TupleFold
<1>7. PICK h : /\ h[0] = ZeroTuple /\ parse_tuple(s) = h[n]
               /\ \A k \in 1..n : h[k] = Step(h[k - 1], s[k])
  BY <1>6
<1> HIDE DEF Step
<1> DEFINE Parts(k) == {s[i].type : i \in 1..k}
           P == {k \in 0..n : h[k] = Seen(Parts(k))}
<1>8. 0 \in P
  <2>1. Parts(0) = {}
    OBVIOUS
  <2> HIDE DEF Parts
  <2> QED
    BY <1>5, <1>7, <2>1
<1>9. ASSUME NEW k \in 1..n, k - 1 \in P PROVE k \in P
  <2>1. Parts(k) = Parts(k - 1) \cup {s[k].type}
    <3>1. 1..k = (1..(k - 1)) \cup {k}
      OBVIOUS
    <3> QED
      BY <3>1
  <2> HIDE DEF Parts
  <2>2. h[k] = Step(Seen(Parts(k - 1)), s[k])
    BY <1>7, <1>9
  <2>3. h[k] = Seen(Parts(k))
    BY <1>4, <2>1, <2>2
  <2> QED
    BY <2>3
<1>10. n \in P
  <2> HIDE DEF P
  <2>1. \A k \in 0..n : k \in P
    BY <1>8, <1>9, UpTo
  <2> QED
    BY <2>1
<1> QED
  BY <1>3, <1>7, <1>10 DEF Seen

\* No attribute, no tuple.
LEMMA EmptyTuple == parse_tuple(<<>>) = ZeroTuple
<1> DEFINE s == <<>>
           X == {ZeroTuple}
<1>1. PICK n \in Nat : n = 0
  OBVIOUS
<1>2. DOMAIN s = 1..n
  BY <1>1
<1>3. ZeroTuple \in X
  OBVIOUS
<1>4. \A t \in X, i \in 1..n :
        (IF s[i].type = "IP" THEN parse_tuple_ip(t, s[i].value)
         ELSE parse_tuple_proto(t, s[i].value)) \in X
  BY <1>1
<1> HIDE DEF s, X
<1>5. PICK h : h[0] = ZeroTuple /\ parse_tuple(s) = h[n]
  BY <1>2, <1>3, <1>4, TupleFold
<1> QED
  BY <1>1, <1>5 DEF s

\* The fields of a cleared tuple.
LEMMA ZeroFields ==
  /\ ZeroTuple.ip = NoEndpoints /\ ZeroTuple.ip6 = NoEndpoints /\ ZeroTuple.port = NoPorts
  /\ ZeroTuple.proto = 0 /\ ZeroTuple.has_ip = FALSE /\ ZeroTuple.has_ip6 = FALSE
  /\ ZeroTuple.has_proto = FALSE
  BY DEF ZeroTuple

\* What the parser makes of attributes about c.
EventAbout(c, attrs, type, gone) ==
  LET lan == Has(attrs, "ORIG")
      wan == Has(attrs, "REPLY")
  IN  [type |-> type,
       protocol |-> IF lan \/ wan THEN c.protocol ELSE 0,
       id |-> IF Has(attrs, "ID") THEN c.id ELSE 0,
       lan_ip |-> IF lan /\ ~c.v6 THEN [src |-> c.client, dst |-> c.remote] ELSE NoEndpoints,
       lan_ip6 |-> IF lan /\ c.v6 THEN [src |-> c.client, dst |-> c.remote] ELSE NoEndpoints,
       wan_ip |-> IF wan /\ ~c.v6 THEN [src |-> c.public, dst |-> c.remote] ELSE NoEndpoints,
       wan_ip6 |-> IF wan /\ c.v6 THEN [src |-> c.public, dst |-> c.remote] ELSE NoEndpoints,
       lan_port |-> IF lan THEN [src |-> c.cport, dst |-> c.rport] ELSE NoPorts,
       wan_port |-> IF wan THEN [src |-> c.pport, dst |-> c.rport] ELSE NoPorts,
       has_lan |-> lan, has_wan |-> wan, has_id |-> Has(attrs, "ID"),
       is_ipv6 |-> c.v6 /\ (lan \/ wan),
       is_destroy |-> gone]

\* The parser makes of attributes about c what EventAbout says, in any order and
\* with any of them missing or repeated.
LEMMA AttrsOK ==
  ASSUME NEW c, c.v6 \in BOOLEAN, NEW attrs \in Seq(AttrsAbout(c)),
         NEW type, NEW gone
  PROVE  parse_ct_attrs(attrs, type, gone) = EventAbout(c, attrs, type, gone)
<1> DEFINE orig == parse_tuple(LastOf(attrs, "ORIG", <<>>))
           reply == parse_tuple(LastOf(attrs, "REPLY", <<>>))
<1>1. \A i \in 1..Len(attrs) : attrs[i] \in AttrsAbout(c)
  OBVIOUS
<1>2. ASSUME Has(attrs, "ORIG")
      PROVE  orig = TupleSeen(c, c.client, c.remote, c.cport, c.rport, {"IP", "PROTO"})
  <2>1. PICK i \in 1..Len(attrs) :
               attrs[i].type = "ORIG" /\ LastOf(attrs, "ORIG", <<>>) = attrs[i].value
    BY <1>2, LastIsThere
  <2>2. attrs[i].value \in TuplesOf(c, c.client, c.remote, c.cport, c.rport)
    BY <1>1, <2>1 DEF AttrsAbout, IdAttr, Attr
  <2> QED
    BY <2>1, <2>2, TupleOK
<1>3. ASSUME Has(attrs, "REPLY")
      PROVE  reply = TupleSeen(c, c.remote, c.public, c.rport, c.pport, {"IP", "PROTO"})
  <2>1. PICK i \in 1..Len(attrs) :
               attrs[i].type = "REPLY" /\ LastOf(attrs, "REPLY", <<>>) = attrs[i].value
    BY <1>3, LastIsThere
  <2>2. attrs[i].value \in TuplesOf(c, c.remote, c.public, c.rport, c.pport)
    BY <1>1, <2>1 DEF AttrsAbout, IdAttr, Attr
  <2> QED
    BY <2>1, <2>2, TupleOK
<1>4. LastOf(attrs, "ID", 0) = IF Has(attrs, "ID") THEN c.id ELSE 0
  <2>1. CASE Has(attrs, "ID")
    <3>1. PICK i \in 1..Len(attrs) :
                 attrs[i].type = "ID" /\ LastOf(attrs, "ID", 0) = attrs[i].value
      BY <2>1, LastIsThere
    <3>2. attrs[i].value = c.id
      BY <1>1, <3>1 DEF AttrsAbout, IdAttr, Attr
    <3> QED
      BY <2>1, <3>1, <3>2
  <2>2. CASE ~Has(attrs, "ID")
    BY <2>2 DEF LastOf
  <2> QED
    BY <2>1, <2>2
<1>5. ~Has(attrs, "ORIG") => orig = ZeroTuple
  BY EmptyTuple DEF LastOf
<1>6. ~Has(attrs, "REPLY") => reply = ZeroTuple
  BY EmptyTuple DEF LastOf
<1>7. Has(attrs, "ORIG") \in BOOLEAN /\ Has(attrs, "REPLY") \in BOOLEAN /\ Has(attrs, "ID") \in BOOLEAN
  BY DEF Has
<1>8. parse_ct_attrs(attrs, type, gone) =
        [type |-> type,
         protocol |-> IF orig.has_proto THEN orig.proto ELSE reply.proto,
         id |-> IF Has(attrs, "ID") THEN c.id ELSE 0,
         lan_ip |-> orig.ip,
         lan_ip6 |-> IF orig.has_ip THEN NoEndpoints ELSE orig.ip6,
         wan_ip |-> Swapped(reply.ip),
         wan_ip6 |-> IF reply.has_ip THEN NoEndpoints ELSE Swapped(reply.ip6),
         lan_port |-> orig.port, wan_port |-> Swapped(reply.port),
         has_lan |-> orig.has_ip \/ orig.has_ip6,
         has_wan |-> reply.has_ip \/ reply.has_ip6,
         has_id |-> Has(attrs, "ID"),
         is_ipv6 |-> IsIPv6(orig, reply),
         is_destroy |-> gone]
  BY <1>4 DEF parse_ct_attrs
<1> HIDE DEF orig, reply
<1>9. /\ orig.ip = IF Has(attrs, "ORIG") /\ ~c.v6
                   THEN [src |-> c.client, dst |-> c.remote] ELSE NoEndpoints
      /\ orig.ip6 = IF Has(attrs, "ORIG") /\ c.v6
                    THEN [src |-> c.client, dst |-> c.remote] ELSE NoEndpoints
      /\ orig.port = IF Has(attrs, "ORIG") THEN [src |-> c.cport, dst |-> c.rport] ELSE NoPorts
      /\ orig.proto = IF Has(attrs, "ORIG") THEN c.protocol ELSE 0
      /\ orig.has_ip = (Has(attrs, "ORIG") /\ ~c.v6)
      /\ orig.has_ip6 = (Has(attrs, "ORIG") /\ c.v6)
      /\ orig.has_proto = Has(attrs, "ORIG")
  <2>1. CASE Has(attrs, "ORIG")
    BY <1>2, <1>7, <2>1 DEF TupleSeen
  <2>2. CASE ~Has(attrs, "ORIG")
    BY <1>5, <1>7, <2>2, ZeroFields
  <2> QED
    BY <2>1, <2>2
<1>10. /\ reply.ip = IF Has(attrs, "REPLY") /\ ~c.v6
                     THEN [src |-> c.remote, dst |-> c.public] ELSE NoEndpoints
       /\ reply.ip6 = IF Has(attrs, "REPLY") /\ c.v6
                      THEN [src |-> c.remote, dst |-> c.public] ELSE NoEndpoints
       /\ reply.port = IF Has(attrs, "REPLY") THEN [src |-> c.rport, dst |-> c.pport] ELSE NoPorts
       /\ reply.proto = IF Has(attrs, "REPLY") THEN c.protocol ELSE 0
       /\ reply.has_ip = (Has(attrs, "REPLY") /\ ~c.v6)
       /\ reply.has_ip6 = (Has(attrs, "REPLY") /\ c.v6)
  <2>1. CASE Has(attrs, "REPLY")
    BY <1>3, <1>7, <2>1 DEF TupleSeen
  <2>2. CASE ~Has(attrs, "REPLY")
    BY <1>6, <1>7, <2>2, ZeroFields
  <2> QED
    BY <2>1, <2>2
<1>11. /\ Swapped(reply.ip) = IF Has(attrs, "REPLY") /\ ~c.v6
                              THEN [src |-> c.public, dst |-> c.remote] ELSE NoEndpoints
       /\ (IF reply.has_ip THEN NoEndpoints ELSE Swapped(reply.ip6)) =
            IF Has(attrs, "REPLY") /\ c.v6
            THEN [src |-> c.public, dst |-> c.remote] ELSE NoEndpoints
       /\ Swapped(reply.port) = IF Has(attrs, "REPLY")
                                THEN [src |-> c.pport, dst |-> c.rport] ELSE NoPorts
  <2>1. Swapped(NoEndpoints) = NoEndpoints /\ Swapped(NoPorts) = NoPorts
    BY DEF Swapped, NoEndpoints, NoPorts
  <2>2. /\ Swapped([src |-> c.remote, dst |-> c.public]) = [src |-> c.public, dst |-> c.remote]
        /\ Swapped([src |-> c.rport, dst |-> c.pport]) = [src |-> c.pport, dst |-> c.rport]
    BY DEF Swapped
  <2> QED
    BY <1>7, <1>10, <2>1, <2>2
<1>12. /\ (IF orig.has_ip THEN NoEndpoints ELSE orig.ip6) =
            IF Has(attrs, "ORIG") /\ c.v6 THEN [src |-> c.client, dst |-> c.remote] ELSE NoEndpoints
       /\ (IF orig.has_proto THEN orig.proto ELSE reply.proto) =
            IF Has(attrs, "ORIG") \/ Has(attrs, "REPLY") THEN c.protocol ELSE 0
       /\ (orig.has_ip \/ orig.has_ip6) = Has(attrs, "ORIG")
       /\ (reply.has_ip \/ reply.has_ip6) = Has(attrs, "REPLY")
       /\ IsIPv6(orig, reply) = (c.v6 /\ (Has(attrs, "ORIG") \/ Has(attrs, "REPLY")))
  BY <1>7, <1>9, <1>10 DEF IsIPv6
<1> QED
  BY <1>8, <1>9, <1>11, <1>12 DEF EventAbout

\* The headers of the kernel's messages.
Sent == {"NEW_CREATE", "NEW_PLAIN", "DELETE"}

\* What the assumption on the kernel's connections says of one of them.
LEMMA ConnOK ==
  ASSUME NEW c \in Conns
  PROVE  /\ c.v6 \in BOOLEAN /\ c.client \in Addr /\ c.remote \in Addr /\ c.public \in Addr
         /\ c.cport \in Port /\ c.rport \in Port /\ c.pport \in Port
         /\ c.protocol \in Protocol /\ c.protocol # 0 /\ c.id \in Id
         /\ \A d \in Conns : d.id = c.id => d = c
  BY NatWatchAssumption

\* The fields of the event about c.
LEMMA AboutFields ==
  ASSUME NEW c \in Conns, NEW attrs, NEW type, NEW gone, NEW a,
         a = EventAbout(c, attrs, type, gone)
  PROVE  /\ a.has_lan = Has(attrs, "ORIG") /\ a.has_wan = Has(attrs, "REPLY")
         /\ a.has_id = Has(attrs, "ID")
         /\ a.has_lan \in BOOLEAN /\ a.has_wan \in BOOLEAN /\ a.has_id \in BOOLEAN
         /\ a.id = IF a.has_id THEN c.id ELSE 0
         /\ a.protocol = IF a.has_lan \/ a.has_wan THEN c.protocol ELSE 0
         /\ a.is_ipv6 = (c.v6 /\ (a.has_lan \/ a.has_wan))
         /\ a.lan_ip = IF a.has_lan /\ ~c.v6 THEN [src |-> c.client, dst |-> c.remote] ELSE NoEndpoints
         /\ a.lan_ip6 = IF a.has_lan /\ c.v6 THEN [src |-> c.client, dst |-> c.remote] ELSE NoEndpoints
         /\ a.wan_ip = IF a.has_wan /\ ~c.v6 THEN [src |-> c.public, dst |-> c.remote] ELSE NoEndpoints
         /\ a.wan_ip6 = IF a.has_wan /\ c.v6 THEN [src |-> c.public, dst |-> c.remote] ELSE NoEndpoints
         /\ a.lan_port = IF a.has_lan THEN [src |-> c.cport, dst |-> c.rport] ELSE NoPorts
         /\ a.wan_port = IF a.has_wan THEN [src |-> c.pport, dst |-> c.rport] ELSE NoPorts
         /\ a.type = type /\ a.is_destroy = gone
<1>1. Has(attrs, "ORIG") \in BOOLEAN /\ Has(attrs, "REPLY") \in BOOLEAN /\ Has(attrs, "ID") \in BOOLEAN
  BY DEF Has
<1> QED
  BY <1>1 DEF EventAbout

\* PARTIAL differs from a whole event in its type only.
LEMMA PartialOK ==
  ASSUME NEW c, NEW attrs, NEW type, NEW gone
  PROVE  [EventAbout(c, attrs, type, gone) EXCEPT !.type = "PARTIAL"] =
           EventAbout(c, attrs, "PARTIAL", gone)
<1> DEFINE a == EventAbout(c, attrs, type, gone)
           b == EventAbout(c, attrs, "PARTIAL", gone)
<1>1. PICK f1, f2, f3, f4, f5, f6, f7, f8, f9, f10, f11, f12, f13 :
        /\ f1 = a.protocol /\ f2 = a.id /\ f3 = a.lan_ip /\ f4 = a.lan_ip6
        /\ f5 = a.wan_ip /\ f6 = a.wan_ip6 /\ f7 = a.lan_port /\ f8 = a.wan_port
        /\ f9 = a.has_lan /\ f10 = a.has_wan /\ f11 = a.has_id /\ f12 = a.is_ipv6
        /\ f13 = a.is_destroy
  BY Zenon
<1>2. a = [type |-> type, protocol |-> f1, id |-> f2, lan_ip |-> f3, lan_ip6 |-> f4,
           wan_ip |-> f5, wan_ip6 |-> f6, lan_port |-> f7, wan_port |-> f8,
           has_lan |-> f9, has_wan |-> f10, has_id |-> f11, is_ipv6 |-> f12,
           is_destroy |-> f13]
  BY <1>1 DEF EventAbout
<1>3. b = [type |-> "PARTIAL", protocol |-> f1, id |-> f2, lan_ip |-> f3, lan_ip6 |-> f4,
           wan_ip |-> f5, wan_ip6 |-> f6, lan_port |-> f7, wan_port |-> f8,
           has_lan |-> f9, has_wan |-> f10, has_id |-> f11, is_ipv6 |-> f12,
           is_destroy |-> f13]
  BY <1>1 DEF EventAbout
<1>4. [[type |-> type, protocol |-> f1, id |-> f2, lan_ip |-> f3, lan_ip6 |-> f4,
        wan_ip |-> f5, wan_ip6 |-> f6, lan_port |-> f7, wan_port |-> f8,
        has_lan |-> f9, has_wan |-> f10, has_id |-> f11, is_ipv6 |-> f12,
        is_destroy |-> f13]
         EXCEPT !.type = "PARTIAL"]
      = [type |-> "PARTIAL", protocol |-> f1, id |-> f2, lan_ip |-> f3, lan_ip6 |-> f4,
         wan_ip |-> f5, wan_ip6 |-> f6, lan_port |-> f7, wan_port |-> f8,
         has_lan |-> f9, has_wan |-> f10, has_id |-> f11, is_ipv6 |-> f12,
         is_destroy |-> f13]
  OBVIOUS
<1> HIDE DEF a, b
<1>5. [a EXCEPT !.type = "PARTIAL"] = b
  BY <1>2, <1>3, <1>4, Zenon
<1> QED
  BY <1>5 DEF a, b

\* The event of a message about c.
LEMMA MessageOK ==
  ASSUME NEW c \in Conns, NEW attrs \in Seq(AttrsAbout(c)), NEW h \in Sent
  PROVE  EventOf(Message(h, attrs)) =
           EventAbout(c, attrs, IF \/ Has(attrs, "ORIG") \/ Has(attrs, "REPLY")
                                   \/ h = "DELETE" /\ Has(attrs, "ID")
                                THEN TypeOf(h) ELSE "PARTIAL", h = "DELETE")
<1> DEFINE gone == h = "DELETE"
           a == EventAbout(c, attrs, TypeOf(h), gone)
<1>1. parse_ct_attrs(attrs, TypeOf(h), gone) = a
  BY ConnOK, AttrsOK
<1>2. a.has_lan = Has(attrs, "ORIG") /\ a.has_wan = Has(attrs, "REPLY")
      /\ a.has_id = Has(attrs, "ID") /\ a.is_destroy = gone
  BY DEF EventAbout
<1>3. EventOf(Message(h, attrs)) = IF a.has_lan \/ a.has_wan \/ (a.is_destroy /\ a.has_id)
                                   THEN a ELSE [a EXCEPT !.type = "PARTIAL"]
  <2>1. Message(h, attrs).header = h /\ Message(h, attrs).attrs = attrs
    BY DEF Message
  <2> QED
    BY <1>1, <2>1, Zenon DEF EventOf
<1>4. [a EXCEPT !.type = "PARTIAL"] = EventAbout(c, attrs, "PARTIAL", gone)
  BY PartialOK
<1> HIDE DEF a
<1>5. CASE Has(attrs, "ORIG") \/ Has(attrs, "REPLY") \/ (gone /\ Has(attrs, "ID"))
  BY <1>2, <1>3, <1>5 DEF a
<1>6. CASE ~(Has(attrs, "ORIG") \/ Has(attrs, "REPLY") \/ (gone /\ Has(attrs, "ID")))
  BY <1>2, <1>3, <1>4, <1>6
<1> QED
  BY <1>5, <1>6

\* What RecoversConnection asks of an event.
Faithful(e) ==
  \A c \in Conns :
    LET lan == [src |-> c.client, dst |-> c.remote]
        wan == [src |-> c.public, dst |-> c.remote]
    IN  e.has_id /\ e.id = c.id =>
          /\ e.has_lan => /\ (IF c.v6 THEN e.lan_ip6 ELSE e.lan_ip) = lan
                          /\ e.lan_port = [src |-> c.cport, dst |-> c.rport]
          /\ e.has_wan => /\ (IF c.v6 THEN e.wan_ip6 ELSE e.wan_ip) = wan
                          /\ e.wan_port = [src |-> c.pport, dst |-> c.rport]
          /\ e.has_lan \/ e.has_wan => e.is_ipv6 = c.v6 /\ e.protocol = c.protocol

\* The event of a message about c is one, and it is about c.
LEMMA MessageGood ==
  ASSUME NEW c \in Conns, NEW attrs \in Seq(AttrsAbout(c)), NEW h \in Sent
  PROVE  /\ EventOf(Message(h, attrs)) \in Event
         /\ Faithful(EventOf(Message(h, attrs)))
<1> DEFINE type == IF \/ Has(attrs, "ORIG") \/ Has(attrs, "REPLY")
                      \/ h = "DELETE" /\ Has(attrs, "ID")
                   THEN TypeOf(h) ELSE "PARTIAL"
           e == EventAbout(c, attrs, type, h = "DELETE")
<1>1. EventOf(Message(h, attrs)) = e
  BY MessageOK
<1>2. type \in {"NEW", "DESTROY", "PARTIAL"}
  BY DEF Sent, TypeOf
<1>3. (h = "DELETE") \in BOOLEAN
  OBVIOUS
<1> HIDE DEF type
<1>4. /\ e.has_lan \in BOOLEAN /\ e.has_wan \in BOOLEAN /\ e.has_id \in BOOLEAN
      /\ e.id = IF e.has_id THEN c.id ELSE 0
      /\ e.protocol = IF e.has_lan \/ e.has_wan THEN c.protocol ELSE 0
      /\ e.is_ipv6 = (c.v6 /\ (e.has_lan \/ e.has_wan))
      /\ e.lan_ip = IF e.has_lan /\ ~c.v6 THEN [src |-> c.client, dst |-> c.remote] ELSE NoEndpoints
      /\ e.lan_ip6 = IF e.has_lan /\ c.v6 THEN [src |-> c.client, dst |-> c.remote] ELSE NoEndpoints
      /\ e.wan_ip = IF e.has_wan /\ ~c.v6 THEN [src |-> c.public, dst |-> c.remote] ELSE NoEndpoints
      /\ e.wan_ip6 = IF e.has_wan /\ c.v6 THEN [src |-> c.public, dst |-> c.remote] ELSE NoEndpoints
      /\ e.lan_port = IF e.has_lan THEN [src |-> c.cport, dst |-> c.rport] ELSE NoPorts
      /\ e.wan_port = IF e.has_wan THEN [src |-> c.pport, dst |-> c.rport] ELSE NoPorts
      /\ e.type = type /\ e.is_destroy = (h = "DELETE")
  BY AboutFields
<1>5. e = [type |-> e.type, protocol |-> e.protocol, id |-> e.id,
           lan_ip |-> e.lan_ip, wan_ip |-> e.wan_ip,
           lan_ip6 |-> e.lan_ip6, wan_ip6 |-> e.wan_ip6,
           lan_port |-> e.lan_port, wan_port |-> e.wan_port,
           has_lan |-> e.has_lan, has_wan |-> e.has_wan, has_id |-> e.has_id,
           is_ipv6 |-> e.is_ipv6, is_destroy |-> e.is_destroy]
  BY DEF EventAbout
<1> HIDE DEF e
<1>6. /\ c.v6 \in BOOLEAN /\ c.client \in Addr /\ c.remote \in Addr /\ c.public \in Addr
      /\ c.cport \in Port /\ c.rport \in Port /\ c.pport \in Port
      /\ c.protocol \in Protocol /\ c.protocol # 0 /\ c.id \in Id
      /\ \A d \in Conns : d.id = c.id => d = c
  BY ConnOK
<1>7. e \in Event
  <2>1. NoEndpoints \in Endpoints /\ NoPorts \in Ports
    BY DEF NoEndpoints, NoPorts, Endpoints, Ports, AnyAddr, AnyPort
  <2>2. /\ e.lan_ip \in Endpoints /\ e.lan_ip6 \in Endpoints
        /\ e.wan_ip \in Endpoints /\ e.wan_ip6 \in Endpoints
        /\ e.lan_port \in Ports /\ e.wan_port \in Ports
    BY <1>4, <1>6, <2>1 DEF Endpoints, Ports, AnyAddr, AnyPort
  <2>3. /\ e.protocol \in Protocol \cup {0} /\ e.id \in Id \cup {0}
        /\ e.is_ipv6 \in BOOLEAN /\ e.is_destroy \in BOOLEAN
        /\ e.type \in {"NONE", "NEW", "UPDATE", "DESTROY", "PARTIAL"}
    BY <1>2, <1>3, <1>4, <1>6
  <2> QED
    BY <1>4, <1>5, <2>2, <2>3 DEF Event
<1>8. Faithful(e)
  <2>1. SUFFICES ASSUME NEW d \in Conns, e.has_id, e.id = d.id
                 PROVE  /\ e.has_lan => /\ (IF d.v6 THEN e.lan_ip6 ELSE e.lan_ip) = [src |-> d.client, dst |-> d.remote]
                                        /\ e.lan_port = [src |-> d.cport, dst |-> d.rport]
                        /\ e.has_wan => /\ (IF d.v6 THEN e.wan_ip6 ELSE e.wan_ip) = [src |-> d.public, dst |-> d.remote]
                                        /\ e.wan_port = [src |-> d.pport, dst |-> d.rport]
                        /\ e.has_lan \/ e.has_wan => e.is_ipv6 = d.v6 /\ e.protocol = d.protocol
    BY DEF Faithful
  <2>2. d = c
    BY <1>4, <1>6, <2>1
  <2> QED
    BY <1>4, <1>6, <2>2
<1> QED
  BY <1>1, <1>7, <1>8

----------------------------------------------------------------------------
(* What the parser makes of a buffer of messages. *)

\* One step of parse_netlink.
Decode(events, msg) == IF msg.header = "SHORT" THEN events ELSE Append(events, EventOf(msg))

\* The fold of parse_netlink appends the event of each message.
LEMMA DecodeFold ==
  ASSUME NEW w, NEW n \in Nat, DOMAIN w = 1..n,
         \A i \in 1..n : w[i].header # "SHORT" /\ EventOf(w[i]) \in Event
  PROVE  FoldLeft(Decode, <<>>, w) = [i \in 1..n |-> EventOf(w[i])]
<1> DEFINE X == Seq(Event)
           F == [x \in X |-> [i \in 1..n |-> Decode(x, w[i])]]
           Eq(g) == g = [S \in SUBSET DOMAIN w |->
                       IF S = {} THEN <<>> ELSE Decode(g[S \ {Max(S)}], w[Max(S)])]
           it == CHOOSE g : Eq(g)
<1>1. F \in [X -> [1..n -> X]]
  <2>1. ASSUME NEW x \in Seq(Event), NEW i \in 1..n PROVE Decode(x, w[i]) \in Seq(Event)
    BY DEF Decode
  <2> QED
    BY <2>1
<1>2. FoldLeft(Decode, <<>>, w) = it[1..n]
  <2>1. FoldLeft(Decode, <<>>, w) = it[DOMAIN w]
    BY DEF FoldLeft, MapThenFoldSet
  <2> HIDE DEF it
  <2> QED
    BY <2>1
<1>3. \E g : Eq(g)
  <2>0. <<>> \in X
    OBVIOUS
  <2> HIDE DEF F, X
  <2>1. PICK g : Folds(g, X, <<>>, n, F)
    BY <1>1, <2>0, FoldExists
  <2>2. ASSUME NEW S \in SUBSET (1..n), S # {}
        PROVE  F[g[S \ {Max(S)}]][Max(S)] = Decode(g[S \ {Max(S)}], w[Max(S)])
    <3>1. Max(S) \in 1..n
      BY <2>2, MaxOK
    <3>2. g[S \ {Max(S)}] \in X
      BY <2>1 DEF Folds
    <3> QED
      BY <3>1, <3>2 DEF F
  <2>3. \A S \in SUBSET (1..n) :
          g[S] = IF S = {} THEN <<>> ELSE Decode(g[S \ {Max(S)}], w[Max(S)])
    BY <2>1, <2>2 DEF Folds
  <2>4. Eq(g)
    BY <2>1, <2>3 DEF Folds
  <2> HIDE DEF Eq
  <2> QED
    BY <2>4
<1>4. Eq(it)
  <2> HIDE DEF Eq
  <2> QED
    BY <1>3
<1> HIDE DEF it
<1> DEFINE done(k) == [i \in 1..k |-> EventOf(w[i])]
           P == {k \in 0..n : it[1..k] = done(k)}
<1>5. 0 \in P
  <2>1. 1..0 = {} /\ 1..0 \in SUBSET (1..n)
    OBVIOUS
  <2>2. it[1..0] = <<>>
    BY <1>4, <2>1
  <2>3. done(0) = <<>>
    BY <2>1
  <2> QED
    BY <2>2, <2>3
<1>6. ASSUME NEW k \in 1..n, k - 1 \in P PROVE k \in P
  <2>0. k \in Nat \ {0}
    OBVIOUS
  <2>1. 1..k # {} /\ 1..k \in SUBSET (1..n)
    <3>1. 1 \in 1..k /\ \A i \in 1..k : i \in 1..n
      OBVIOUS
    <3> QED
      BY <3>1
  <2>2. Max(1..k) = k /\ (1..k) \ {k} = 1..(k - 1)
    BY <2>0, MaxOfAll
  <2>3. it[1..k] = Decode(it[(1..k) \ {Max(1..k)}], w[Max(1..k)])
    BY <1>4, <2>1
  <2>4. it[1..k] = Append(done(k - 1), EventOf(w[k]))
    <3>1. it[1..k] = Decode(done(k - 1), w[k])
      <4> HIDE DEF done
      <4> QED
        BY <1>6, <2>2, <2>3
    <3> HIDE DEF done
    <3> QED
      BY <3>1 DEF Decode
  <2>5. Append(done(k - 1), EventOf(w[k])) = done(k)
    <3>1. done(k - 1) \in Seq(Event) /\ Len(done(k - 1)) = k - 1
      BY <2>0
    <3>2. done(k) \in Seq(Event) /\ Len(done(k)) = k
      BY <2>0
    <3>3. \A i \in 1..k : Append(done(k - 1), EventOf(w[k]))[i] = done(k)[i]
      <4>1. SUFFICES ASSUME NEW i \in 1..k
                     PROVE  Append(done(k - 1), EventOf(w[k]))[i] = done(k)[i]
        OBVIOUS
      <4>2. CASE i = k
        BY <3>1, <4>2
      <4>3. CASE i # k
        <5>1. i \in 1..(k - 1)
          BY <4>3
        <5>2. Append(done(k - 1), EventOf(w[k]))[i] = done(k - 1)[i]
          <6> HIDE DEF done
          <6> QED
            BY <3>1, <5>1
        <5> QED
          BY <5>1, <5>2
      <4> QED
        BY <4>2, <4>3
    <3>4. Append(done(k - 1), EventOf(w[k])) \in Seq(Event)
          /\ Len(Append(done(k - 1), EventOf(w[k]))) = k
      <4>1. EventOf(w[k]) \in Event
        OBVIOUS
      <4> HIDE DEF done
      <4> QED
        BY <3>1, <4>1
    <3> HIDE DEF done
    <3> QED
      BY <3>2, <3>3, <3>4
  <2> QED
    BY <2>4, <2>5
<1>7. n \in P
  <2> HIDE DEF P
  <2>1. \A k \in 0..n : k \in P
    BY <1>5, <1>6, UpTo
  <2> QED
    BY <2>1
<1> QED
  BY <1>2, <1>7

\* The first m of n messages are whole, and another may be cut off.
WholeUpTo(buf, n, m) ==
  /\ m = n \/ (n > 0 /\ m = n - 1 /\ buf[n].header = "CUT")
  /\ \A i \in 1..m : buf[i].header \notin {"SHORT", "CUT"} /\ EventOf(buf[i]) \in Event

\* The events of a buffer whose last message may be cut off.
LEMMA NetlinkOK ==
  ASSUME NEW M, NEW buf \in Seq(M), NEW n \in Nat, n = Len(buf), NEW m \in Nat,
         WholeUpTo(buf, n, m)
  PROVE  parse_netlink(buf) = [i \in 1..m |-> EventOf(buf[i])]
<1>0. /\ m = n \/ (n > 0 /\ m = n - 1 /\ buf[n].header = "CUT")
      /\ \A i \in 1..m : buf[i].header \notin {"SHORT", "CUT"} /\ EventOf(buf[i]) \in Event
  BY DEF WholeUpTo
<1> DEFINE cut == {i \in 1..Len(buf) : buf[i].header = "CUT"}
           last == IF cut = {} THEN Len(buf) ELSE Min(cut) - 1
           w == SubSeq(buf, 1, m)
<1>1. last = m
  <2>1. CASE m = n
    <3>1. cut = {}
      BY <1>0, <2>1
    <3> QED
      BY <2>1, <3>1
  <2>2. CASE n > 0 /\ m = n - 1 /\ buf[n].header = "CUT"
    <3>1. cut = {n}
      <4>1. \A i \in 1..n : i = n \/ i \in 1..m
        BY <2>2
      <4> QED
        BY <1>0, <2>2, <4>1
    <3>2. Min({n}) = n
      BY DEF Min
    <3> HIDE DEF cut
    <3> QED
      BY <2>2, <3>1, <3>2
  <2> QED
    BY <1>0, <2>1, <2>2
<1>2. parse_netlink(buf) = FoldLeft(Decode, <<>>, SubSeq(buf, 1, last))
  BY DEF parse_netlink, Decode, FoldLeft, MapThenFoldSet
<1>3. DOMAIN w = 1..m /\ \A i \in 1..m : w[i] = buf[i]
  OBVIOUS
<1> HIDE DEF last
<1>4. parse_netlink(buf) = FoldLeft(Decode, <<>>, w)
  BY <1>1, <1>2, Zenon
<1> HIDE DEF w
<1>5. FoldLeft(Decode, <<>>, w) = [i \in 1..m |-> EventOf(w[i])]
  BY <1>0, <1>3, DecodeFold
<1> QED
  BY <1>3, <1>4, <1>5

----------------------------------------------------------------------------
(* What the daemon makes of events. *)

\* The tables the daemon may have.
Known == [Id -> Entry \cup {NoEntry}]

\* The daemon's table stays one whatever the event.
LEMMA ApplyOK ==
  ASSUME NEW k \in Known, NEW e \in Event
  PROVE  Apply(k, e) \in Known
<1>1. /\ e.lan_ip \in Endpoints /\ e.lan_ip6 \in Endpoints
      /\ e.wan_ip \in Endpoints /\ e.wan_ip6 \in Endpoints
      /\ e.lan_port \in Ports /\ e.wan_port \in Ports
      /\ e.protocol \in Protocol \cup {0}
  BY DEF Event
<1> DEFINE v4 == nfct_event_forensics_tuple(e)
           v6 == nfct_event_forensics_tuple_v6(e)
<1>2. v4.ret = 1 => EntryOf(v4) \in Entry
  BY <1>1 DEF nfct_event_forensics_tuple, EntryOf, Entry, Endpoints, Ports
<1>3. v6.ret = 1 => EntryOf(v6) \in Entry
  BY <1>1 DEF nfct_event_forensics_tuple_v6, EntryOf, Entry, Endpoints, Ports
<1>4. Apply(k, e) = IF ~e.has_id THEN k
                    ELSE IF e.type = "DESTROY" THEN [k EXCEPT ![e.id] = NoEntry]
                    ELSE IF v4.ret = 1 THEN [k EXCEPT ![e.id] = EntryOf(v4)]
                    ELSE IF v6.ret = 1 THEN [k EXCEPT ![e.id] = EntryOf(v6)]
                    ELSE k
  BY DEF Apply
<1>5. \A x \in Entry \cup {NoEntry} : [k EXCEPT ![e.id] = x] \in Known
  BY DEF Known
<1> HIDE DEF v4, v6
<1> QED
  BY <1>2, <1>3, <1>4, <1>5

\* What a message that says enough about c does to the daemon's table.
Effect(k, h, c) == [k EXCEPT ![c.id] = IF h = "DELETE" THEN NoEntry ELSE Mapping(c)]

\* A message that says enough has this effect, whatever the order of its attributes.
LEMMA MessageEffect ==
  ASSUME NEW c \in Conns, NEW attrs \in Seq(AttrsAbout(c)), NEW h \in Sent, NEW k,
         SaysEnough(h, attrs)
  PROVE  Apply(k, EventOf(Message(h, attrs))) = Effect(k, h, c)
<1>1. Has(attrs, "ID") /\ (h # "DELETE" => Has(attrs, "ORIG") /\ Has(attrs, "REPLY"))
  BY DEF SaysEnough
<1> DEFINE e == EventAbout(c, attrs, TypeOf(h), h = "DELETE")
<1>2. EventOf(Message(h, attrs)) = e
  BY <1>1, MessageOK
<1>3. e.has_id = TRUE /\ e.id = c.id /\ e.type = TypeOf(h)
  BY <1>1 DEF EventAbout
<1>4. CASE h = "DELETE"
  <2>1. e.type = "DESTROY"
    BY <1>3, <1>4 DEF TypeOf
  <2> HIDE DEF e
  <2>2. Apply(k, e) = [k EXCEPT ![c.id] = NoEntry]
    BY <1>3, <2>1 DEF Apply
  <2> QED
    BY <1>2, <1>4, <2>2 DEF Effect
<1>5. CASE h # "DELETE"
  <2>1. e.type # "DESTROY"
    BY <1>3, <1>5 DEF TypeOf, Sent
  <2>2. /\ e.has_lan = TRUE /\ e.protocol = c.protocol /\ e.is_ipv6 = c.v6
        /\ e.lan_port = [src |-> c.cport, dst |-> c.rport]
        /\ e.wan_port = [src |-> c.pport, dst |-> c.rport]
        /\ ~c.v6 => /\ e.lan_ip = [src |-> c.client, dst |-> c.remote]
                    /\ e.wan_ip = [src |-> c.public, dst |-> c.remote]
        /\ c.v6 => /\ e.lan_ip6 = [src |-> c.client, dst |-> c.remote]
                   /\ e.wan_ip6 = [src |-> c.public, dst |-> c.remote]
    BY <1>1, <1>5, ConnOK DEF EventAbout
  <2> HIDE DEF e
  <2>3. c.protocol # 0 /\ c.v6 \in BOOLEAN
    BY ConnOK
  <2> DEFINE v4 == nfct_event_forensics_tuple(e)
             v6 == nfct_event_forensics_tuple_v6(e)
  <2>4. CASE ~c.v6
    <3>1. v4.ret = 1
      BY <2>2, <2>3, <2>4 DEF nfct_event_forensics_tuple
    <3>2. EntryOf(v4) = Mapping(c)
      BY <2>2, <2>4 DEF nfct_event_forensics_tuple, EntryOf, Mapping
    <3> HIDE DEF v4, v6
    <3>3. Apply(k, e) = [k EXCEPT ![c.id] = EntryOf(v4)]
      BY <1>3, <2>1, <3>1 DEF Apply, v4
    <3> QED
      BY <1>2, <1>5, <3>2, <3>3 DEF Effect
  <2>5. CASE c.v6
    <3>1. v4.ret # 1 /\ v6.ret = 1
      BY <2>2, <2>3, <2>5 DEF nfct_event_forensics_tuple, nfct_event_forensics_tuple_v6
    <3>2. EntryOf(v6) = Mapping(c)
      BY <2>2, <2>5 DEF nfct_event_forensics_tuple_v6, EntryOf, Mapping
    <3> HIDE DEF v4, v6
    <3>3. Apply(k, e) = [k EXCEPT ![c.id] = EntryOf(v6)]
      BY <1>3, <2>1, <3>1 DEF Apply, v4, v6
    <3> QED
      BY <1>2, <1>5, <3>2, <3>3 DEF Effect
  <2> QED
    BY <2>3, <2>4, <2>5
<1> QED
  BY <1>4, <1>5

\* The daemon learns nothing from a synthetic frame, which has no id.
LEMMA FrameGood ==
  ASSUME NEW f \in Frames
  PROVE  /\ try_synth(f) \in Event /\ Faithful(try_synth(f))
         /\ \A k : Apply(k, try_synth(f)) = k
<1>1. /\ f.type \in {"NEW", "UPDATE", "DESTROY", "PARTIAL"}
      /\ f.protocol \in Protocol \cup {0}
      /\ f.lan_ip \in Endpoints /\ f.lan_port \in Ports
      /\ f.wan_ip \in Endpoints /\ f.wan_port \in Ports
  BY NatWatchAssumption
<1>2. NoEndpoints \in Endpoints
  BY DEF NoEndpoints, Endpoints, AnyAddr
<1>3. try_synth(f) \in Event
  BY <1>1, <1>2 DEF try_synth, Event
<1>4. try_synth(f).has_id = FALSE
  BY DEF try_synth
<1>5. Faithful(try_synth(f))
  BY <1>4 DEF Faithful
<1>6. \A k : Apply(k, try_synth(f)) = k
  BY <1>4 DEF Apply
<1> QED
  BY <1>3, <1>5, <1>6

\* A whole message.
LEMMA AllAttrsOK ==
  ASSUME NEW c \in Conns, NEW h
  PROVE  AllAttrs(c) \in Seq(AttrsAbout(c)) /\ SaysEnough(h, AllAttrs(c))
<1>1. ASSUME NEW x, NEW y, NEW p, NEW q
      PROVE  TupleAttrs(c, x, y, p, q) \in TuplesOf(c, x, y, p, q)
  <2> DEFINE ip == IpAttrs(c, x, y)
             pr == ProtoAttrs(c, p, q)
             t == <<Attr("IP", ip), Attr("PROTO", pr)>>
  <2>1. ip \in Jumbled(ip)
    <3>1. \E u, v : ip = <<u, v>>
      <4>1. CASE c.v6
        BY <4>1, Zenon DEF IpAttrs
      <4>2. CASE ~c.v6
        BY <4>2, Zenon DEF IpAttrs
      <4> QED
        BY <4>1, <4>2
    <3>2. PICK u, v : ip = <<u, v>>
      BY <3>1
    <3>3. <<u, v>> \in Seq(Range(<<u, v>>))
      BY DEF Range
    <3>4. ip \in Seq(Range(ip))
      BY <3>2, <3>3, Zenon
    <3> HIDE DEF ip
    <3> QED
      BY <3>4 DEF Jumbled
  <2>2. pr \in Jumbled(pr)
    <3>1. pr \in Seq(Range(pr))
      BY DEF ProtoAttrs, Range
    <3> HIDE DEF pr
    <3> QED
      BY <3>1 DEF Jumbled
  <2> HIDE DEF ip, pr
  <2>3. Attr("IP", ip) \in Blocks(c, x, y, p, q) /\ Attr("PROTO", pr) \in Blocks(c, x, y, p, q)
    BY <2>1, <2>2 DEF Attr, Blocks, ip, pr
  <2>4. t \in Seq(Blocks(c, x, y, p, q))
    BY <2>3
  <2>5. {t[i].type : i \in 1..Len(t)} = {"IP", "PROTO"}
    <3>1. Len(t) = 2 /\ t[1].type = "IP" /\ t[2].type = "PROTO"
      BY DEF Attr
    <3>2. 1..2 = {1, 2}
      OBVIOUS
    <3> HIDE DEF t
    <3> QED
      BY <3>1, <3>2
  <2>6. t = TupleAttrs(c, x, y, p, q)
    BY DEF TupleAttrs, ip, pr
  <2> HIDE DEF t
  <2> QED
    BY <2>4, <2>5, <2>6 DEF TuplesOf
<1>2. /\ OrigAttr(c) \in AttrsAbout(c) /\ OrigAttr(c).type = "ORIG"
  BY <1>1 DEF OrigAttr, Attr, AttrsAbout
<1>3. /\ ReplyAttr(c) \in AttrsAbout(c) /\ ReplyAttr(c).type = "REPLY"
  BY <1>1 DEF ReplyAttr, Attr, AttrsAbout
<1>4. /\ IdAttr(c) \in AttrsAbout(c) /\ IdAttr(c).type = "ID"
  BY DEF IdAttr, Attr, AttrsAbout
<1>5. /\ AllAttrs(c) \in Seq(AttrsAbout(c)) /\ Len(AllAttrs(c)) = 3
      /\ AllAttrs(c)[1] = OrigAttr(c) /\ AllAttrs(c)[2] = ReplyAttr(c)
      /\ AllAttrs(c)[3] = IdAttr(c)
  BY <1>2, <1>3, <1>4 DEF AllAttrs
<1>6. 1 \in 1..3 /\ 2 \in 1..3 /\ 3 \in 1..3
  OBVIOUS
<1> QED
  BY <1>2, <1>3, <1>4, <1>5, <1>6 DEF SaysEnough, Has

----------------------------------------------------------------------------
(* What the daemon makes of a sequence of events. *)

\* h is the daemon's table event by event.
Learns(h, k, es, n) ==
  /\ h[0] = k /\ FoldLeft(Apply, k, es) = h[n]
  /\ \A i \in 1..n : h[i] = Apply(h[i - 1], es[i])
  /\ \A i \in 0..n : h[i] \in Known

\* Every sequence of events takes the daemon's table from one table to the next.
LEMMA ApplyFold ==
  ASSUME NEW k \in Known, NEW es \in Seq(Event), NEW n \in Nat, n = Len(es)
  PROVE  \E h : Learns(h, k, es, n)
<1>1. n = Len(es) /\ DOMAIN es = 1..n
  OBVIOUS
<1> DEFINE D == SUBSET (1..n)
           X == Known
           F == [x \in X |-> [i \in 1..n |-> Apply(x, es[i])]]
           Eq(g) == g = [S \in SUBSET DOMAIN es |->
                       IF S = {} THEN k ELSE Apply(g[S \ {Max(S)}], es[Max(S)])]
           it == CHOOSE g : Eq(g)
<1>2. F \in [X -> [1..n -> X]]
  <2>1. ASSUME NEW x \in X, NEW i \in 1..n PROVE Apply(x, es[i]) \in X
    BY <1>1, ApplyOK
  <2> HIDE DEF X
  <2> QED
    BY <2>1
<1>3. \E g : Eq(g) /\ \A S \in D : g[S] \in X
  <2>0. k \in X
    OBVIOUS
  <2> HIDE DEF F, X
  <2>1. PICK g : Folds(g, X, k, n, F)
    BY <1>2, <2>0, FoldExists
  <2>2. ASSUME NEW S \in D, S # {}
        PROVE  F[g[S \ {Max(S)}]][Max(S)] = Apply(g[S \ {Max(S)}], es[Max(S)])
    <3>1. Max(S) \in 1..n
      BY <2>2, MaxOK
    <3>2. g[S \ {Max(S)}] \in X
      BY <2>1 DEF Folds
    <3> QED
      BY <3>1, <3>2 DEF F
  <2>3. \A S \in D : g[S] = IF S = {} THEN k ELSE Apply(g[S \ {Max(S)}], es[Max(S)])
    BY <2>1, <2>2 DEF Folds
  <2>4. Eq(g)
    BY <1>1, <2>1, <2>3 DEF Folds
  <2>5. \A S \in D : g[S] \in X
    BY <2>1 DEF Folds
  <2> HIDE DEF Eq
  <2> QED
    BY <2>4, <2>5
<1>4. Eq(it)
  <2> HIDE DEF Eq
  <2> QED
    BY <1>3
<1>5. FoldLeft(Apply, k, es) = it[1..n]
  <2>1. FoldLeft(Apply, k, es) = it[DOMAIN es]
    BY DEF FoldLeft, MapThenFoldSet
  <2> HIDE DEF it
  <2> QED
    BY <1>1, <2>1
<1> HIDE DEF it
<1> DEFINE h == [i \in 0..n |-> it[1..i]]
<1>6. h[0] = k /\ h[n] = it[1..n]
  <2>1. 1..0 = {} /\ 1..0 \in SUBSET (1..n)
    OBVIOUS
  <2>2. it[1..0] = k
    BY <1>1, <1>4, <2>1
  <2> QED
    BY <2>2
<1>7. ASSUME NEW i \in 1..n PROVE h[i] = Apply(h[i - 1], es[i])
  <2>0. i \in Nat \ {0}
    OBVIOUS
  <2>1. 1..i # {} /\ 1..i \in SUBSET (1..n)
    <3>1. 1 \in 1..i /\ \A j \in 1..i : j \in 1..n
      OBVIOUS
    <3> QED
      BY <3>1
  <2>2. Max(1..i) = i /\ (1..i) \ {i} = 1..(i - 1)
    BY <2>0, MaxOfAll
  <2>3. it[1..i] = Apply(it[(1..i) \ {Max(1..i)}], es[Max(1..i)])
    BY <1>1, <1>4, <2>1
  <2>4. h[i] = it[1..i] /\ h[i - 1] = it[1..(i - 1)]
    OBVIOUS
  <2> HIDE DEF h
  <2> QED
    BY <2>2, <2>3, <2>4
<1> HIDE DEF h
<1>8. \A i \in 0..n : h[i] \in Known
  <2> DEFINE P == {i \in 0..n : h[i] \in Known}
  <2>1. 0 \in P
    BY <1>6
  <2>2. ASSUME NEW i \in 1..n, i - 1 \in P PROVE i \in P
    <3>1. es[i] \in Event
      BY <1>1
    <3> QED
      BY <1>7, <2>2, <3>1, ApplyOK
  <2> HIDE DEF P
  <2>3. \A i \in 0..n : i \in P
    BY <2>1, <2>2, UpTo
  <2> QED
    BY <2>3 DEF P
<1> QED
  BY <1>5, <1>6, <1>7, <1>8 DEF Learns

\* No event, nothing learned.
LEMMA ApplyNone ==
  ASSUME NEW k \in Known
  PROVE  FoldLeft(Apply, k, <<>>) = k
<1> DEFINE es == <<>>
<1>1. es \in Seq(Event) /\ Len(es) = 0
  OBVIOUS
<1> HIDE DEF es
<1>n. PICK n \in Nat : n = Len(es) /\ n = 0
  BY <1>1
<1>2. PICK h : Learns(h, k, es, n)
  BY <1>1, <1>n, ApplyFold
<1>3. FoldLeft(Apply, k, es) = k
  BY <1>n, <1>2 DEF Learns
<1> QED
  BY <1>3 DEF es

\* The events of the first so and so many messages decide, whatever follows.
LEMMA ApplySplit ==
  ASSUME NEW k \in Known, NEW a \in Seq(Event), NEW b \in Seq(Event)
  PROVE  /\ FoldLeft(Apply, k, a) \in Known
         /\ FoldLeft(Apply, k, a \o b) = FoldLeft(Apply, FoldLeft(Apply, k, a), b)
<1>1. PICK m \in Nat, n \in Nat : m = Len(a) /\ n = Len(b)
  OBVIOUS
<1>2. PICK f : Learns(f, k, a, m)
  BY <1>1, ApplyFold
<1>3. f[m] \in Known
  BY <1>2 DEF Learns
<1>4. PICK g : Learns(g, f[m], b, n)
  BY <1>1, <1>3, ApplyFold
<1> DEFINE c == a \o b
<1>5. /\ c \in Seq(Event) /\ Len(c) = m + n
      /\ \A i \in 1..m : c[i] = a[i]
      /\ \A i \in 1..n : c[m + i] = b[i]
  BY <1>1
<1> HIDE DEF c
<1>6. PICK h : Learns(h, k, c, m + n)
  BY <1>1, <1>5, ApplyFold
<1>7. h[m] = f[m]
  <2> DEFINE P == {i \in 0..m : h[i] = f[i]}
  <2>1. 0 \in P
    BY <1>2, <1>6 DEF Learns
  <2>2. ASSUME NEW i \in 1..m, i - 1 \in P PROVE i \in P
    <3>1. i \in 1..(m + n) /\ h[i - 1] = f[i - 1] /\ c[i] = a[i]
      BY <1>5, <2>2
    <3>2. h[i] = Apply(h[i - 1], c[i]) /\ f[i] = Apply(f[i - 1], a[i])
      BY <1>2, <1>6, <3>1 DEF Learns
    <3> QED
      BY <3>1, <3>2
  <2> HIDE DEF P
  <2>3. \A i \in 0..m : i \in P
    BY <2>1, <2>2, UpTo
  <2> QED
    BY <2>3 DEF P
<1>8. h[m + n] = g[n]
  <2> DEFINE P == {i \in 0..n : h[m + i] = g[i]}
  <2>1. 0 \in P
    BY <1>4, <1>7 DEF Learns
  <2>2. ASSUME NEW i \in 1..n, i - 1 \in P PROVE i \in P
    <3>1. m + i \in 1..(m + n) /\ (m + i) - 1 = m + (i - 1)
      OBVIOUS
    <3>2. h[m + i] = Apply(h[m + (i - 1)], b[i])
      BY <1>5, <1>6, <3>1 DEF Learns
    <3>3. h[m + (i - 1)] = g[i - 1]
      BY <2>2
    <3> QED
      BY <1>4, <3>2, <3>3 DEF Learns
  <2> HIDE DEF P
  <2>3. \A i \in 0..n : i \in P
    BY <2>1, <2>2, UpTo
  <2> QED
    BY <2>3 DEF P
<1> QED
  BY <1>2, <1>3, <1>4, <1>6, <1>8 DEF c, Learns

\* One event.
LEMMA ApplyOne ==
  ASSUME NEW k \in Known, NEW e \in Event
  PROVE  FoldLeft(Apply, k, <<e>>) = Apply(k, e)
<1> DEFINE es == <<e>>
<1>1. es \in Seq(Event) /\ Len(es) = 1 /\ es[1] = e
  OBVIOUS
<1> HIDE DEF es
<1>2. PICK h : Learns(h, k, es, 1)
  BY <1>1, ApplyFold
<1>3. h[1] = Apply(h[1 - 1], es[1]) /\ 1 - 1 = 0
  BY <1>2 DEF Learns
<1>4. FoldLeft(Apply, k, es) = Apply(k, e)
  BY <1>1, <1>2, <1>3 DEF Learns
<1> QED
  BY <1>4 DEF es

\* Events that do the same one by one do the same together.
LEMMA ApplySame ==
  ASSUME NEW k \in Known, NEW a \in Seq(Event), NEW b \in Seq(Event), Len(a) = Len(b),
         \A i \in 1..Len(a), x \in Known : Apply(x, a[i]) = Apply(x, b[i])
  PROVE  FoldLeft(Apply, k, a) = FoldLeft(Apply, k, b)
<1>1. PICK n \in Nat : n = Len(a) /\ n = Len(b)
  OBVIOUS
<1>2. PICK f : Learns(f, k, a, n)
  BY <1>1, ApplyFold
<1>3. PICK g : Learns(g, k, b, n)
  BY <1>1, ApplyFold
<1> DEFINE P == {i \in 0..n : f[i] = g[i]}
<1>4. 0 \in P
  BY <1>2, <1>3 DEF Learns
<1>5. ASSUME NEW i \in 1..n, i - 1 \in P PROVE i \in P
  <2>1. f[i - 1] \in Known /\ f[i - 1] = g[i - 1]
    BY <1>2, <1>5 DEF Learns
  <2>2. Apply(f[i - 1], a[i]) = Apply(f[i - 1], b[i])
    BY <1>1, <2>1
  <2> QED
    BY <1>2, <1>3, <2>1, <2>2 DEF Learns
<1> HIDE DEF P
<1>6. \A i \in 0..n : i \in P
  BY <1>4, <1>5, UpTo
<1> QED
  BY <1>2, <1>3, <1>6 DEF P, Learns

----------------------------------------------------------------------------
(* What the parser makes of the messages in the socket. *)

\* Messages as the kernel sends them.
SockOK(s) == s \in Seq(Notice) /\ \A i \in 1..Len(s) : s[i].header \in Sent

\* The events of the messages that wait.
Pending(s) == parse_netlink(Whole(s))

\* Each message that waits is an event to come.
LEMMA PendingOK ==
  ASSUME NEW s, SockOK(s), NEW n \in Nat, n = Len(s)
  PROVE  /\ Pending(s) \in Seq(Event) /\ Len(Pending(s)) = n
         /\ \A i \in 1..n : /\ s[i].conn \in Conns /\ s[i].header \in Sent
                            /\ Pending(s)[i] = EventOf(Message(s[i].header, AllAttrs(s[i].conn)))
<1> DEFINE msg(i) == Message(s[i].header, AllAttrs(s[i].conn))
           M == {msg(i) : i \in 1..n}
           buf == [i \in 1..n |-> msg(i)]
<1>1. ASSUME NEW i \in 1..n
      PROVE  /\ s[i].conn \in Conns /\ s[i].header \in Sent
             /\ msg(i).header = s[i].header /\ EventOf(msg(i)) \in Event
  <2>0. s[i] \in Notice
    BY DEF SockOK
  <2>1. s[i].conn \in Conns /\ s[i].header \in Sent
    BY <2>0 DEF SockOK, Notice
  <2>2. EventOf(msg(i)) \in Event
    BY <2>1, AllAttrsOK, MessageGood
  <2>3. msg(i).header = s[i].header
    BY DEF Message
  <2> QED
    BY <2>1, <2>2, <2>3
<1> HIDE DEF msg
<1>2. buf \in Seq(M) /\ n = Len(buf) /\ \A i \in 1..n : buf[i] = msg(i)
  OBVIOUS
<1>3. Whole(s) = buf
  BY DEF Whole, msg
<1> HIDE DEF M, buf
<1>4. \A i \in 1..n : buf[i].header \notin {"SHORT", "CUT"} /\ EventOf(buf[i]) \in Event
  BY <1>1, <1>2 DEF Sent
<1>5. Pending(s) = [i \in 1..n |-> EventOf(buf[i])]
  <2>1. WholeUpTo(buf, n, n)
    BY <1>4 DEF WholeUpTo
  <2>2. parse_netlink(buf) = [i \in 1..n |-> EventOf(buf[i])]
    BY <1>2, <2>1, NetlinkOK
  <2> QED
    BY <1>3, <2>2 DEF Pending
<1> QED
  BY <1>1, <1>2, <1>4, <1>5 DEF msg

\* The events to come of a socket are those of the messages that are read next
\* and then those of the rest.
LEMMA PendingSplit ==
  ASSUME NEW s, SockOK(s), NEW n \in 0..Len(s)
  PROVE  /\ SockOK(SubSeq(s, 1, n)) /\ SockOK(SubSeq(s, n + 1, Len(s)))
         /\ Len(SubSeq(s, 1, n)) = n /\ Len(SubSeq(s, n + 1, Len(s))) = Len(s) - n
         /\ \A i \in 1..n : SubSeq(s, 1, n)[i] = s[i]
         /\ Pending(s) = Pending(SubSeq(s, 1, n)) \o Pending(SubSeq(s, n + 1, Len(s)))
<1> DEFINE a == SubSeq(s, 1, n)
           b == SubSeq(s, n + 1, Len(s))
<1>0. s \in Seq(Notice) /\ \A i \in 1..Len(s) : s[i].header \in Sent
  BY DEF SockOK
<1>1. PICK m \in Nat : m = Len(s) /\ n \in 0..m /\ m - n \in Nat
  BY <1>0
<1>2. a \in Seq(Notice) /\ Len(a) = n /\ \A i \in 1..n : a[i] = s[i]
  BY <1>0, <1>1
<1>3. b \in Seq(Notice) /\ Len(b) = m - n /\ \A i \in 1..(m - n) : b[i] = s[n + i]
  BY <1>0, <1>1
<1> HIDE DEF a, b
<1>4. SockOK(a)
  BY <1>0, <1>1, <1>2 DEF SockOK
<1>5. SockOK(b)
  <2>1. \A i \in 1..(m - n) : n + i \in 1..m
    BY <1>1
  <2> QED
    BY <1>0, <1>1, <1>3, <2>1 DEF SockOK
<1>6. Pending(s) = Pending(a) \o Pending(b)
  <2> DEFINE E(x) == EventOf(Message(x.header, AllAttrs(x.conn)))
  <2>1. Pending(s) \in Seq(Event) /\ Len(Pending(s)) = m /\ \A i \in 1..m : Pending(s)[i] = E(s[i])
    BY <1>1, PendingOK
  <2>2. Pending(a) \in Seq(Event) /\ Len(Pending(a)) = n /\ \A i \in 1..n : Pending(a)[i] = E(a[i])
    BY <1>1, <1>2, <1>4, PendingOK
  <2>3. /\ Pending(b) \in Seq(Event) /\ Len(Pending(b)) = m - n
        /\ \A i \in 1..(m - n) : Pending(b)[i] = E(b[i])
    BY <1>1, <1>3, <1>5, PendingOK
  <2> HIDE DEF E
  <2> DEFINE c == Pending(a) \o Pending(b)
  <2>4. /\ c \in Seq(Event) /\ Len(c) = m
        /\ \A i \in 1..m : c[i] = IF i <= n THEN Pending(a)[i] ELSE Pending(b)[i - n]
    BY <1>1, <2>2, <2>3
  <2> HIDE DEF c
  <2>5. ASSUME NEW i \in 1..m PROVE c[i] = Pending(s)[i]
    <3>1. CASE i <= n
      <4>1. i \in 1..n
        BY <1>1, <3>1
      <4> QED
        BY <1>2, <2>1, <2>2, <2>4, <3>1, <4>1
    <3>2. CASE ~(i <= n)
      <4>1. i - n \in 1..(m - n) /\ n + (i - n) = i
        BY <1>1, <3>2
      <4>2. b[i - n] = s[i]
        BY <1>3, <4>1
      <4> QED
        BY <2>1, <2>3, <2>4, <3>2, <4>1, <4>2
    <3> QED
      BY <3>1, <3>2
  <2> QED
    BY <2>1, <2>4, <2>5 DEF c
<1> QED
  BY <1>1, <1>2, <1>3, <1>4, <1>5, <1>6 DEF a, b

\* What the daemon feeds after it has read n messages.
Buffer(s, n, attrs, cut) ==
  [i \in 1..n |-> Message(IF cut /\ i = n THEN "CUT" ELSE s[i].header,
                          IF i = 1 THEN attrs ELSE AllAttrs(s[i].conn))]

\* The context finds an event in each of them that is not cut off.
LEMMA ReceivedOK ==
  ASSUME NEW s, SockOK(s), NEW n \in 1..Len(s), NEW cut \in BOOLEAN,
         NEW attrs \in Seq(AttrsAbout(s[1].conn)),
         NEW m, m = IF cut THEN n - 1 ELSE n
  PROVE  /\ parse_netlink(Buffer(s, n, attrs, cut)) \in Seq(Event)
         /\ Len(parse_netlink(Buffer(s, n, attrs, cut))) = m
         /\ \A i \in 1..m :
              /\ Faithful(parse_netlink(Buffer(s, n, attrs, cut))[i])
              /\ parse_netlink(Buffer(s, n, attrs, cut))[i] =
                   EventOf(Message(s[i].header, IF i = 1 THEN attrs ELSE AllAttrs(s[i].conn)))
<1> DEFINE msg(i) == Message(IF cut /\ i = n THEN "CUT" ELSE s[i].header,
                             IF i = 1 THEN attrs ELSE AllAttrs(s[i].conn))
           M == {msg(i) : i \in 1..n}
           buf == [i \in 1..n |-> msg(i)]
<1>0. s \in Seq(Notice) /\ \A i \in 1..Len(s) : s[i].header \in Sent
  BY DEF SockOK
<1>1. /\ n \in Nat /\ n > 0 /\ m \in Nat /\ \A i \in 1..n : i \in 1..Len(s)
      /\ \A i \in 1..m : i \in 1..n /\ ~(cut /\ i = n)
  BY <1>0
<1>2. ASSUME NEW i \in 1..m
      PROVE  /\ msg(i) = Message(s[i].header, IF i = 1 THEN attrs ELSE AllAttrs(s[i].conn))
             /\ msg(i).header \notin {"SHORT", "CUT"}
             /\ EventOf(msg(i)) \in Event /\ Faithful(EventOf(msg(i)))
  <2>0. s[i] \in Notice /\ i \in 1..Len(s)
    BY <1>0, <1>1
  <2>1. s[i].conn \in Conns /\ s[i].header \in Sent
    BY <1>0, <2>0 DEF Notice
  <2> DEFINE as == IF i = 1 THEN attrs ELSE AllAttrs(s[i].conn)
  <2>2. msg(i) = Message(s[i].header, as)
    BY <1>1
  <2>3. as \in Seq(AttrsAbout(s[i].conn))
    BY <2>1, AllAttrsOK
  <2> HIDE DEF as
  <2>4. /\ EventOf(Message(s[i].header, as)) \in Event
        /\ Faithful(EventOf(Message(s[i].header, as)))
    BY <2>1, <2>3, MessageGood
  <2>5. Message(s[i].header, as).header = s[i].header
    BY DEF Message
  <2> HIDE DEF msg
  <2>6. msg(i).header \notin {"SHORT", "CUT"}
    BY <2>1, <2>2, <2>5 DEF Sent
  <2> QED
    BY <2>2, <2>4, <2>6 DEF as
<1>3. cut => msg(n).header = "CUT"
  BY DEF Message
<1>4. Buffer(s, n, attrs, cut) = buf
  BY DEF Buffer
<1> HIDE DEF msg
<1>5. buf \in Seq(M) /\ n = Len(buf) /\ \A i \in 1..n : buf[i] = msg(i)
  BY <1>1
<1> HIDE DEF M, buf
<1>6. parse_netlink(buf) = [i \in 1..m |-> EventOf(buf[i])]
  <2>1. m = n \/ (n > 0 /\ m = n - 1 /\ buf[n].header = "CUT")
    BY <1>1, <1>3, <1>5
  <2>2. \A i \in 1..m : buf[i].header \notin {"SHORT", "CUT"} /\ EventOf(buf[i]) \in Event
    BY <1>1, <1>2, <1>5
  <2>3. n \in Nat /\ m \in Nat /\ buf \in Seq(M) /\ n = Len(buf)
    BY <1>1, <1>5
  <2>4. WholeUpTo(buf, n, m)
    BY <2>1, <2>2 DEF WholeUpTo
  <2> QED
    BY <2>3, <2>4, NetlinkOK
<1>7. \A i \in 1..m : EventOf(buf[i]) \in Event
  BY <1>1, <1>2, <1>5
<1>8. parse_netlink(buf) \in Seq(Event) /\ Len(parse_netlink(buf)) = m
  BY <1>1, <1>6, <1>7
<1>9. \A i \in 1..m :
        /\ Faithful(parse_netlink(buf)[i])
        /\ parse_netlink(buf)[i] =
             EventOf(Message(s[i].header, IF i = 1 THEN attrs ELSE AllAttrs(s[i].conn)))
  <2> TAKE i \in 1..m
  <2>1. parse_netlink(buf)[i] = EventOf(buf[i]) /\ buf[i] = msg(i)
    BY <1>1, <1>5, <1>6
  <2>2. parse_netlink(buf)[i] = EventOf(msg(i))
    BY <2>1, Zenon
  <2>3. /\ msg(i) = Message(s[i].header, IF i = 1 THEN attrs ELSE AllAttrs(s[i].conn))
        /\ Faithful(EventOf(msg(i)))
    BY <1>2, Zenon
  <2> QED
    BY <2>2, <2>3, Zenon
<1> QED
  BY <1>4, <1>8, <1>9

----------------------------------------------------------------------------
(* The mappings of the connections there are. *)

\* Truth, of a set of connections.
TruthOf(t) == [id \in Id |-> IF \E c \in t : c.id = id
                             THEN Mapping(CHOOSE c \in t : c.id = id) ELSE NoEntry]

\* Each id has the mapping of the one connection there is of it, or none.
LEMMA TruthAt ==
  ASSUME NEW t \in SUBSET Conns, NEW id \in Id
  PROVE  /\ \A c \in t : c.id = id => TruthOf(t)[id] = Mapping(c)
         /\ (\A c \in t : c.id # id) => TruthOf(t)[id] = NoEntry
<1>1. ASSUME NEW c \in t, c.id = id PROVE TruthOf(t)[id] = Mapping(c)
  <2> DEFINE d == CHOOSE d \in t : d.id = id
  <2>1. d \in t /\ d.id = id
    BY <1>1
  <2>2. TruthOf(t)[id] = Mapping(d)
    BY <1>1 DEF TruthOf
  <2> HIDE DEF d
  <2>3. d = c
    BY <1>1, <2>1, ConnOK
  <2> QED
    BY <2>2, <2>3
<1>2. ASSUME \A c \in t : c.id # id PROVE TruthOf(t)[id] = NoEntry
  BY <1>2 DEF TruthOf
<1> QED
  BY <1>1, <1>2

\* The mappings of the connections there are make a table like the daemon's.
LEMMA TruthOK ==
  ASSUME NEW t \in SUBSET Conns
  PROVE  TruthOf(t) \in Known
<1>1. ASSUME NEW c \in Conns PROVE Mapping(c) \in Entry
  BY ConnOK DEF Mapping, Entry, AnyAddr, AnyPort
<1>2. ASSUME NEW id \in Id PROVE TruthOf(t)[id] \in Entry \cup {NoEntry}
  BY <1>1, TruthAt
<1>3. TruthOf(t) = [id \in Id |-> TruthOf(t)[id]]
  BY DEF TruthOf
<1> HIDE DEF TruthOf
<1> QED
  BY <1>2, <1>3 DEF Known

\* A connection that is created or changes has the mapping it is announced with,
\* and one that is destroyed has none.
LEMMA TruthChanges ==
  ASSUME NEW t \in SUBSET Conns, NEW u \in SUBSET Conns, NEW c \in Conns, NEW h \in Sent,
         u = IF h = "DELETE" THEN t \ {c} ELSE t \cup {c}
  PROVE  TruthOf(u) = Effect(TruthOf(t), h, c)
<1>1. TruthOf(t) \in [Id -> Entry \cup {NoEntry}] /\ TruthOf(u) \in [Id -> Entry \cup {NoEntry}]
  BY TruthOK DEF Known
<1>2. ASSUME NEW id \in Id PROVE TruthOf(u)[id] = Effect(TruthOf(t), h, c)[id]
  <2>1. Effect(TruthOf(t), h, c)[id] =
          IF id = c.id THEN IF h = "DELETE" THEN NoEntry ELSE Mapping(c) ELSE TruthOf(t)[id]
    BY <1>1 DEF Effect
  <2>2. CASE id # c.id
    <3>1. \A d \in Conns : d.id = id => (d \in u <=> d \in t)
      BY <2>2
    <3>2. CASE \E d \in t : d.id = id
      BY <2>1, <2>2, <3>1, <3>2, TruthAt
    <3>3. CASE \A d \in t : d.id # id
      <4>1. \A d \in u : d.id # id
        BY <3>1, <3>3
      <4> QED
        BY <2>1, <2>2, <3>3, <4>1, TruthAt
    <3> QED
      BY <3>2, <3>3
  <2>3. CASE id = c.id
    <3>1. CASE h = "DELETE"
      <4>1. \A d \in u : d.id # id
        BY <2>3, <3>1, ConnOK
      <4> QED
        BY <2>1, <2>3, <3>1, <4>1, TruthAt
    <3>2. CASE h # "DELETE"
      <4>1. c \in u
        BY <3>2
      <4> QED
        BY <2>1, <2>3, <3>2, <4>1, TruthAt
    <3> QED
      BY <3>1, <3>2
  <2> QED
    BY <2>2, <2>3
<1>3. Effect(TruthOf(t), h, c) = [id \in Id |-> Effect(TruthOf(t), h, c)[id]]
  BY <1>1 DEF Effect
<1>4. TruthOf(u) = [id \in Id |-> TruthOf(u)[id]]
  BY <1>1
<1> HIDE DEF TruthOf, Effect
<1> QED
  BY <1>2, <1>3, <1>4

----------------------------------------------------------------------------
(* The inductive invariant. *)

\* What the daemon will know when it has taken every event under way.
Outlook(k, r, s) == FoldLeft(Apply, k, Contents(r) \o Pending(s))

\* Every event in the queue is about the connection it names.
QueueIsFaithful == \A i \in 1..ring.cnt : Faithful(Contents(ring)[i])

Inv ==
  /\ WatchTypeOK
  /\ SockOK(sock)
  /\ QueueIsFaithful
  /\ ~lost => Outlook(known, ring, sock) = TruthOf(table)

\* The queue's events come first, those of the socket after them.
LEMMA OutlookOK ==
  ASSUME NEW k \in Known, NEW r \in Rings(Event), RingOK(r), NEW s, SockOK(s)
  PROVE  /\ FoldLeft(Apply, k, Contents(r)) \in Known
         /\ Outlook(k, r, s) = FoldLeft(Apply, FoldLeft(Apply, k, Contents(r)), Pending(s))
         /\ Outlook(k, r, s) \in Known
<1>1. Contents(r) \in Seq(Event)
  BY ContentsSeq
<1>2. PICK n \in Nat : n = Len(s)
  BY DEF SockOK
<1>3. Pending(s) \in Seq(Event)
  BY <1>2, PendingOK
<1>4. /\ FoldLeft(Apply, k, Contents(r)) \in Known
      /\ Outlook(k, r, s) = FoldLeft(Apply, FoldLeft(Apply, k, Contents(r)), Pending(s))
  BY <1>1, <1>3, ApplySplit DEF Outlook
<1> DEFINE x == FoldLeft(Apply, k, Contents(r))
<1> HIDE DEF x
<1>5. FoldLeft(Apply, x, Pending(s)) \in Known
  <2>1. x \in Known
    BY <1>4 DEF x
  <2> QED
    BY <1>3, <2>1, ApplySplit
<1> QED
  BY <1>4, <1>5 DEF x

\* Zeroed memory is an event.
LEMMA EventTypes == ZeroEvent \in Event
<1>1. NoEndpoints \in Endpoints /\ NoPorts \in Ports
  BY DEF NoEndpoints, NoPorts, Endpoints, Ports, AnyAddr, AnyPort
<1> QED
  BY <1>1 DEF ZeroEvent, Event

\* The invariant holds when nothing has happened yet.
LEMMA InitInv == WatchInit => Inv
<1> SUFFICES ASSUME WatchInit PROVE Inv
  OBVIOUS
<1>1. PICK size \in QueueSizes : ring = qinit(Allocated(ZeroEvent), size)
  BY DEF WatchInit, Init, nfct_create_with_config
<1>2. size \in Nat
  BY NfctAssumption
<1>3. /\ ring \in Rings(Event) /\ RingOK(ring) /\ ring.cnt = 0 /\ Contents(ring) = <<>>
  BY <1>1, <1>2, EventTypes, AllocatedRaw, InitOK
<1>4. /\ ev = ZeroEvent /\ produced = 0 /\ table = {} /\ sock = <<>> /\ changes = 0 /\ lost = FALSE
      /\ known = [id \in Id |-> NoEntry]
  BY DEF WatchInit, Init
<1>5. TypeOK
  BY <1>3, <1>4, EventTypes, NfctAssumption DEF TypeOK
<1>6. known \in Known /\ TruthOf(table) = known
  BY <1>4 DEF Known, TruthOf
<1>7. WatchTypeOK
  <2>1. sock \in Seq(Notice) /\ Len(sock) <= SocketSize
    BY <1>4, NatWatchAssumption
  <2>2. changes \in 0..MaxChanges
    BY <1>4, NatWatchAssumption
  <2>3. table \subseteq Conns /\ lost \in BOOLEAN
    BY <1>4
  <2> QED
    BY <1>5, <1>6, <2>1, <2>2, <2>3 DEF WatchTypeOK, Known
<1>8. SockOK(sock)
  BY <1>4 DEF SockOK
<1>9. QueueIsFaithful
  BY <1>3 DEF QueueIsFaithful
<1>10. Outlook(known, ring, sock) = known
  <2>1. PICK n \in Nat : n = Len(sock) /\ n = 0
    BY <1>4
  <2>2. Pending(sock) \in Seq(Event) /\ Len(Pending(sock)) = 0
    BY <1>8, <2>1, PendingOK
  <2>3. Pending(sock) = <<>>
    BY <2>2
  <2> QED
    BY <1>3, <1>6, <1>8, <2>3, ApplyNone, OutlookOK
<1> QED
  BY <1>6, <1>7, <1>8, <1>9, <1>10 DEF Inv

\* What the kernel says waits in the socket, or is known to be lost.
LEMMA NotifyKeeps ==
  ASSUME Inv, NEW c \in Conns, NEW h \in Sent, Notify(h, c), table' \in SUBSET Conns,
         table' = IF h = "DELETE" THEN table \ {c} ELSE table \cup {c}
  PROVE  Inv'
<1>1. /\ ring' = ring /\ ev' = ev /\ produced' = produced /\ known' = known
      /\ changes < MaxChanges /\ changes' = changes + 1
      /\ \/ /\ Len(sock) < SocketSize /\ lost' = lost
            /\ sock' = Append(sock, [header |-> h, conn |-> c])
         \/ lost' = TRUE /\ sock' = sock
  BY DEF Notify
<1>2. /\ TypeOK /\ table \in SUBSET Conns /\ sock \in Seq(Notice) /\ Len(sock) <= SocketSize
      /\ known \in Known /\ changes \in 0..MaxChanges /\ lost \in BOOLEAN /\ SockOK(sock)
      /\ QueueIsFaithful
      /\ ring \in Rings(Event) /\ RingOK(ring)
  BY DEF Inv, WatchTypeOK, Known, TypeOK
<1>3. TypeOK' /\ QueueIsFaithful'
  BY <1>1, <1>2 DEF TypeOK, QueueIsFaithful
<1>4. changes' \in 0..MaxChanges /\ known' \in [Id -> Entry \cup {NoEntry}]
  BY <1>1, <1>2, NatWatchAssumption DEF Known
<1>5. CASE lost' = TRUE /\ sock' = sock
  BY <1>1, <1>2, <1>3, <1>4, <1>5 DEF Inv, WatchTypeOK
<1>6. CASE /\ Len(sock) < SocketSize /\ lost' = lost
           /\ sock' = Append(sock, [header |-> h, conn |-> c])
  <2> DEFINE x == [header |-> h, conn |-> c]
  <2>1. x \in Notice /\ x.header = h /\ x.conn = c
    BY DEF Notice, Sent, Header
  <2> HIDE DEF x
  <2>2. PICK n \in Nat : n = Len(sock) /\ n < SocketSize
    BY <1>2, <1>6
  <2>3. /\ sock' \in Seq(Notice) /\ Len(sock') = n + 1 /\ sock'[n + 1] = x
        /\ \A i \in 1..n : sock'[i] = sock[i]
    BY <1>2, <1>6, <2>1, <2>2 DEF x
  <2>4. SockOK(sock')
    <3>1. \A i \in 1..(n + 1) : i = n + 1 \/ i \in 1..n
      BY <2>2
    <3>2. \A i \in 1..n : sock[i].header \in Sent
      BY <1>2, <2>2 DEF SockOK
    <3> QED
      BY <2>1, <2>3, <3>1, <3>2 DEF SockOK
  <2>5. Len(sock') <= SocketSize
    BY <2>2, <2>3, NatWatchAssumption
  <2>6. ASSUME ~lost' PROVE Outlook(known, ring, sock') = TruthOf(table')
    <3> DEFINE e == EventOf(Message(h, AllAttrs(c)))
               k == FoldLeft(Apply, known, Contents(ring))
    <3>1. /\ Pending(sock) \in Seq(Event) /\ Len(Pending(sock)) = n
          /\ \A i \in 1..n : Pending(sock)[i] = EventOf(Message(sock[i].header, AllAttrs(sock[i].conn)))
      BY <1>2, <2>2, PendingOK
    <3>2. /\ Pending(sock') \in Seq(Event) /\ Len(Pending(sock')) = n + 1
          /\ \A i \in 1..(n + 1) : Pending(sock')[i] = EventOf(Message(sock'[i].header, AllAttrs(sock'[i].conn)))
      BY <2>2, <2>3, <2>4, PendingOK
    <3>3. /\ \A i \in 1..n : Pending(sock')[i] = Pending(sock)[i]
          /\ Pending(sock')[n + 1] = e
      <4>1. \A i \in 1..n : i \in 1..(n + 1)
        OBVIOUS
      <4>2. n + 1 \in 1..(n + 1)
        OBVIOUS
      <4> QED
        BY <2>1, <2>3, <3>1, <3>2, <4>1, <4>2
    <3>4. e \in Event
      BY AllAttrsOK, MessageGood
    <3>5. \A y : Apply(y, e) = Effect(y, h, c)
      BY AllAttrsOK, MessageEffect
    <3> HIDE DEF e, k
    <3>6. Pending(sock') = Pending(sock) \o <<e>>
      <4> DEFINE p == Pending(sock)
                 q == Pending(sock')
      <4> HIDE DEF p, q
      <4>1. p \in Seq(Event) /\ Len(p) = n
        BY <3>1 DEF p
      <4>2. /\ q \in Seq(Event) /\ Len(q) = n + 1
            /\ \A i \in 1..n : q[i] = p[i]
            /\ q[n + 1] = e
        BY <3>2, <3>3 DEF p, q
      <4>3. q = p \o <<e>>
        BY <3>4, <4>1, <4>2
      <4> QED
        BY <4>3 DEF p, q
    <3>7. k \in Known
      BY <1>2, OutlookOK DEF k
    <3>8. Outlook(known, ring, sock) = FoldLeft(Apply, k, Pending(sock))
      BY <1>2, OutlookOK DEF k
    <3>9. Outlook(known, ring, sock') = FoldLeft(Apply, k, Pending(sock) \o <<e>>)
      <4> DEFINE q == sock'
      <4> HIDE DEF q
      <4>1. SockOK(q)
        BY <2>4 DEF q
      <4>2. Outlook(known, ring, q) = FoldLeft(Apply, k, Pending(q))
        BY <1>2, <4>1, OutlookOK DEF k
      <4>3. Outlook(known, ring, sock') = FoldLeft(Apply, k, Pending(sock'))
        BY <4>2 DEF q
      <4> QED
        BY <3>6, <4>3, Zenon
    <3>10. /\ FoldLeft(Apply, k, Pending(sock)) \in Known
           /\ FoldLeft(Apply, k, Pending(sock) \o <<e>>) =
                FoldLeft(Apply, FoldLeft(Apply, k, Pending(sock)), <<e>>)
      <4>1. <<e>> \in Seq(Event)
        BY <3>4
      <4> QED
        BY <3>1, <3>7, <4>1, ApplySplit
    <3>11. Outlook(known, ring, sock') = Apply(Outlook(known, ring, sock), e)
      BY <3>4, <3>8, <3>9, <3>10, ApplyOne
    <3>12. Outlook(known, ring, sock) = TruthOf(table)
      BY <1>6, <2>6 DEF Inv
    <3>13. TruthOf(table') = Effect(TruthOf(table), h, c)
      BY <1>2, TruthChanges
    <3> QED
      BY <3>5, <3>11, <3>12, <3>13
  <2> QED
    BY <1>1, <1>2, <1>3, <1>4, <1>6, <2>3, <2>4, <2>5, <2>6 DEF Inv, WatchTypeOK
<1> QED
  BY <1>1, <1>5, <1>6

\* A new connection keeps the invariant.
LEMMA CreateKeeps == ASSUME Inv, NEW c \in Conns, Create(c) PROVE Inv'
<1>1. table \in SUBSET Conns
  BY DEF Inv, WatchTypeOK
<1>2. Notify("NEW_CREATE", c) /\ table' = table \cup {c}
  BY DEF Create
<1>3. "NEW_CREATE" \in Sent /\ "NEW_CREATE" # "DELETE"
  BY DEF Sent
<1> QED
  BY <1>1, <1>2, <1>3, NotifyKeeps

\* A change of a connection keeps the invariant.
LEMMA ChangeKeeps == ASSUME Inv, NEW c \in Conns, Change(c) PROVE Inv'
<1>1. table \in SUBSET Conns
  BY DEF Inv, WatchTypeOK
<1>2. Notify("NEW_PLAIN", c) /\ table' = table \cup {c}
  BY DEF Change
<1>3. "NEW_PLAIN" \in Sent /\ "NEW_PLAIN" # "DELETE"
  BY DEF Sent
<1> QED
  BY <1>1, <1>2, <1>3, NotifyKeeps

\* The end of a connection keeps the invariant.
LEMMA DestroyKeeps == ASSUME Inv, NEW c \in Conns, Destroy(c) PROVE Inv'
<1>1. table \in SUBSET Conns
  BY DEF Inv, WatchTypeOK
<1>2. Notify("DELETE", c) /\ table' = table \ {c}
  BY DEF Destroy
<1>3. "DELETE" \in Sent
  BY DEF Sent
<1> QED
  BY <1>1, <1>2, <1>3, NotifyKeeps

\* Reading the socket turns waiting messages into queued events, and feeds each
\* of them once.
LEMMA ReceiveKeeps ==
  ASSUME Inv, ReceiveSome
  PROVE  Inv'
<1>1. PICK n \in 1..Min2(BufferSize, Len(sock)), cut \in BOOLEAN, attrs \in AttrsOf[Head(sock).conn] :
             Receive(n, attrs, cut)
  BY DEF ReceiveSome
<1>2. /\ TypeOK /\ table \in SUBSET Conns /\ sock \in Seq(Notice) /\ Len(sock) <= SocketSize
      /\ known \in Known /\ changes \in 0..MaxChanges /\ lost \in BOOLEAN /\ SockOK(sock)
      /\ QueueIsFaithful
      /\ ring \in Rings(Event) /\ RingOK(ring) /\ ev \in Event /\ produced \in 0..MaxEvents
  BY DEF Inv, WatchTypeOK, Known, TypeOK
<1>3. n \in 1..Len(sock) /\ n \in Nat /\ n > 0 /\ 1 \in 1..Len(sock)
  BY <1>2, NatWatchAssumption DEF Min2
<1>4. sock[1] \in Notice /\ sock[1].conn \in Conns /\ sock[1].header \in Sent
  <2>1. sock[1] \in Notice
    BY <1>2, <1>3
  <2> QED
    BY <1>2, <1>3, <2>1 DEF SockOK, Notice
<1>5. attrs \in Seq(AttrsAbout(sock[1].conn))
  <2>1. Head(sock) = sock[1]
    BY <1>2, <1>3
  <2> QED
    BY <1>4, <2>1, NatWatchAssumption
<1> DEFINE es == parse_netlink(Buffer(sock, n, attrs, cut))
           m == IF cut THEN n - 1 ELSE n
           rest == SubSeq(sock, n + 1, Len(sock))
<1>6. m \in Nat /\ (~cut => m = n)
  BY <1>3
<1>7. /\ es \in Seq(Event) /\ Len(es) = m
      /\ \A i \in 1..m :
           /\ Faithful(es[i])
           /\ es[i] = EventOf(Message(sock[i].header, IF i = 1 THEN attrs ELSE AllAttrs(sock[i].conn)))
  BY <1>2, <1>3, <1>5, ReceivedOK
<1>8. /\ ring' = Burst(ring, es) /\ produced' = produced + Len(es)
      /\ produced + Len(es) <= MaxEvents /\ ev' = ev
      /\ sock' = rest
      /\ lost' = (lost \/ cut \/ ~SaysEnough(sock[1].header, attrs) \/ ring.cnt + Len(es) > ring.qsz)
      /\ table' = table /\ known' = known /\ changes' = changes
  BY <1>1 DEF Receive, FeedNetlink, PushAll, Buffer, Burst
<1> HIDE DEF es, m
<1>9. PICK c \in Nat, q \in Nat : c = ring.cnt /\ q = ring.qsz /\ c <= q
  BY <1>2, RingFields
<1>10. /\ ring' \in Rings(Event) /\ RingOK(ring')
       /\ ring'.cnt = Min2(c + m, q)
       /\ \A i \in 1..ring'.cnt :
            Contents(ring')[i] = IF i <= c THEN Contents(ring)[i] ELSE es[i - c]
  <2> DEFINE R == Burst(ring, es)
  <2> HIDE DEF R
  <2>1. /\ R \in Rings(Event) /\ RingOK(R)
        /\ R.cnt = Min2(ring.cnt + Len(es), ring.qsz)
        /\ \A i \in 1..R.cnt :
             Contents(R)[i] = IF i <= ring.cnt THEN Contents(ring)[i] ELSE es[i - ring.cnt]
    BY <1>2, <1>7, BurstIsCut DEF R
  <2>2. ring' = R
    BY <1>8 DEF R
  <2> QED
    BY <1>7, <1>9, <2>1, <2>2
<1>11. QueueIsFaithful'
  <2>1. ASSUME NEW i \in 1..ring'.cnt PROVE Faithful(Contents(ring')[i])
    <3>0. i \in 1..(c + m)
      BY <1>6, <1>9, <1>10 DEF Min2
    <3>1. CASE i <= c
      <4>1. i \in 1..ring.cnt /\ Contents(ring')[i] = Contents(ring)[i]
        BY <1>9, <1>10, <3>0, <3>1
      <4>2. Faithful(Contents(ring)[i])
        BY <1>2, <4>1 DEF QueueIsFaithful
      <4> QED
        BY <4>1, <4>2, Zenon
    <3>2. CASE ~(i <= c)
      <4>1. i - c \in 1..m /\ Contents(ring')[i] = es[i - c]
        BY <1>6, <1>9, <1>10, <3>0, <3>2
      <4>2. Faithful(es[i - c])
        BY <1>7, <4>1
      <4> QED
        BY <4>1, <4>2, Zenon
    <3> QED
      BY <3>1, <3>2
  <2> QED
    BY <2>1 DEF QueueIsFaithful, Faithful
<1>12. /\ SockOK(SubSeq(sock, 1, n)) /\ SockOK(rest)
       /\ Len(SubSeq(sock, 1, n)) = n /\ Len(rest) = Len(sock) - n
       /\ \A i \in 1..n : SubSeq(sock, 1, n)[i] = sock[i]
       /\ Pending(sock) = Pending(SubSeq(sock, 1, n)) \o Pending(rest)
  <2>1. n \in 0..Len(sock)
    BY <1>3
  <2> QED
    BY <1>2, <2>1, PendingSplit
<1> HIDE DEF rest
<1>13. WatchTypeOK'
  <2>1. TypeOK'
    <3>1. produced' \in 0..MaxEvents
      BY <1>2, <1>6, <1>7, <1>8, NfctAssumption
    <3> QED
      BY <1>2, <1>8, <1>10, <3>1 DEF TypeOK
  <2>2. rest \in Seq(Notice) /\ Len(rest) <= SocketSize
    <3>1. rest \in Seq(Notice)
      BY <1>12 DEF SockOK
    <3>2. Len(sock) \in Nat /\ Len(rest) = Len(sock) - n
      BY <1>2, <1>12
    <3> QED
      BY <1>2, <1>3, <3>1, <3>2, NatWatchAssumption
  <2>3. lost' \in BOOLEAN
    BY <1>8
  <2> QED
    BY <1>2, <1>8, <2>1, <2>2, <2>3 DEF WatchTypeOK, Known
<1>14. ASSUME ~lost' PROVE Outlook(known, ring', rest) = TruthOf(table)
  <2>1. ~lost /\ ~cut /\ SaysEnough(sock[1].header, attrs) /\ ~(ring.cnt + Len(es) > ring.qsz)
    BY <1>8, <1>14
  <2>2. m = n /\ c + n <= q /\ ring'.cnt = c + n
    BY <1>3, <1>6, <1>7, <1>9, <1>10, <2>1 DEF Min2
  <2> DEFINE k == FoldLeft(Apply, known, Contents(ring))
             read == SubSeq(sock, 1, n)
  <2> HIDE DEF k, read
  <2>3. k \in Known
    BY <1>2, OutlookOK DEF k
  <2>4. /\ Contents(ring) \in Seq(Event) /\ Len(Contents(ring)) = c
        /\ Contents(ring') \in Seq(Event) /\ Len(Contents(ring')) = c + n
    BY <1>2, <1>9, <1>10, <2>2, ContentsSeq
  <2>5. Contents(ring') = Contents(ring) \o es
    <3> DEFINE a == Contents(ring)
               b == Contents(ring')
    <3> HIDE DEF a, b
    <3>1. a \in Seq(Event) /\ Len(a) = c /\ b \in Seq(Event) /\ Len(b) = c + n
      BY <2>4 DEF a, b
    <3>2. es \in Seq(Event) /\ Len(es) = n
      BY <1>7, <2>2
    <3>3. \A i \in 1..(c + n) : b[i] = IF i <= c THEN a[i] ELSE es[i - c]
      BY <1>10, <2>2 DEF a, b
    <3>4. /\ a \o es \in Seq(Event) /\ Len(a \o es) = c + n
          /\ \A i \in 1..(c + n) : (a \o es)[i] = IF i <= c THEN a[i] ELSE es[i - c]
      <4>1. a \o es \in Seq(Event) /\ Len(a \o es) = Len(a) + Len(es)
        BY <3>1, <3>2, ConcatProperties
      <4>2. \A i \in 1..(Len(a) + Len(es)) :
              (a \o es)[i] = IF i <= Len(a) THEN a[i] ELSE es[i - Len(a)]
        BY <3>1, <3>2, ConcatProperties
      <4>3. Len(a) = c /\ Len(es) = n
        BY <3>1, <3>2
      <4> QED
        BY <4>1, <4>2, <4>3, Zenon
    <3>5. b = a \o es
      BY <3>1, <3>3, <3>4
    <3> QED
      BY <3>5 DEF a, b
  <2>6. /\ Pending(read) \in Seq(Event) /\ Len(Pending(read)) = n
        /\ \A i \in 1..n : /\ read[i].conn \in Conns /\ read[i].header \in Sent
                           /\ Pending(read)[i] = EventOf(Message(read[i].header, AllAttrs(read[i].conn)))
    BY <1>3, <1>12, PendingOK DEF read
  <2>7. FoldLeft(Apply, k, es) = FoldLeft(Apply, k, Pending(read))
    <3>1. ASSUME NEW i \in 1..n, NEW x \in Known
          PROVE  Apply(x, es[i]) = Apply(x, Pending(read)[i])
      <4>1. read[i] = sock[i] /\ i \in 1..m
        BY <1>12, <2>2 DEF read
      <4> DEFINE cc == sock[i].conn
                 hh == sock[i].header
                 as == IF i = 1 THEN attrs ELSE AllAttrs(cc)
      <4>2. cc \in Conns /\ hh \in Sent
        BY <2>6, <4>1
      <4>3. es[i] = EventOf(Message(hh, as)) /\ Pending(read)[i] = EventOf(Message(hh, AllAttrs(cc)))
        BY <1>7, <2>6, <4>1
      <4>4. as \in Seq(AttrsAbout(cc)) /\ SaysEnough(hh, as)
        BY <1>5, <2>1, <4>2, AllAttrsOK
      <4>5. AllAttrs(cc) \in Seq(AttrsAbout(cc)) /\ SaysEnough(hh, AllAttrs(cc))
        BY <4>2, AllAttrsOK
      <4> HIDE DEF cc, hh, as
      <4>6. Apply(x, EventOf(Message(hh, as))) = Effect(x, hh, cc)
        BY <4>2, <4>4, MessageEffect
      <4>7. Apply(x, EventOf(Message(hh, AllAttrs(cc)))) = Effect(x, hh, cc)
        BY <4>2, <4>5, MessageEffect
      <4> QED
        BY <4>3, <4>6, <4>7, Zenon
    <3>2. es \in Seq(Event) /\ Len(es) = n
      BY <1>7, <2>2
    <3> QED
      BY <2>3, <2>6, <3>1, <3>2, ApplySame
  <2>8. FoldLeft(Apply, known, Contents(ring')) = FoldLeft(Apply, k, es)
    <3>1. FoldLeft(Apply, known, Contents(ring) \o es) = FoldLeft(Apply, k, es)
      BY <1>2, <1>7, <2>4, ApplySplit DEF k
    <3> QED
      BY <2>5, <3>1, Zenon
  <2>9. Outlook(known, ring', rest) = FoldLeft(Apply, FoldLeft(Apply, k, Pending(read)), Pending(rest))
    <3> DEFINE R == ring'
    <3> HIDE DEF R
    <3>1. R \in Rings(Event) /\ RingOK(R)
      BY <1>10 DEF R
    <3>2. Outlook(known, R, rest) = FoldLeft(Apply, FoldLeft(Apply, known, Contents(R)), Pending(rest))
      BY <1>2, <1>12, <3>1, OutlookOK
    <3>3. FoldLeft(Apply, known, Contents(R)) = FoldLeft(Apply, k, Pending(read))
      BY <2>7, <2>8 DEF R
    <3> QED
      BY <3>2, <3>3 DEF R
  <2>10. Pending(rest) \in Seq(Event)
    <3>0. rest \in Seq(Notice)
      BY <1>12 DEF SockOK
    <3>1. PICK j \in Nat : j = Len(rest)
      BY <3>0
    <3> QED
      BY <1>12, <3>1, PendingOK
  <2>11. FoldLeft(Apply, k, Pending(read) \o Pending(rest)) =
           FoldLeft(Apply, FoldLeft(Apply, k, Pending(read)), Pending(rest))
    BY <2>3, <2>6, <2>10, ApplySplit
  <2>12. Outlook(known, ring, sock) = FoldLeft(Apply, k, Pending(read) \o Pending(rest))
    <3>1. Outlook(known, ring, sock) = FoldLeft(Apply, k, Pending(sock))
      BY <1>2, OutlookOK DEF k
    <3> QED
      BY <1>12, <3>1, Zenon DEF read
  <2>13. Outlook(known, ring, sock) = TruthOf(table)
    BY <2>1 DEF Inv
  <2> QED
    BY <2>9, <2>11, <2>12, <2>13
<1> QED
  BY <1>8, <1>11, <1>12, <1>13, <1>14 DEF Inv

\* A synthetic frame changes nothing of what the daemon will know.
LEMMA FrameKeeps ==
  ASSUME Inv, NEW f \in Frames, ReceiveFrame(f)
  PROVE  Inv'
<1> DEFINE e == try_synth(f)
<1>1. e \in Event /\ Faithful(e) /\ \A k : Apply(k, e) = k
  BY FrameGood
<1>2. /\ TypeOK /\ table \in SUBSET Conns /\ sock \in Seq(Notice) /\ Len(sock) <= SocketSize
      /\ known \in Known /\ changes \in 0..MaxChanges /\ lost \in BOOLEAN /\ SockOK(sock)
      /\ QueueIsFaithful
      /\ ring \in Rings(Event) /\ RingOK(ring) /\ ev \in Event /\ produced \in 0..MaxEvents
  BY DEF Inv, WatchTypeOK, Known, TypeOK
<1>3. /\ ring' = Burst(ring, <<e>>) /\ produced' = produced + Len(<<e>>)
      /\ produced + Len(<<e>>) <= MaxEvents /\ ev' = ev
      /\ lost' = (lost \/ ring.cnt = ring.qsz)
      /\ table' = table /\ sock' = sock /\ known' = known /\ changes' = changes
  BY DEF ReceiveFrame, FeedSynth, PushAll, Burst
<1> HIDE DEF e
<1>4. ring' = qpush(ring, e)
  BY <1>1, <1>2, <1>3, OneEvent
<1>5. produced' \in 0..MaxEvents
  <2>1. Len(<<e>>) = 1
    OBVIOUS
  <2> QED
    BY <1>2, <1>3, <2>1, NfctAssumption
<1>6. ring' \in Rings(Event) /\ RingOK(ring')
  BY <1>1, <1>2, <1>4, PushOK
<1>7. WatchTypeOK'
  <2>1. TypeOK'
    BY <1>2, <1>3, <1>5, <1>6 DEF TypeOK
  <2> QED
    BY <1>2, <1>3, <2>1 DEF WatchTypeOK, Known
<1>8. PICK c \in Nat, q \in Nat : c = ring.cnt /\ q = ring.qsz /\ c <= q
  BY <1>2, RingFields
<1>9. CASE c = q
  <2>1. ring' = ring
    BY <1>1, <1>2, <1>4, <1>8, <1>9, PushFull
  <2>2. lost' = TRUE
    BY <1>3, <1>8, <1>9
  <2>3. QueueIsFaithful'
    BY <1>2, <2>1 DEF QueueIsFaithful
  <2> QED
    BY <1>2, <1>3, <1>7, <2>2, <2>3 DEF Inv
<1>10. CASE c < q
  <2>1. ring'.cnt = c + 1 /\ Contents(ring') = Append(Contents(ring), e)
    BY <1>1, <1>2, <1>4, <1>8, <1>10, PushRoom
  <2>2. Contents(ring) \in Seq(Event) /\ Len(Contents(ring)) = c
    BY <1>2, <1>8, ContentsSeq
  <2>3. ASSUME NEW i \in 1..ring'.cnt PROVE Faithful(Contents(ring')[i])
    <3>1. CASE i = c + 1
      <4>1. Contents(ring')[i] = e
        BY <1>1, <2>1, <2>2, <3>1
      <4> QED
        BY <1>1, <4>1, Zenon
    <3>2. CASE i # c + 1
      <4>1. i \in 1..ring.cnt /\ Contents(ring')[i] = Contents(ring)[i]
        BY <1>1, <1>8, <2>1, <2>2, <3>2
      <4>2. Faithful(Contents(ring)[i])
        BY <1>2, <4>1 DEF QueueIsFaithful
      <4> QED
        BY <4>1, <4>2, Zenon
    <3> QED
      BY <3>1, <3>2
  <2>4. QueueIsFaithful'
    BY <2>3 DEF QueueIsFaithful, Faithful
  <2>5. FoldLeft(Apply, known, Contents(ring')) = FoldLeft(Apply, known, Contents(ring))
    <3> DEFINE a == Contents(ring)
               k == FoldLeft(Apply, known, a)
    <3> HIDE DEF a, k
    <3>1. a \in Seq(Event) /\ <<e>> \in Seq(Event)
      BY <1>1, <2>2 DEF a
    <3>2. Append(a, e) = a \o <<e>>
      BY <1>1, <3>1
    <3>3. k \in Known /\ FoldLeft(Apply, known, a \o <<e>>) = FoldLeft(Apply, k, <<e>>)
      BY <1>2, <3>1, ApplySplit DEF k
    <3>4. FoldLeft(Apply, k, <<e>>) = k
      BY <1>1, <3>3, ApplyOne
    <3>5. Contents(ring') = a \o <<e>>
      BY <2>1, <3>2 DEF a
    <3> QED
      BY <3>3, <3>4, <3>5, Zenon DEF a, k
  <2>6. Outlook(known, ring', sock) = Outlook(known, ring, sock)
    <3> DEFINE R == ring'
    <3> HIDE DEF R
    <3>1. R \in Rings(Event) /\ RingOK(R)
      BY <1>6 DEF R
    <3>2. Outlook(known, R, sock) = FoldLeft(Apply, FoldLeft(Apply, known, Contents(R)), Pending(sock))
      BY <1>2, <3>1, OutlookOK
    <3>3. Outlook(known, ring, sock) = FoldLeft(Apply, FoldLeft(Apply, known, Contents(ring)), Pending(sock))
      BY <1>2, OutlookOK
    <3> QED
      BY <2>5, <3>2, <3>3, Zenon DEF R
  <2>7. ~lost' => Outlook(known, ring', sock) = TruthOf(table)
    BY <1>3, <2>6 DEF Inv
  <2> QED
    BY <1>2, <1>3, <1>7, <2>4, <2>7 DEF Inv
<1> QED
  BY <1>8, <1>9, <1>10

\* Taking an event makes known what it was going to make known.
LEMMA TakeKeeps ==
  ASSUME Inv, TakeEvent
  PROVE  Inv'
<1>1. /\ TypeOK /\ table \in SUBSET Conns /\ sock \in Seq(Notice) /\ Len(sock) <= SocketSize
      /\ known \in Known /\ changes \in 0..MaxChanges /\ lost \in BOOLEAN /\ SockOK(sock)
      /\ QueueIsFaithful
      /\ ring \in Rings(Event) /\ RingOK(ring) /\ ev \in Event /\ produced \in 0..MaxEvents
  BY DEF Inv, WatchTypeOK, Known, TypeOK
<1> DEFINE e == Oldest(ring)
<1>2. /\ ring.cnt # 0 /\ ring' = qpop(ring) /\ ev' = e /\ produced' = produced
      /\ known' = Apply(known, e)
      /\ table' = table /\ sock' = sock /\ changes' = changes /\ lost' = lost
  <2>1. ring.cnt \in Nat
    BY <1>1, ContentsSeq
  <2> QED
    BY <2>1 DEF TakeEvent, nfct_next_event
<1>3. /\ ring' \in Rings(Event) /\ RingOK(ring')
      /\ Contents(ring) # <<>> /\ e = Head(Contents(ring)) /\ e \in Event
      /\ Contents(ring') = Tail(Contents(ring))
  BY <1>1, <1>2, PopOK
<1> HIDE DEF e
<1>4. known' \in Known
  BY <1>1, <1>2, <1>3, ApplyOK
<1>5. WatchTypeOK'
  <2>1. TypeOK'
    BY <1>1, <1>2, <1>3 DEF TypeOK
  <2> QED
    BY <1>1, <1>2, <1>4, <2>1 DEF WatchTypeOK, Known
<1>6. QueueIsFaithful'
  <2> DEFINE Good == {x \in Event : Faithful(x)}
  <2>1. \A i \in 1..ring.cnt : Contents(ring)[i] \in Good
    <3>1. Contents(ring) \in Seq(Event) /\ Len(Contents(ring)) = ring.cnt
      BY <1>1, ContentsSeq
    <3>2. ASSUME NEW i \in 1..ring.cnt PROVE Contents(ring)[i] \in Good
      <4>1. Contents(ring)[i] \in Event
        BY <3>1
      <4>2. Faithful(Contents(ring)[i])
        BY <1>1 DEF QueueIsFaithful
      <4> QED
        BY <4>1, <4>2
    <3> QED
      BY <3>2
  <2> HIDE DEF Good
  <2>2. \A i \in 1..qpop(ring).cnt : Contents(qpop(ring))[i] \in Good
    BY <1>1, <2>1, PopKeeps
  <2>3. ASSUME NEW i \in 1..ring'.cnt PROVE Faithful(Contents(ring')[i])
    <3>1. Contents(ring')[i] \in Good
      BY <1>2, <2>2
    <3> QED
      BY <3>1 DEF Good
  <2> QED
    BY <2>3 DEF QueueIsFaithful, Faithful
<1>7. Outlook(known', ring', sock) = Outlook(known, ring, sock)
  <2> DEFINE R == ring'
             k == known'
             a == Contents(ring)
             b == Tail(a)
  <2>1. a \in Seq(Event) /\ a # <<>>
    BY <1>1, <1>3, ContentsSeq
  <2>2. R \in Rings(Event) /\ RingOK(R) /\ k \in Known /\ k = Apply(known, e) /\ e = Head(a)
        /\ Contents(R) = b
    BY <1>2, <1>3, <1>4
  <2> HIDE DEF R, k, a
  <2>3. b \in Seq(Event) /\ <<e>> \in Seq(Event) /\ a = <<e>> \o b
    <3>1. b \in Seq(Event) /\ <<e>> \in Seq(Event) /\ e = a[1]
      BY <1>3, <2>1, <2>2
    <3>2. PICK n \in Nat : n = Len(b) /\ n + 1 = Len(a)
      BY <2>1
    <3>3. \A i \in 1..n : b[i] = a[i + 1]
      BY <2>1, <3>2
    <3> HIDE DEF b
    <3>4. /\ <<e>> \o b \in Seq(Event) /\ Len(<<e>> \o b) = n + 1
          /\ \A i \in 1..(n + 1) : (<<e>> \o b)[i] = IF i = 1 THEN e ELSE b[i - 1]
      BY <1>3, <3>1, <3>2
    <3>5. ASSUME NEW i \in 1..(n + 1) PROVE a[i] = (<<e>> \o b)[i]
      <4>1. CASE i = 1
        BY <3>1, <3>4, <4>1
      <4>2. CASE i # 1
        <5>1. i - 1 \in 1..n /\ (i - 1) + 1 = i
          BY <4>2
        <5> QED
          BY <3>3, <3>4, <4>2, <5>1
      <4> QED
        BY <4>1, <4>2
    <3>6. a = <<e>> \o b
      BY <2>1, <3>2, <3>4, <3>5
    <3> QED
      BY <3>1, <3>6 DEF b
  <2> HIDE DEF b
  <2>4. FoldLeft(Apply, known, <<e>> \o b) = FoldLeft(Apply, FoldLeft(Apply, known, <<e>>), b)
    BY <1>1, <2>3, ApplySplit
  <2>5. FoldLeft(Apply, known, <<e>>) = k
    BY <1>1, <1>3, <2>2, ApplyOne
  <2>6. FoldLeft(Apply, known, a) = FoldLeft(Apply, k, Contents(R))
    BY <2>2, <2>3, <2>4, <2>5, Zenon
  <2>7. Outlook(k, R, sock) = FoldLeft(Apply, FoldLeft(Apply, k, Contents(R)), Pending(sock))
    <3>1. k \in Known /\ R \in Rings(Event) /\ RingOK(R)
      BY <2>2
    <3>2. SockOK(sock)
      BY <1>1
    <3> QED
      BY <3>1, <3>2, OutlookOK
  <2>8. Outlook(known, ring, sock) = FoldLeft(Apply, FoldLeft(Apply, known, a), Pending(sock))
    BY <1>1, OutlookOK DEF a
  <2> QED
    BY <2>6, <2>7, <2>8, Zenon DEF R, k
<1>8. ~lost' => Outlook(known', ring', sock) = TruthOf(table)
  BY <1>2, <1>7 DEF Inv
<1> QED
  BY <1>1, <1>2, <1>5, <1>6, <1>8 DEF Inv

\* A reset loses the queue, and nothing if it was empty.
LEMMA StartOverKeeps ==
  ASSUME Inv, StartOver
  PROVE  Inv'
<1>1. /\ TypeOK /\ table \in SUBSET Conns /\ sock \in Seq(Notice) /\ Len(sock) <= SocketSize
      /\ known \in Known /\ changes \in 0..MaxChanges /\ lost \in BOOLEAN /\ SockOK(sock)
      /\ ring \in Rings(Event) /\ RingOK(ring) /\ ev \in Event /\ produced \in 0..MaxEvents
  BY DEF Inv, WatchTypeOK, Known, TypeOK
<1>2. /\ ring' = qinit(ring, ring.qsz) /\ ev' = ev /\ produced' = 0
      /\ table' = table /\ sock' = sock /\ known' = known /\ changes' = changes
      /\ lost' = (lost \/ ring.cnt > 0)
  BY DEF StartOver, nfct_reset
<1>3. ring \in RawRings(Event) /\ ring.qsz \in Nat
  BY <1>1, RingIsRaw, QueueAssumption DEF Rings
<1>4. /\ ring' \in Rings(Event) /\ RingOK(ring') /\ ring'.cnt = 0 /\ Contents(ring') = <<>>
  BY <1>2, <1>3, InitOK
<1>5. WatchTypeOK'
  <2>1. TypeOK'
    BY <1>1, <1>2, <1>4, NfctAssumption DEF TypeOK
  <2>2. lost' \in BOOLEAN
    BY <1>2
  <2> QED
    BY <1>1, <1>2, <2>1, <2>2 DEF WatchTypeOK, Known
<1>6. QueueIsFaithful'
  BY <1>4 DEF QueueIsFaithful
<1>7. ASSUME ~lost' PROVE Outlook(known, ring', sock) = TruthOf(table)
  <2>1. ring.cnt \in Nat /\ Contents(ring) \in Seq(Event) /\ Len(Contents(ring)) = ring.cnt
    BY <1>1, ContentsSeq
  <2>2. ~lost /\ ring.cnt = 0
    <3>1. ~lost /\ ~(ring.cnt > 0)
      BY <1>2, <1>7, Zenon
    <3> QED
      BY <2>1, <3>1
  <2>3. Contents(ring) = <<>>
    BY <2>1, <2>2
  <2>4. Outlook(known, ring', sock) = Outlook(known, ring, sock)
    <3>1. Contents(ring') = Contents(ring)
      BY <1>4, <2>3
    <3> QED
      BY <3>1, Zenon DEF Outlook
  <2> QED
    BY <2>2, <2>4 DEF Inv
<1> QED
  BY <1>1, <1>2, <1>5, <1>6, <1>7 DEF Inv

\* Every step keeps the invariant.
LEMMA NextInv == Inv /\ [WatchNext]_watchVars => Inv'
<1> SUFFICES ASSUME Inv, [WatchNext]_watchVars PROVE Inv'
  OBVIOUS
<1>1. ASSUME NEW c \in Conns, Create(c) PROVE Inv'
  BY <1>1, CreateKeeps
<1>2. ASSUME NEW c \in Conns, Change(c) PROVE Inv'
  BY <1>2, ChangeKeeps
<1>3. ASSUME NEW c \in Conns, Destroy(c) PROVE Inv'
  BY <1>3, DestroyKeeps
<1>4. CASE ReceiveSome
  BY <1>4, ReceiveKeeps
<1>5. ASSUME NEW f \in Frames, ReceiveFrame(f) PROVE Inv'
  BY <1>5, FrameKeeps
<1>6. CASE TakeEvent
  BY <1>6, TakeKeeps
<1>7. CASE StartOver
  BY <1>7, StartOverKeeps
<1>8. CASE UNCHANGED watchVars
  <2>1. /\ ring' = ring /\ ev' = ev /\ produced' = produced /\ table' = table
        /\ sock' = sock /\ known' = known /\ changes' = changes /\ lost' = lost
    BY <1>8 DEF watchVars
  <2>2. TypeOK' /\ QueueIsFaithful'
    BY <2>1 DEF Inv, WatchTypeOK, TypeOK, QueueIsFaithful
  <2> QED
    BY <2>1, <2>2 DEF Inv, WatchTypeOK
<1> QED
  BY <1>1, <1>2, <1>3, <1>4, <1>5, <1>6, <1>7, <1>8 DEF WatchNext

\* The invariant holds throughout.
LEMMA InvAlways == WatchSpec => []Inv
  BY InitInv, NextInv, PTL DEF WatchSpec

\* The context, the caller's event and the daemon's table keep their types,
\* whatever the kernel sends, in whatever order and however it is cut.
THEOREM TypeCorrect == WatchSpec => []WatchTypeOK
<1>1. Inv => WatchTypeOK
  BY DEF Inv
<1> QED
  BY <1>1, InvAlways, PTL

\* An event is about the connection it names and about no other, whatever is
\* missing of its message, in whatever order its attributes come and how often
\* the nested ones are repeated.
THEOREM EventsNameTheirConnection == WatchSpec => []RecoversConnection
<1>1. Inv => RecoversConnection
  <2> SUFFICES ASSUME Inv PROVE RecoversConnection
    OBVIOUS
  <2>1. \A i \in 1..ring.cnt : Faithful(Contents(ring)[i])
    BY DEF Inv, QueueIsFaithful
  <2> QED
    BY <2>1, Zenon DEF RecoversConnection, Faithful
<1> QED
  BY <1>1, InvAlways, PTL

\* Unless something was lost, what is under way, in the queue and in the socket,
\* is all that the daemon's table differs by from the kernel's connections.
THEOREM NothingElseIsMissing == WatchSpec => []BacklogExplainsLag
<1>1. Inv => BacklogExplainsLag
  BY DEF Inv, BacklogExplainsLag, Outlook, Pending, Truth, TruthOf
<1> QED
  BY <1>1, InvAlways, PTL

----------------------------------------------------------------------------
(* What of Converges is a matter of safety.  When nothing was lost and     *)
(* nothing is under way, the daemon knows the kernel's mappings; and each  *)
(* round of its loop leaves less under way.                                *)

UpToDate == ~lost /\ sock = <<>> /\ ring.cnt = 0 => known = Truth

THEOREM IdleMeansUpToDate == WatchSpec => []UpToDate
<1>1. Inv => UpToDate
  <2> SUFFICES ASSUME Inv, ~lost, sock = <<>>, ring.cnt = 0 PROVE known = Truth
    BY DEF UpToDate
  <2>1. Outlook(known, ring, sock) = TruthOf(table)
    BY DEF Inv
  <2>2. ring \in Rings(Event) /\ RingOK(ring) /\ known \in Known /\ SockOK(sock)
    BY DEF Inv, WatchTypeOK, TypeOK, Known
  <2>3. Contents(ring) = <<>>
    <3>1. Contents(ring) \in Seq(Event) /\ Len(Contents(ring)) = 0
      BY <2>2, ContentsSeq
    <3> QED
      BY <3>1
  <2>4. Pending(sock) = <<>>
    <3>1. PICK n \in Nat : n = Len(sock) /\ n = 0
      OBVIOUS
    <3>2. Pending(sock) \in Seq(Event) /\ Len(Pending(sock)) = 0
      BY <2>2, <3>1, PendingOK
    <3> QED
      BY <3>2
  <2>5. Outlook(known, ring, sock) = known
    BY <2>2, <2>3, <2>4, ApplyNone, OutlookOK
  <2> QED
    BY <2>1, <2>5 DEF Truth, TruthOf
<1> QED
  BY <1>1, InvAlways, PTL

\* A message under way may still become an event and then be taken.
UnderWay == 2 * Len(sock) + ring.cnt

Drains == ReceiveSome \/ TakeEvent => UnderWay \in Nat /\ UnderWay' \in Nat /\ UnderWay' < UnderWay

\* A daemon that reads its socket and takes its events gets to an idle state in
\* at most as many rounds as UnderWay says, if nothing new happens.
THEOREM EachRoundDrains == WatchSpec => [][Drains]_watchVars
<1>1. Inv => Drains
  <2> SUFFICES ASSUME Inv
               PROVE  ReceiveSome \/ TakeEvent =>
                        UnderWay \in Nat /\ UnderWay' \in Nat /\ UnderWay' < UnderWay
    BY DEF Drains
  <2>0. /\ ring \in Rings(Event) /\ RingOK(ring) /\ sock \in Seq(Notice) /\ SockOK(sock)
    BY DEF Inv, WatchTypeOK, TypeOK
  <2>1. PICK m \in Nat, c \in Nat, q \in Nat : m = Len(sock) /\ c = ring.cnt /\ q = ring.qsz
    BY <2>0, RingFields
  <2>2. CASE ReceiveSome
    <3>1. PICK n \in 1..Min2(BufferSize, Len(sock)), cut \in BOOLEAN, attrs \in AttrsOf[Head(sock).conn] :
                 Receive(n, attrs, cut)
      BY <2>2 DEF ReceiveSome
    <3>2. n \in 1..m
      BY <2>1, NatWatchAssumption DEF Min2
    <3>3. sock[1] \in Notice /\ Head(sock) = sock[1]
      BY <2>0, <2>1, <3>2
    <3>4. attrs \in Seq(AttrsAbout(sock[1].conn))
      BY <3>3, NatWatchAssumption DEF Notice
    <3> DEFINE es == parse_netlink(Buffer(sock, n, attrs, cut))
    <3>5. es \in Seq(Event) /\ Len(es) = IF cut THEN n - 1 ELSE n
      <4>1. PICK k : k = IF cut THEN n - 1 ELSE n
        OBVIOUS
      <4> QED
        BY <2>0, <2>1, <3>2, <3>4, <4>1, ReceivedOK
    <3>6. ring' = Burst(ring, es) /\ sock' = SubSeq(sock, n + 1, Len(sock))
      BY <3>1 DEF Receive, FeedNetlink, PushAll, Buffer, Burst
    <3> HIDE DEF es
    <3>7. PICK k \in Nat : k = Len(es) /\ k <= n
      BY <3>2, <3>5
    <3>8. ring'.cnt = Min2(c + k, q)
      BY <2>0, <2>1, <3>5, <3>6, <3>7, BurstIsCut
    <3>9. ring'.cnt \in Nat /\ ring'.cnt <= c + n
      BY <2>1, <3>2, <3>7, <3>8 DEF Min2
    <3>10. Len(sock') = m - n
      BY <2>0, <2>1, <3>2, <3>6
    <3> QED
      BY <2>1, <3>2, <3>9, <3>10 DEF UnderWay
  <2>3. CASE TakeEvent
    <3>1. ring' = qpop(ring) /\ ring.cnt > 0 /\ sock' = sock
      BY <2>3 DEF TakeEvent, nfct_next_event
    <3>2. ring'.cnt = c - 1 /\ c > 0
      BY <2>0, <2>1, <3>1, PopOK
    <3> QED
      BY <2>1, <3>1, <3>2 DEF UnderWay
  <2> QED
    BY <2>2, <2>3
<1>2. Inv /\ [WatchNext]_watchVars => [Drains]_watchVars
  BY <1>1
<1> QED
  BY <1>2, InvAlways, PTL DEF WatchSpec

----------------------------------------------------------------------------
(* The queue as a channel. *)

\* The events of a buffer are offered together, and those that fit are kept.
LEMMA BufferOffers ==
  ASSUME Inv, NEW es \in Seq(Event), ring' = Burst(ring, es),
         produced' = produced + Len(es), ev' = ev
  PROVE  Channel!Offer \/ UNCHANGED Channel!vars
<1>1. /\ ring \in Rings(Event) /\ RingOK(ring) /\ produced \in Nat
  BY NfctAssumption DEF Inv, WatchTypeOK, TypeOK
<1>2. PICK n \in Nat, c \in Nat, q \in Nat :
             n = Len(es) /\ c = ring.cnt /\ q = ring.qsz /\ c <= q
  BY <1>1, RingFields
<1>3. CASE n = 0
  <2>1. PICK h : /\ h[0] = ring /\ Burst(ring, es) = h[Len(es)]
                 /\ \A k \in 1..Len(es) : h[k] = qpush(h[k - 1], es[k])
    BY <1>1, PushFold
  <2>2. ring' = ring
    BY <1>2, <1>3, <2>1
  <2>3. produced' = produced
    BY <1>1, <1>2, <1>3
  <2> QED
    BY <2>2, <2>3 DEF Channel!vars
<1>4. CASE n > 0
  <2> DEFINE R == Burst(ring, es)
  <2> HIDE DEF R
  <2>1. /\ R \in Rings(Event) /\ RingOK(R) /\ R.qsz = q /\ R.cnt = Min2(c + n, q)
        /\ \A i \in 1..R.cnt : i <= c => Contents(R)[i] = Contents(ring)[i]
    <3>1. /\ R \in Rings(Event) /\ RingOK(R) /\ R.qsz = ring.qsz
          /\ R.cnt = Min2(ring.cnt + Len(es), ring.qsz)
          /\ \A i \in 1..R.cnt :
               Contents(R)[i] = IF i <= ring.cnt THEN Contents(ring)[i] ELSE es[i - ring.cnt]
      BY <1>1, BurstIsCut DEF R
    <3> QED
      BY <1>2, <3>1
  <2>2. R = ring'
    BY DEF R
  <2>3. /\ Contents(ring') \in Seq(Event) /\ Len(Contents(ring')) = Min2(c + n, q)
        /\ ring'.qsz = q
    BY <2>1, <2>2, ContentsSeq
  <2>4. Contents(ring) \in Seq(Event) /\ Len(Contents(ring)) = c
    BY <1>1, <1>2, ContentsSeq
  <2>5. \A i \in 1..c : Contents(ring')[i] = Contents(ring)[i]
    <3>1. \A i \in 1..c : i \in 1..R.cnt /\ i <= c
      BY <1>2, <2>1 DEF Min2
    <3> QED
      BY <2>1, <2>2, <3>1
  <2>6. produced' \in Nat /\ produced' > produced /\ produced' - produced = n
    BY <1>1, <1>2, <1>4
  <2>7. \/ c + n <= q /\ Min2(c + n, q) = c + n
        \/ c + n > q /\ Min2(c + n, q) = q
    BY <1>2 DEF Min2
  <2> QED
    BY <1>2, <2>3, <2>4, <2>5, <2>6, <2>7 DEF Channel!Offer
<1> QED
  BY <1>2, <1>3, <1>4

\* A context implements EventChannel, with all the events of a buffer as one
\* offer: the burst is cut at its end, and nothing queued before is hurt.
THEOREM Refinement == WatchSpec => KeepsEventPromise
<1>1. WatchInit => Channel!Init
  <2> SUFFICES ASSUME WatchInit PROVE Channel!Init
    OBVIOUS
  <2>1. PICK size \in QueueSizes : ring = qinit(Allocated(ZeroEvent), size)
    BY DEF WatchInit, Init, nfct_create_with_config
  <2>2. size \in Nat
    BY NfctAssumption
  <2>3. Contents(ring) = <<>> /\ ring.qsz \in 1..MAX_Q
    BY <2>1, <2>2, InitOK, AllocatedRaw, EventTypes, ClampSizeOK
  <2>4. produced = 0 /\ ev \in Event
    BY EventTypes DEF WatchInit, Init
  <2> QED
    BY <2>3, <2>4, QueueAssumption DEF Channel!Init
<1>2. Inv /\ [WatchNext]_watchVars => [Channel!Next]_(Channel!vars)
  <2> SUFFICES ASSUME Inv, [WatchNext]_watchVars PROVE [Channel!Next]_(Channel!vars)
    OBVIOUS
  <2>0. ring \in Rings(Event) /\ RingOK(ring)
    BY DEF Inv, WatchTypeOK, TypeOK
  <2>1. ASSUME NEW c \in Conns, Create(c) \/ Change(c) \/ Destroy(c)
        PROVE  UNCHANGED Channel!vars
    <3>1. ring' = ring /\ ev' = ev /\ produced' = produced
      BY <2>1 DEF Create, Change, Destroy, Notify
    <3> QED
      BY <3>1 DEF Channel!vars
  <2>2. CASE ReceiveSome
    <3>1. PICK n \in 1..Min2(BufferSize, Len(sock)), cut \in BOOLEAN, attrs \in AttrsOf[Head(sock).conn] :
                 Receive(n, attrs, cut)
      BY <2>2 DEF ReceiveSome
    <3>2. sock \in Seq(Notice) /\ SockOK(sock)
      BY DEF Inv, WatchTypeOK
    <3>3. n \in 1..Len(sock)
      BY <3>2, NatWatchAssumption DEF Min2
    <3>4. sock[1] \in Notice /\ Head(sock) = sock[1]
      BY <3>2, <3>3
    <3>5. attrs \in Seq(AttrsAbout(sock[1].conn))
      BY <3>4, NatWatchAssumption DEF Notice
    <3> DEFINE es == parse_netlink(Buffer(sock, n, attrs, cut))
    <3>6. es \in Seq(Event)
      BY <3>2, <3>3, <3>5, ReceivedOK
    <3>7. ring' = Burst(ring, es) /\ produced' = produced + Len(es) /\ ev' = ev
      BY <3>1 DEF Receive, FeedNetlink, PushAll, Buffer, Burst
    <3> HIDE DEF es
    <3> QED
      BY <3>6, <3>7, BufferOffers DEF Channel!Next
  <2>3. ASSUME NEW f \in Frames, ReceiveFrame(f)
        PROVE  Channel!Next \/ UNCHANGED Channel!vars
    <3> DEFINE es == <<try_synth(f)>>
    <3>1. es \in Seq(Event)
      BY FrameGood
    <3>2. ring' = Burst(ring, es) /\ produced' = produced + Len(es) /\ ev' = ev
      BY <2>3 DEF ReceiveFrame, FeedSynth, PushAll, Burst
    <3> HIDE DEF es
    <3> QED
      BY <3>1, <3>2, BufferOffers DEF Channel!Next
  <2>4. CASE TakeEvent
    <3>0. ring.cnt \in Nat
      BY <2>0, ContentsSeq
    <3>1. ring' = qpop(ring) /\ produced' = produced /\ ev' = Oldest(ring) /\ ring.cnt # 0
      BY <2>4, <3>0 DEF TakeEvent, nfct_next_event
    <3>2. /\ Contents(ring) # <<>> /\ Oldest(ring) = Head(Contents(ring))
          /\ Contents(ring') = Tail(Contents(ring)) /\ ring'.qsz = ring.qsz
      BY <2>0, <3>1, PopOK
    <3> QED
      BY <3>1, <3>2 DEF Channel!Next, Channel!Take
  <2>5. CASE StartOver
    <3>1. ring' = qinit(ring, ring.qsz) /\ produced' = 0 /\ ev' = ev
      BY <2>5 DEF StartOver, nfct_reset
    <3>2. ring \in RawRings(Event) /\ ring.qsz \in 1..MAX_Q /\ ring.qsz \in Nat
      BY <2>0, RingIsRaw, QueueAssumption DEF Rings
    <3>3. Contents(ring') = <<>> /\ ring'.qsz = ring.qsz
      BY <3>1, <3>2, InitOK, ClampSizeFixed
    <3> QED
      BY <3>1, <3>3 DEF Channel!Next, Channel!Clear
  <2>6. CASE UNCHANGED watchVars
    BY <2>6 DEF watchVars, Channel!vars
  <2> QED
    BY <2>1, <2>2, <2>3, <2>4, <2>5, <2>6 DEF WatchNext
<1> QED
  BY <1>1, <1>2, InvAlways, PTL DEF WatchSpec, Channel!Spec, KeepsEventPromise
=============================================================================
