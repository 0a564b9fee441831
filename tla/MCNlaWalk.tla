----------------------------- MODULE MCNlaWalk -----------------------------
(* The walk over buffers whose bytes are arbitrary, and over buffers that  *)
(* hold written messages or bare attributes, whole or cut off at any byte. *)
EXTENDS NlaWalk, SequencesExt

MaxArbitrary == 36

(***************************************************************************)
(* The writer, as in tests/test_nfct_cta.c: nla_put writes a header, the   *)
(* payload and the padding; the kernel may leave out the padding of the    *)
(* last element inside another.  A writer is where it is, where the        *)
(* element written last ended without padding, and the headers.            *)
(***************************************************************************)
Blank == [pos |-> 0, last |-> 0, at |-> <<>>]

PutHeader(w, o, header) ==
  [at |-> (o :> header) @@ w.at, last |-> o + header.len,
   pos |-> o + ((header.len + 3) \div 4) * 4]

\* A value of n bytes.
PutValue(w, l, n) ==
  PutHeader(w, w.pos, [level |-> l, len |-> 4 + n, nested |-> FALSE])

\* An element with others inside.
PutAround(w, l, Put(_, _), elem) ==
  LET start == w.pos + PayloadAt(l)
      inner == FoldLeft(Put, [w EXCEPT !.pos = start, !.last = start], elem.inside)
      stop == IF elem.padded THEN inner.pos ELSE inner.last
  IN  PutHeader(inner, w.pos, [level |-> l, len |-> stop - w.pos, nested |-> TRUE])

Elem(inside, padded) == [inside |-> inside, padded |-> padded]
Bytes(n) == [bytes |-> n]

\* An attribute has some bytes, or others inside.
PutInner(w, n) == PutValue(w, 4, n)
PutNest(w, a) ==
  IF "bytes" \in DOMAIN a THEN PutValue(w, 3, a.bytes) ELSE PutAround(w, 3, PutInner, a)
PutTuple(w, a) ==
  IF "bytes" \in DOMAIN a THEN PutValue(w, 2, a.bytes) ELSE PutAround(w, 2, PutNest, a)
PutMessage(w, msg) == PutAround(w, 1, PutTuple, msg)

----------------------------------------------------------------------------
Nests == {Elem(s, p) : s \in {<<>>, <<1>>, <<4>>, <<1, 2>>}, p \in BOOLEAN}

Tuples ==
  {Elem(<<n>>, p) : n \in Nests, p \in BOOLEAN} \cup
  {Elem(<<Elem(<<1>>, FALSE), n>>, TRUE) : n \in Nests}

\* One message of one or two tuples, or one behind another.
Msgs ==
  {<<Elem(<<t>>, p)>> : t \in Tuples, p \in BOOLEAN} \cup
  {<<Elem(<<Elem(<<Elem(<<2>>, FALSE)>>, FALSE), t>>, TRUE)>> : t \in Tuples} \cup
  {<<Elem(<<Bytes(4), Elem(<<Bytes(2)>>, FALSE), t>>, TRUE)>> : t \in Tuples} \cup
  {<<Elem(<<Elem(<<Elem(<<2>>, FALSE)>>, FALSE)>>, FALSE), Elem(<<t>>, TRUE)>> : t \in Tuples}

\* Cut off at any byte.
Cuts(w, start) == {[len |-> len, start |-> start, at |-> w.at] : len \in 0..w.pos}

\* Attributes of a tuple, without a message around them.
Bare == {<<Elem(<<n>>, FALSE), Bytes(2), Elem(<<Bytes(1), n>>, TRUE)>> : n \in Nests}

WrittenBuffers ==
  UNION ({Cuts(FoldLeft(PutMessage, Blank, m), 1) : m \in Msgs} \cup
         {Cuts(FoldLeft(PutTuple, Blank, a), 2) : a \in Bare})

\* A message of 16 to 19 bytes before a whole one.
ShortFirst ==
  {LET short == PutHeader(Blank, 0, [level |-> 1, len |-> n, nested |-> TRUE])
       w == PutMessage(short, Elem(<<Elem(<<Elem(<<1>>, TRUE)>>, TRUE)>>, TRUE))
   IN  [len |-> w.pos, start |-> 1, at |-> w.at] : n \in 16..19}

\* Nothing written: the bytes are arbitrary.
ArbitraryBuffers ==
  {[len |-> len, start |-> 1, at |-> <<>>] : len \in 0..MaxArbitrary} \cup
  {[len |-> len, start |-> 2, at |-> <<>>] : len \in 1..(MaxArbitrary - 20)}

MCRawBuffers == WrittenBuffers \cup ShortFirst \cup ArbitraryBuffers
=============================================================================
