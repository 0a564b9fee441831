------------------------------ MODULE NlaWalk ------------------------------
(***************************************************************************)
(* How the two netlink parsers walk over the bytes of a buffer: the loops  *)
(* of parse_netlink, parse_ct_attrs, parse_tuple and parse_tuple_ip in     *)
(* src/src/nfct.c and those of parse_nl80211_messages, parse_top_attrs,    *)
(* parse_sta_info and parse_rate_info in src/src/nl80211_parse.c.  They    *)
(* are one loop on four levels: level 1 walks over messages, each of the   *)
(* others over the attributes inside one element of the level above.       *)
(* nl80211 starts on level 2 when the buffer is a bare attribute stream.   *)
(*                                                                         *)
(* The bytes are those headers of the buffer that the walk reads: at each  *)
(* offset a length and whether the element is one that the code descends   *)
(* into.  Headers are offsets into the whole buffer and not into the part  *)
(* that a level sees, so that the levels can be compared.  A buffer is     *)
(* arbitrary bytes, without any header, or what a writer laid out, cut off *)
(* anywhere.                                                               *)
(***************************************************************************)
EXTENDS Integers, Sequences

CONSTANTS
  LenMod,      \* 2^32: lengths of messages are below, and padding wraps there
  AttrMod,     \* 2^16: lengths of attributes are below
  Levels,      \* 4 in both parsers
  RawBuffers,  \* [len, start, at]: the bytes fed, the level they start on and
               \* the headers written into them, [level, len, nested] by offset
  MaxLen       \* bound of the length of a buffer

Level == 1..Levels

\* nlmsghdr, or nlattr: what a header takes; what comes before the payload,
\* in a message also nfgenmsg or genlmsghdr.
HeaderOf(l) == IF l = 1 THEN 16 ELSE 4
PayloadAt(l) == IF l = 1 THEN 20 ELSE 4

LengthsOf(l) == IF l = 1 THEN 0..(LenMod - 1) ELSE 0..(AttrMod - 1)

(* Mutant: lengths are not padded. *)
Unpadded(n) == n

\* (n + 3u) & ~3u
Align(n) == (((n + 3) % LenMod) \div 4) * 4

----------------------------------------------------------------------------
(* What a writer lays out.  A length counts the header and the payload, no *)
(* padding of its own but that of the elements inside, of which the last   *)
(* may have none.                                                          *)
Written(b) == DOMAIN b.at # {}

Elements(b, l) == {o \in DOMAIN b.at : b.at[o].level = l}
PayloadOf(b, o) == o + PayloadAt(b.at[o].level)
EndOf(b, o) == o + b.at[o].len
Behind(b, o) == o + ((b.at[o].len + 3) \div 4) * 4

\* p is in the payload of o.
Within(b, p, o) ==
  /\ b.at[o].nested /\ b.at[o].level < b.at[p].level
  /\ PayloadOf(b, o) <= p
  /\ EndOf(b, p) <= EndOf(b, o) /\ Behind(b, p) <= Behind(b, o)

\* Messages hold attributes, the attributes of the last level hold none; a
\* message of less than 20 bytes holds nothing.
HeaderIsWritten(b, o) ==
  /\ b.at[o].level \in b.start..Levels
  /\ b.at[o].nested \in BOOLEAN
  /\ b.at[o].level = 1 => b.at[o].nested
  /\ b.at[o].level = Levels => ~b.at[o].nested
  /\ b.at[o].len \in LengthsOf(b.at[o].level)
  /\ b.at[o].len >= HeaderOf(b.at[o].level) /\ b.at[o].len + 3 < LenMod

\* The first element inside o follows its headers, and every element follows
\* the one before it, as long as the element around them lasts.
LaidOut(b) ==
  /\ DOMAIN b.at \subseteq Nat /\ 0 \in Elements(b, b.start)
  /\ \A o \in DOMAIN b.at :
       LET l == b.at[o].level
       IN  /\ HeaderIsWritten(b, o)
           /\ l = b.start => Behind(b, o) \in Elements(b, l) \/ Behind(b, o) >= b.len
           /\ b.at[o].nested =>
                PayloadOf(b, o) \in Elements(b, l + 1) \/ PayloadOf(b, o) >= EndOf(b, o)
           /\ \A p \in DOMAIN b.at :
                /\ o < p => Behind(b, o) <= p \/ Within(b, p, o)
                /\ Within(b, p, o) /\ p \in Elements(b, l + 1) =>
                     Behind(b, p) \in Elements(b, l + 1) \/ Behind(b, p) >= EndOf(b, o)

\* The values written, those of the messages that are whole; in a bare stream,
\* those of the attributes that are.
ValuesOf(b) ==
  {o \in DOMAIN b.at :
     /\ ~b.at[o].nested
     /\ \E t \in Elements(b, b.start) :
          EndOf(b, t) <= b.len /\ (o = t \/ Within(b, o, t))}

Value(b, o) == [from |-> PayloadOf(b, o), to |-> EndOf(b, o)]

(* AttrMod is so far below LenMod that an attribute's padding does not     *)
(* wrap; that of a message does not either, as long as no buffer comes     *)
(* near 2^32 bytes: there the padded length would be 0 and the walk would  *)
(* stand still.                                                            *)
ASSUME NlaWalkAssumption ==
  /\ Levels \in Nat \ {0, 1}
  /\ AttrMod \in Nat /\ LenMod \in Nat /\ AttrMod + 3 < LenMod /\ LenMod % 4 = 0
  /\ MaxLen \in Nat /\ MaxLen + 3 < LenMod
  /\ \A b \in RawBuffers :
       /\ b.len \in 0..MaxLen /\ b.start \in {1, 2}
       /\ Written(b) => LaidOut(b)

----------------------------------------------------------------------------
VARIABLES
  buffer,    \* the buffer fed
  level,     \* the innermost loop that runs; below buffer.start, none
  off, end,  \* by level: the offset the loop is at, and where its bytes end
  alen,      \* by level: the length in the header it is at
  read,      \* history: how far the bytes were read
  found      \* history: the values, as [from, to]

walkVars == <<buffer, level, off, end, alen, read, found>>

WalkTypeOK ==
  /\ buffer.len \in 0..MaxLen /\ buffer.start \in Level
  /\ level \in 0..Levels
  /\ off \in [Level -> 0..(MaxLen + 3)]
  /\ end \in [Level -> 0..MaxLen]
  /\ alen \in [Level -> 0..MaxLen]
  /\ read \in 0..MaxLen
  /\ found \in Seq([from : 0..MaxLen, to : 0..MaxLen])

Zero == [l \in Level |-> 0]

WalkInit ==
  /\ buffer \in RawBuffers
  /\ level = buffer.start
  /\ off = Zero
  /\ end = [Zero EXCEPT ![buffer.start] = buffer.len]
  /\ alen = Zero
  /\ read = 0
  /\ found = <<>>

----------------------------------------------------------------------------
Running == level >= buffer.start

\* while (off + 4 <= len), while (off + 16 <= len)
HeaderFits == off[level] + HeaderOf(level) <= end[level]

\* The lengths that rd16_le or rd32_le can find: the one that was written, or
\* any if no header was written there.
Length(o) ==
  IF o \in DOMAIN buffer.at THEN {buffer.at[o].len} ELSE LengthsOf(level)

\* Whether the type is one that the code descends into.
Nested(o) ==
  IF level = 1 THEN {TRUE}
  ELSE IF level = Levels THEN {FALSE}
  ELSE IF o \in DOMAIN buffer.at THEN {buffer.at[o].nested} ELSE BOOLEAN

(* Mutant: a length is only checked to be long enough. *)
FitsAnything(n) == n >= HeaderOf(level)

\* if (alen < 4 || off + alen > len) break;
Fits(n) == n >= HeaderOf(level) /\ off[level] + n <= end[level]

ReadHeader == read' = off[level] + HeaderOf(level)

(* Mutant: the loop above goes on inside the element. *)
ReturnInside ==
  /\ level' = level - 1
  /\ off' = [l \in Level |-> IF l = level THEN 0
                             ELSE IF l = level - 1 /\ l >= buffer.start
                             THEN off[l] + PayloadAt(l) ELSE off[l]]
  /\ end' = [end EXCEPT ![level] = 0]
  /\ alen' = [l \in Level |-> IF l \in {level - 1, level} THEN 0 ELSE alen[l]]
  /\ UNCHANGED <<buffer, found>>

\* The loop of this level ends and the one above goes on behind the element
\* it was in: its off += aligned.
Return ==
  /\ level' = level - 1
  /\ off' = [l \in Level |-> IF l = level THEN 0
                             ELSE IF l = level - 1 /\ l >= buffer.start
                             THEN off[l] + Align(alen[l]) ELSE off[l]]
  /\ end' = [end EXCEPT ![level] = 0]
  /\ alen' = [l \in Level |-> IF l \in {level - 1, level} THEN 0 ELSE alen[l]]
  /\ UNCHANGED <<buffer, found>>

\* Not enough bytes for another header.
AtEnd ==
  /\ Running /\ ~HeaderFits
  /\ Return
  /\ UNCHANGED read

\* A length that cannot be: the rest of this level is not looked at.
Break ==
  /\ Running /\ HeaderFits
  /\ \E n \in Length(off[level]) : ~Fits(n)
  /\ ReadHeader
  /\ Return

(* Mutant: the message is skipped and the offset is not moved. *)
SkipInPlace ==
  /\ Running /\ HeaderFits
  /\ \E n \in Length(off[level]) : Fits(n) /\ n < PayloadAt(level)
  /\ ReadHeader
  /\ UNCHANGED <<buffer, level, off, end, alen, found>>

\* A message without room for the second header: continue.
SkipShort ==
  /\ Running /\ HeaderFits
  /\ \E n \in Length(off[level]) :
       /\ Fits(n) /\ n < PayloadAt(level)
       /\ off' = [off EXCEPT ![level] = @ + Align(n)]
  /\ ReadHeader
  /\ UNCHANGED <<buffer, level, end, alen, found>>

(* Mutant: the padding of an element is taken for a part of its payload. *)
DescendPadded ==
  /\ Running /\ HeaderFits
  /\ \E n \in Length(off[level]) :
       /\ Fits(n) /\ n >= PayloadAt(level)
       /\ TRUE \in Nested(off[level])
       /\ off' = [off EXCEPT ![level + 1] = off[level] + PayloadAt(level)]
       /\ end' = [end EXCEPT ![level + 1] = off[level] + Align(n)]
       /\ alen' = [alen EXCEPT ![level] = n]
  /\ level' = level + 1
  /\ read' = off[level] + PayloadAt(level)
  /\ UNCHANGED <<buffer, found>>

\* An element with others inside: parse_ct_attrs(data + attr_off, attr_len),
\* parse_tuple(payload, plen), ...
Descend ==
  /\ Running /\ HeaderFits
  /\ \E n \in Length(off[level]) :
       /\ Fits(n) /\ n >= PayloadAt(level)
       /\ TRUE \in Nested(off[level])
       /\ off' = [off EXCEPT ![level + 1] = off[level] + PayloadAt(level)]
       /\ end' = [end EXCEPT ![level + 1] = off[level] + n]
       /\ alen' = [alen EXCEPT ![level] = n]
  /\ level' = level + 1
  /\ read' = off[level] + PayloadAt(level)
  /\ UNCHANGED <<buffer, found>>

\* An attribute with a value, or one of unknown type.
Visit ==
  /\ Running /\ HeaderFits
  /\ \E n \in Length(off[level]) :
       /\ Fits(n) /\ n >= PayloadAt(level)
       /\ FALSE \in Nested(off[level])
       /\ found' = Append(found, [from |-> off[level] + PayloadAt(level),
                                  to |-> off[level] + n])
       /\ read' = off[level] + n
       /\ off' = [off EXCEPT ![level] = @ + Align(n)]
  /\ UNCHANGED <<buffer, level, end, alen>>

WalkNext == AtEnd \/ Break \/ SkipShort \/ Descend \/ Visit

\* The loops run in one call and nothing can stop them.
WalkSpec == WalkInit /\ [][WalkNext]_walkVars /\ WF_walkVars(WalkNext)

----------------------------------------------------------------------------
(* Every loop stays inside the element that the loop above is at: what it  *)
(* reads is payload of that element, never its padding or a sibling, and   *)
(* no header and no value is read past the end of the buffer.  Behind the  *)
(* last attribute the offset may be ahead of the end, by padding that is   *)
(* not there.                                                              *)
LevelsNest ==
  /\ read <= buffer.len
  /\ \A l \in buffer.start..level :
       /\ end[l] <= buffer.len
       /\ off[l] <= end[l] + 3
       /\ l > buffer.start =>
            /\ off[l] >= off[l - 1] + PayloadAt(l - 1)
            /\ end[l] = off[l - 1] + alen[l - 1]
            /\ end[l] <= end[l - 1]

(* Nothing is read twice: what comes next lies behind every header and     *)
(* every value read before, on whatever level.  So no byte is in two       *)
(* values, none is a value and a header, and it is no restriction that a   *)
(* header is chosen when it is read.                                       *)
NothingReadTwice == Running /\ HeaderFits => off[level] >= read

(* The walk finds what was written: when it ends, the values are those of  *)
(* the messages that are whole, each at its place, in its length and once, *)
(* also when the padding of the last attribute is missing.  A message that *)
(* is cut off gives none of its values, and does not cost those before it. *)
FindsWhatWasWritten ==
  ~Running /\ Written(buffer) =>
    /\ {found[i] : i \in DOMAIN found} = {Value(buffer, o) : o \in ValuesOf(buffer)}
    /\ \A i, j \in DOMAIN found : i < j => found[i].from < found[j].from

(* The walk over any buffer ends: each round takes it further, also where  *)
(* a length is 0, too short or longer than what is left.                   *)
WalkEnds == <>(~Running)
=============================================================================
