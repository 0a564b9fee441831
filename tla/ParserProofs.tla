---------------------------- MODULE ParserProofs ----------------------------
(***************************************************************************)
(* The walk that both netlink parsers make over the bytes of a buffer, and *)
(* what the Wi-Fi parser makes of what the walk finds.  (NatWatchProofs is *)
(* about the conntrack parser and its daemon.)                             *)
(*                                                                         *)
(* The walk stays inside its buffer and reads nothing twice, for buffers   *)
(* of any bytes and of any length that is not near 2^32.  LevelsNest and   *)
(* NothingReadTwice are not inductive.  When a loop ends, the one above    *)
(* goes on behind the element it was in, and that is behind everything     *)
(* read only because the loop below never read past the end of the         *)
(* element: WalkInv adds that what was read ends before both the offset    *)
(* and the end of the innermost level.                                     *)
(*                                                                         *)
(* It finds what a writer laid out.  FindInv says why: on every level the  *)
(* walk is at an element that was written or past the last one, and what   *)
(* it found are the values written before the place where it is.  So every *)
(* step has to show that no value lies between its place before and after: *)
(* that is where the layout comes in, elements behind or within another.   *)
(* And it goes on for at most a number of steps that is linear in the      *)
(* length of the buffer, whatever the bytes are.                           *)
(*                                                                         *)
(* The Wi-Fi parser's events are about one station each, for all buffers,  *)
(* attributes in any order and number, and all sizes of the queue.  Every  *)
(* attribute adds to an event what it says and nothing else: Knows follows *)
(* that through the nested loops, and Sound is what it makes of an event.  *)
(***************************************************************************)
EXTENDS NlaWalk, Nl80211, ContextProofs

----------------------------------------------------------------------------
(* The walk over a buffer. *)

\* What holds between a level and the one around it.
Nests(l) ==
  /\ off[l] >= off[l - 1] + PayloadAt(l - 1)
  /\ end[l] = off[l - 1] + alen[l - 1]
  /\ end[l] <= end[l - 1]

WalkInv ==
  /\ WalkTypeOK
  /\ buffer \in RawBuffers
  /\ level >= buffer.start - 1
  /\ read <= buffer.len
  /\ Running => read <= off[level] /\ read <= end[level]
  /\ \A l \in Level : buffer.start <= l /\ l <= level =>
       /\ end[l] <= buffer.len
       /\ off[l] <= end[l] + 3
       /\ l > buffer.start => Nests(l)

\* Padding adds up to three bytes; below 2^32 it does not wrap.
LEMMA AlignBounds ==
  ASSUME NEW n \in 0..MaxLen
  PROVE  Align(n) \in n..(n + 3)
<1>1. (n + 3) % LenMod = n + 3
  BY NlaWalkAssumption
<1>2. \A k \in Nat : (k \div 4) * 4 \in (k - 3)..k
  OBVIOUS
<1> QED
  BY <1>1, <1>2, NlaWalkAssumption DEF Align

\* The lengths found at an offset are natural numbers.
LEMMA LengthsAreNat ==
  ASSUME WalkInv, NEW o, NEW n \in Length(o)
  PROVE  n \in Nat
<1>1. buffer \in RawBuffers
  BY DEF WalkInv
<1>2. CASE o \in DOMAIN buffer.at
  <2>1. LaidOut(buffer)
    BY <1>1, <1>2, NlaWalkAssumption DEF Written
  <2>2. buffer.at[o].len \in LengthsOf(buffer.at[o].level)
    BY <1>2, <2>1 DEF LaidOut, HeaderIsWritten
  <2> QED
    BY <1>2, <2>2, NlaWalkAssumption DEF Length, LengthsOf
<1>3. CASE o \notin DOMAIN buffer.at
  BY <1>3, NlaWalkAssumption DEF Length, LengthsOf
<1> QED
  BY <1>2, <1>3

LEMMA WalkInitInv == WalkInit => WalkInv
<1> SUFFICES ASSUME WalkInit PROVE WalkInv
  OBVIOUS
<1>1. /\ buffer \in RawBuffers /\ buffer.len \in 0..MaxLen /\ buffer.start \in {1, 2}
      /\ buffer.start \in Level /\ MaxLen \in Nat /\ Levels \in Nat /\ Levels >= 2
  BY NlaWalkAssumption DEF WalkInit, Level
<1>2. /\ off = Zero /\ alen = Zero /\ read = 0 /\ found = <<>>
      /\ level = buffer.start
      /\ end = [Zero EXCEPT ![buffer.start] = buffer.len]
  BY DEF WalkInit
<1>3. WalkTypeOK
  BY <1>1, <1>2 DEF WalkTypeOK, Zero, Level
<1> QED
  BY <1>1, <1>2, <1>3 DEF WalkInv, Zero, Level, Running

\* The types that the steps start from.
LEMMA WalkTyped ==
  ASSUME WalkInv, Running
  PROVE  /\ buffer.start \in 1..2 /\ buffer.len \in 0..MaxLen
         /\ level \in Level /\ level >= buffer.start
         /\ off[level] \in 0..(MaxLen + 3) /\ end[level] \in 0..MaxLen
         /\ alen[level] \in 0..MaxLen
         /\ read \in 0..MaxLen
         /\ end[level] <= buffer.len /\ off[level] <= end[level] + 3
         /\ HeaderOf(level) \in {4, 16} /\ PayloadAt(level) \in {4, 20}
         /\ HeaderOf(level) <= PayloadAt(level)
<1>1. buffer.start \in {1, 2} /\ buffer.len \in 0..MaxLen
  BY NlaWalkAssumption DEF WalkInv
<1>2. level \in Level /\ level >= buffer.start
  BY <1>1, NlaWalkAssumption DEF WalkInv, WalkTypeOK, Running, Level
<1>3. end[level] <= buffer.len /\ off[level] <= end[level] + 3
  BY <1>1, <1>2 DEF WalkInv, Level
<1> QED
  BY <1>1, <1>2, <1>3 DEF WalkInv, WalkTypeOK, HeaderOf, PayloadAt

\* A loop that ends hands over to the one above, which is then behind the
\* element that was walked through.
LEMMA ReturnStep ==
  ASSUME WalkInv, Running, Return, read' \in Nat, read' <= end[level]
  PROVE  WalkInv'
<1> DEFINE k == level - 1
<1>0. /\ buffer.start \in 1..2 /\ buffer.len \in 0..MaxLen
      /\ level \in Level /\ level >= buffer.start
      /\ off[level] \in 0..(MaxLen + 3) /\ end[level] \in 0..MaxLen
      /\ end[level] <= buffer.len
      /\ Levels \in Nat /\ level \in 1..Levels
      /\ k \in Int /\ level \in Int /\ k = level - 1 /\ k + 1 = level
  BY WalkTyped, NlaWalkAssumption DEF Level
<1>r. read' \in Nat /\ read' <= end[level]
  OBVIOUS
<1> HIDE DEF k
<1>1. /\ level' = k /\ UNCHANGED <<buffer, found>>
      /\ off' = [l \in Level |-> IF l = level THEN 0
                                 ELSE IF l = k /\ l >= buffer.start
                                 THEN off[l] + Align(alen[l]) ELSE off[l]]
      /\ end' = [end EXCEPT ![level] = 0]
      /\ alen' = [l \in Level |-> IF l \in {k, level} THEN 0 ELSE alen[l]]
  BY DEF Return, k
<1>2. /\ MaxLen \in Nat /\ Levels \in Nat
      /\ off \in [Level -> 0..(MaxLen + 3)] /\ end \in [Level -> 0..MaxLen]
      /\ alen \in [Level -> 0..MaxLen]
  BY NlaWalkAssumption DEF WalkInv, WalkTypeOK
<1>i. \A l \in Level : buffer.start <= l /\ l <= level =>
        /\ end[l] <= buffer.len
        /\ off[l] <= end[l] + 3
        /\ l > buffer.start => Nests(l)
  BY DEF WalkInv
<1>3. ASSUME k >= buffer.start
      PROVE  /\ k \in Level /\ level > buffer.start
             /\ Nests(level) /\ end[k] <= buffer.len
             /\ off[k] + Align(alen[k]) \in end[level]..(end[k] + 3)
             /\ end[level] <= end[k]
  <2>1. k \in Level /\ level > buffer.start /\ k <= level
    <3>1. k >= 1 /\ k <= Levels /\ level > buffer.start /\ k <= level
      BY <1>3, <1>0
    <3> QED
      BY <1>0, <3>1 DEF Level
  <2>2. Nests(level) /\ end[k] <= buffer.len
    BY <1>3, <1>0, <1>i, <2>1
  <2>3. Align(alen[k]) \in alen[k]..(alen[k] + 3)
    BY <1>2, <2>1, AlignBounds
  <2>4. end[level] = off[k] + alen[k] /\ end[level] <= end[k]
    BY <1>0, <2>2 DEF Nests
  <2>5. /\ off[k] \in Int /\ alen[k] \in Int /\ end[k] \in Int
    BY <1>2, <2>1
  <2> QED
    BY <1>0, <2>1, <2>2, <2>3, <2>4, <2>5
<1>4. WalkTypeOK'
  <2>1. off' \in [Level -> 0..(MaxLen + 3)]
    <3> SUFFICES ASSUME NEW l \in Level
                 PROVE  off'[l] \in 0..(MaxLen + 3)
      BY <1>1
    <3>1. CASE l = k /\ l >= buffer.start /\ l # level
      <4>1. off'[l] = off[k] + Align(alen[k])
        BY <1>1, <3>1
      <4>2. /\ k \in Level
            /\ off[k] + Align(alen[k]) \in end[level]..(end[k] + 3)
        BY <1>3, <3>1
      <4>3. end[k] \in 0..MaxLen
        BY <1>2, <4>2
      <4> QED
        BY <1>0, <1>2, <4>1, <4>2, <4>3
    <3>2. CASE ~(l = k /\ l >= buffer.start) \/ l = level
      BY <1>1, <1>2, <3>2
    <3> QED
      BY <3>1, <3>2
  <2>2. end' \in [Level -> 0..MaxLen] /\ alen' \in [Level -> 0..MaxLen]
    <3>1. end' \in [Level -> 0..MaxLen]
      BY <1>0, <1>1, <1>2
    <3>2. alen' \in [Level -> 0..MaxLen]
      BY <1>0, <1>1, <1>2
    <3> QED
      BY <3>1, <3>2
  <2>3. level' \in 0..Levels /\ read' \in 0..MaxLen
    BY <1>0, <1>1, <1>2, <1>r DEF Level
  <2>4. /\ buffer'.len \in 0..MaxLen /\ buffer'.start \in Level
        /\ found' \in Seq([from : 0..MaxLen, to : 0..MaxLen])
    BY <1>1 DEF WalkInv, WalkTypeOK
  <2> QED
    BY <2>1, <2>2, <2>3, <2>4 DEF WalkTypeOK
<1>5. read' <= buffer'.len /\ level' >= buffer'.start - 1 /\ buffer' \in RawBuffers
  <2>1. buffer \in RawBuffers
    BY DEF WalkInv
  <2> QED
    BY <1>0, <1>1, <1>2, <1>r, <2>1
<1>6. Running' => read' <= off'[level'] /\ read' <= end'[level']
  <2> SUFFICES ASSUME Running'
               PROVE  read' <= off'[level'] /\ read' <= end'[level']
    OBVIOUS
  <2>1. k >= buffer.start
    BY <1>1 DEF Running
  <2>2. /\ k \in Level /\ end[level] <= end[k]
        /\ off[k] + Align(alen[k]) \in end[level]..(end[k] + 3)
    BY <1>3, <2>1
  <2>3. k # level
    BY <1>0
  <2>4. off'[k] = off[k] + Align(alen[k]) /\ end'[k] = end[k]
    BY <1>1, <1>2, <2>1, <2>2, <2>3
  <2>5. end[k] \in Int
    BY <1>2, <2>2
  <2> QED
    BY <1>0, <1>1, <1>r, <2>2, <2>4, <2>5
<1>7. ASSUME NEW l \in Level, buffer'.start <= l, l <= level'
      PROVE  /\ end'[l] <= buffer'.len
             /\ off'[l] <= end'[l] + 3
             /\ l > buffer'.start => Nests(l)'
  <2>0. l \in Int /\ l <= k /\ buffer.start <= l
    BY <1>1, <1>7 DEF Level
  <2>1. l # level /\ l <= level /\ k >= buffer.start
    BY <1>0, <2>0
  <2>2. /\ end'[l] = end[l]
        /\ off'[l] = IF l = k THEN off[k] + Align(alen[k]) ELSE off[l]
    BY <1>1, <1>2, <2>0, <2>1
  <2>3. /\ end[l] <= buffer.len /\ off[l] <= end[l] + 3
        /\ l > buffer.start => Nests(l)
    BY <1>i, <2>0, <2>1
  <2>4. off[k] + Align(alen[k]) \in end[level]..(end[k] + 3) /\ k \in Level
    BY <1>3, <2>1
  <2>5. end'[l] <= buffer'.len /\ off'[l] <= end'[l] + 3
    BY <1>0, <1>1, <2>2, <2>3, <2>4
  <2>6. ASSUME l > buffer.start
        PROVE  Nests(l)'
    <3>1. /\ l - 1 \in Level /\ l - 1 # k /\ l - 1 # level
      <4>1. l - 1 >= 1 /\ l - 1 <= Levels /\ l - 1 < k /\ l - 1 < level
        BY <1>0, <2>0, <2>6
      <4> QED
        BY <1>0, <2>0, <4>1 DEF Level
    <3>2. /\ off'[l - 1] = off[l - 1] /\ alen'[l - 1] = alen[l - 1]
          /\ end'[l - 1] = end[l - 1]
      BY <1>1, <1>2, <3>1
    <3>3. off'[l] >= off[l]
      <4>1. off[l] \in Int /\ alen[l] \in 0..MaxLen
        BY <1>2
      <4>2. Align(alen[l]) \in alen[l]..(alen[l] + 3)
        BY <4>1, AlignBounds
      <4> QED
        BY <1>2, <2>2, <4>1, <4>2
    <3>4. /\ off'[l] \in Int /\ off[l] \in Int /\ off[l - 1] \in Int
          /\ PayloadAt(l - 1) \in Int
      BY <1>2, <1>4, <3>1 DEF WalkTypeOK, PayloadAt
    <3>5. Nests(l)
      BY <2>3, <2>6
    <3>6. /\ off'[l] >= off'[l - 1] + PayloadAt(l - 1)
          /\ end'[l] = off'[l - 1] + alen'[l - 1]
          /\ end'[l] <= end'[l - 1]
      BY <2>2, <3>2, <3>3, <3>4, <3>5 DEF Nests
    <3> QED
      BY <3>6 DEF Nests, PayloadAt
  <2> QED
    BY <1>1, <2>5, <2>6
<1> QED
  BY <1>4, <1>5, <1>6, <1>7 DEF WalkInv

\* A loop that stays on its level and goes on behind an element.
LEMMA AdvanceStep ==
  ASSUME WalkInv, Running, NEW n \in Nat, Fits(n),
         off' = [off EXCEPT ![level] = @ + Align(n)],
         read' \in 0..(off[level] + n),
         found' \in Seq([from : 0..MaxLen, to : 0..MaxLen]),
         UNCHANGED <<buffer, level, end, alen>>
  PROVE  WalkInv'
<1>0. /\ buffer.start \in 1..2 /\ buffer.len \in 0..MaxLen
      /\ level \in Level /\ level >= buffer.start
      /\ off[level] \in 0..(MaxLen + 3) /\ end[level] \in 0..MaxLen
      /\ end[level] <= buffer.len
      /\ MaxLen \in Nat
  BY WalkTyped, NlaWalkAssumption
<1>1. /\ buffer' = buffer /\ level' = level /\ end' = end /\ alen' = alen
      /\ off' = [off EXCEPT ![level] = @ + Align(n)]
      /\ read' \in 0..(off[level] + n)
  OBVIOUS
<1>2. /\ off \in [Level -> 0..(MaxLen + 3)] /\ end \in [Level -> 0..MaxLen]
      /\ alen \in [Level -> 0..MaxLen]
  BY DEF WalkInv, WalkTypeOK
<1>i. \A l \in Level : buffer.start <= l /\ l <= level =>
        /\ end[l] <= buffer.len
        /\ off[l] <= end[l] + 3
        /\ l > buffer.start => Nests(l)
  BY DEF WalkInv
<1>3. off[level] + n <= end[level]
  BY DEF Fits
<1>4. Align(n) \in n..(n + 3)
  <2>1. n \in 0..MaxLen
    BY <1>0, <1>3
  <2> QED
    BY <2>1, AlignBounds
<1>5. /\ off[level] + Align(n) \in 0..(MaxLen + 3)
      /\ off[level] + Align(n) <= end[level] + 3
      /\ off[level] + Align(n) >= off[level]
      /\ read' <= off[level] + Align(n) /\ read' <= end[level] /\ read' \in 0..MaxLen
      /\ read' <= buffer.len
  <2>1. Align(n) \in Int /\ Align(n) >= n /\ Align(n) <= n + 3
    BY <1>4
  <2>2. off[level] \in Nat /\ end[level] \in Nat /\ end[level] <= MaxLen
    BY <1>0
  <2>3. read' \in Nat /\ read' <= off[level] + n
    BY <1>1, <2>2
  <2>4. /\ off[level] + Align(n) \in Int
        /\ off[level] + Align(n) >= off[level] + n
        /\ off[level] + Align(n) <= off[level] + n + 3
    BY <2>1, <2>2
  <2>5. off[level] + n \in Nat /\ off[level] + n <= MaxLen
    BY <1>0, <1>3, <2>2
  <2>6. off[level] + Align(n) \in 0..(MaxLen + 3)
    BY <1>0, <2>4, <2>5
  <2>7. off[level] + Align(n) <= end[level] + 3 /\ off[level] + Align(n) >= off[level]
    BY <1>3, <2>2, <2>4, <2>5
  <2>8. /\ read' <= off[level] + Align(n) /\ read' <= end[level]
        /\ read' \in 0..MaxLen /\ read' <= buffer.len
    <3>1. buffer.len \in Int /\ MaxLen \in Int /\ end[level] <= buffer.len
      BY <1>0
    <3>2. read' <= off[level] + Align(n) /\ read' <= end[level]
      BY <1>3, <2>2, <2>3, <2>4, <2>5
    <3> QED
      BY <2>2, <2>3, <3>1, <3>2
  <2> QED
    BY <2>6, <2>7, <2>8
<1>6. \A l \in Level : off'[l] = IF l = level THEN off[level] + Align(n) ELSE off[l]
  BY <1>1, <1>2
<1>7. off' \in [Level -> 0..(MaxLen + 3)]
  BY <1>0, <1>1, <1>2, <1>5
<1>8. WalkTypeOK'
  <2>1. /\ buffer'.len \in 0..MaxLen /\ buffer'.start \in Level
        /\ level' \in 0..Levels
    BY <1>1 DEF WalkInv, WalkTypeOK
  <2> QED
    BY <1>1, <1>2, <1>5, <1>7, <2>1 DEF WalkTypeOK
<1>9. ASSUME NEW l \in Level, buffer.start <= l, l <= level
      PROVE  /\ end'[l] <= buffer'.len
             /\ off'[l] <= end'[l] + 3
             /\ l > buffer'.start => Nests(l)'
  <2>1. /\ end[l] <= buffer.len /\ off[l] <= end[l] + 3
        /\ l > buffer.start => Nests(l)
    BY <1>9, <1>i
  <2>2. end'[l] <= buffer'.len /\ off'[l] <= end'[l] + 3
    BY <1>1, <1>5, <1>6, <2>1
  <2>3. ASSUME l > buffer.start
        PROVE  Nests(l)'
    <3>1. l - 1 \in Level /\ l - 1 # level
      <4>1. l \in 1..Levels /\ level \in 1..Levels /\ Levels \in Nat
        BY <1>0, NlaWalkAssumption DEF Level
      <4>2. l - 1 \in 1..Levels /\ l - 1 < level
        BY <1>0, <1>9, <2>3, <4>1
      <4> QED
        BY <4>1, <4>2 DEF Level
    <3>2. off'[l - 1] = off[l - 1] /\ off'[l] >= off[l]
      <4>1. off[l] \in Int
        BY <1>2
      <4> QED
        BY <1>5, <1>6, <3>1, <4>1
    <3>3. off[l] \in Int /\ off'[l] \in Int /\ off[l - 1] \in Int /\ PayloadAt(l - 1) \in Int
      BY <1>2, <1>7, <3>1 DEF PayloadAt
    <3>4. Nests(l)
      BY <2>1, <2>3
    <3>5. /\ off'[l] >= off'[l - 1] + PayloadAt(l - 1)
          /\ end'[l] = off'[l - 1] + alen'[l - 1]
          /\ end'[l] <= end'[l - 1]
      BY <1>1, <3>2, <3>3, <3>4 DEF Nests
    <3> QED
      BY <3>5 DEF Nests, PayloadAt
  <2> QED
    BY <1>1, <2>2, <2>3
<1>10. Running' => read' <= off'[level'] /\ read' <= end'[level']
  BY <1>0, <1>1, <1>5, <1>6
<1>11. buffer' \in RawBuffers /\ level' >= buffer'.start - 1 /\ read' <= buffer'.len
  BY <1>0, <1>1, <1>5 DEF WalkInv
<1> QED
  BY <1>1, <1>8, <1>9, <1>10, <1>11 DEF WalkInv

\* The loop of the next level gets what is left of the element behind its
\* headers.
LEMMA DescendStep == ASSUME WalkInv, Descend PROVE WalkInv'
<1> USE NlaWalkAssumption
<1>n. Running
  BY DEF Descend
<1>0. /\ buffer.start \in 1..2 /\ buffer.len \in 0..MaxLen
      /\ level \in Level /\ level >= buffer.start
      /\ off[level] \in 0..(MaxLen + 3) /\ end[level] \in 0..MaxLen
      /\ end[level] <= buffer.len
      /\ MaxLen \in Nat /\ PayloadAt(level) \in {4, 20}
  BY <1>n, WalkTyped
<1>1. PICK n \in Length(off[level]) :
        /\ Fits(n) /\ n >= PayloadAt(level)
        /\ TRUE \in Nested(off[level])
        /\ off' = [off EXCEPT ![level + 1] = off[level] + PayloadAt(level)]
        /\ end' = [end EXCEPT ![level + 1] = off[level] + n]
        /\ alen' = [alen EXCEPT ![level] = n]
  BY DEF Descend
<1>2. /\ off \in [Level -> 0..(MaxLen + 3)] /\ end \in [Level -> 0..MaxLen]
      /\ alen \in [Level -> 0..MaxLen]
  BY DEF WalkInv, WalkTypeOK
<1>i. \A l \in Level : buffer.start <= l /\ l <= level =>
        /\ end[l] <= buffer.len
        /\ off[l] <= end[l] + 3
        /\ l > buffer.start => Nests(l)
  BY DEF WalkInv
<1>3. /\ buffer' = buffer /\ found' = found /\ level' = level + 1
      /\ read' = off[level] + PayloadAt(level)
  BY DEF Descend
<1>4. level + 1 \in Level
  <2>1. level # Levels
    <3> SUFFICES ASSUME level = Levels PROVE FALSE
      OBVIOUS
    <3>1. Nested(off[level]) = {FALSE}
      BY DEF Nested
    <3> QED
      BY <1>1, <3>1
  <2> QED
    BY <1>0, <2>1 DEF Level
<1>5. n \in Nat /\ off[level] + n <= end[level] /\ n >= PayloadAt(level)
  BY <1>1, LengthsAreNat DEF Fits
<1>6. /\ off[level] + PayloadAt(level) \in 0..(MaxLen + 3)
      /\ off[level] + PayloadAt(level) <= off[level] + n
      /\ off[level] + n \in 0..MaxLen /\ n \in 0..MaxLen
      /\ off[level] + n <= buffer.len
      /\ read' \in 0..MaxLen /\ read' <= buffer.len
  BY <1>0, <1>3, <1>5
<1>7. /\ off' \in [Level -> 0..(MaxLen + 3)] /\ end' \in [Level -> 0..MaxLen]
      /\ alen' \in [Level -> 0..MaxLen]
  BY <1>1, <1>2, <1>4, <1>6
<1>8. WalkTypeOK'
  <2>1. /\ buffer'.len \in 0..MaxLen /\ buffer'.start \in Level
        /\ found' \in Seq([from : 0..MaxLen, to : 0..MaxLen])
    BY <1>3 DEF WalkInv, WalkTypeOK
  <2>2. level' \in 0..Levels
    BY <1>3, <1>4 DEF Level
  <2> QED
    BY <1>6, <1>7, <2>1, <2>2 DEF WalkTypeOK
<1>9. /\ off'[level + 1] = off[level] + PayloadAt(level)
      /\ end'[level + 1] = off[level] + n
      /\ alen'[level] = n
  BY <1>0, <1>1, <1>2, <1>4
<1>10. \A l \in Level : l # level + 1 => off'[l] = off[l] /\ end'[l] = end[l]
  BY <1>1, <1>2
<1>11. \A l \in Level : l # level => alen'[l] = alen[l]
  BY <1>1, <1>2
<1>12. /\ buffer' \in RawBuffers /\ level' >= buffer'.start - 1
       /\ read' <= off'[level'] /\ read' <= end'[level']
  <2>1. buffer' \in RawBuffers
    BY <1>3 DEF WalkInv
  <2>2. level' >= buffer'.start - 1
    BY <1>0, <1>3 DEF Level
  <2>3. read' <= off'[level'] /\ read' <= end'[level']
    BY <1>0, <1>3, <1>5, <1>6, <1>9
  <2> QED
    BY <2>1, <2>2, <2>3
<1>13. ASSUME NEW l \in Level, buffer.start <= l, l <= level + 1
       PROVE  /\ end'[l] <= buffer'.len
              /\ off'[l] <= end'[l] + 3
              /\ l > buffer'.start => Nests(l)'
  <2>0. level \in Int /\ l \in Int /\ level \in 1..Levels /\ l \in 1..Levels
    BY <1>0 DEF Level
  <2>1. CASE l = level + 1
    <3>1. l - 1 = level /\ l # level
      BY <2>0, <2>1
    <3>2. off'[level] = off[level] /\ end'[level] = end[level]
      BY <1>0, <1>10, <2>0, <2>1
    <3>3. /\ off'[l] >= off'[level] + PayloadAt(level)
          /\ end'[l] = off'[level] + alen'[level]
          /\ end'[l] <= end'[level]
      BY <1>0, <1>5, <1>9, <2>1, <3>2
    <3>4. Nests(l)'
      BY <3>1, <3>3 DEF Nests, PayloadAt
    <3> QED
      BY <1>0, <1>3, <1>5, <1>6, <1>9, <2>1, <3>4
  <2>2. CASE l # level + 1
    <3>1. l <= level
      BY <1>13, <2>0, <2>2
    <3>2. /\ end[l] <= buffer.len /\ off[l] <= end[l] + 3
          /\ l > buffer.start => Nests(l)
      BY <1>13, <1>i, <3>1
    <3>3. off'[l] = off[l] /\ end'[l] = end[l]
      BY <1>10, <2>2
    <3>4. ASSUME l > buffer.start
          PROVE  Nests(l)'
      <4>1. l - 1 \in Level /\ l - 1 # level /\ l - 1 # level + 1
        <5>1. l - 1 \in 1..Levels /\ l - 1 < level
          BY <1>0, <2>0, <3>1, <3>4
        <5> QED
          BY <2>0, <5>1 DEF Level
      <4>2. /\ off'[l - 1] = off[l - 1] /\ end'[l - 1] = end[l - 1]
            /\ alen'[l - 1] = alen[l - 1]
        BY <1>10, <1>11, <4>1
      <4>3. Nests(l)
        BY <3>2, <3>4
      <4>4. /\ off'[l] >= off'[l - 1] + PayloadAt(l - 1)
            /\ end'[l] = off'[l - 1] + alen'[l - 1]
            /\ end'[l] <= end'[l - 1]
        BY <3>3, <4>2, <4>3 DEF Nests
      <4> QED
        BY <4>4 DEF Nests, PayloadAt
    <3> QED
      BY <1>3, <3>2, <3>3, <3>4
  <2> QED
    BY <2>1, <2>2
<1> QED
  BY <1>3, <1>6, <1>8, <1>12, <1>13 DEF WalkInv

\* What every step that reads a header starts from.
LEMMA HeaderRead ==
  ASSUME WalkInv, Running, HeaderFits
  PROVE  /\ off[level] + HeaderOf(level) \in Nat
         /\ off[level] + HeaderOf(level) <= end[level]
<1>1. off[level] \in 0..(MaxLen + 3) /\ HeaderOf(level) \in {4, 16}
  BY WalkTyped
<1> QED
  BY <1>1, NlaWalkAssumption DEF HeaderFits

LEMMA AdvancingSteps == ASSUME WalkInv, SkipShort \/ Visit PROVE WalkInv'
<1>1. Running /\ HeaderFits /\ UNCHANGED <<buffer, level, end, alen>>
  BY DEF SkipShort, Visit
<1>2. /\ off[level] \in 0..(MaxLen + 3) /\ end[level] \in 0..MaxLen
      /\ HeaderOf(level) \in {4, 16} /\ PayloadAt(level) \in {4, 20}
      /\ MaxLen \in Nat
  BY <1>1, WalkTyped, NlaWalkAssumption
<1>3. found \in Seq([from : 0..MaxLen, to : 0..MaxLen])
  BY DEF WalkInv, WalkTypeOK
<1>4. CASE SkipShort
  <2>1. PICK n \in Length(off[level]) :
          Fits(n) /\ off' = [off EXCEPT ![level] = @ + Align(n)]
    BY <1>4 DEF SkipShort
  <2>2. n \in Nat /\ n >= HeaderOf(level)
    BY <2>1, LengthsAreNat DEF Fits
  <2>3. read' = off[level] + HeaderOf(level) /\ found' = found
    BY <1>4 DEF SkipShort, ReadHeader
  <2>4. read' \in 0..(off[level] + n)
    BY <1>2, <2>2, <2>3
  <2> QED
    BY <1>1, <1>3, <2>1, <2>2, <2>3, <2>4, AdvanceStep
<1>5. CASE Visit
  <2>1. PICK n \in Length(off[level]) :
          /\ Fits(n) /\ n >= PayloadAt(level)
          /\ found' = Append(found, [from |-> off[level] + PayloadAt(level),
                                     to |-> off[level] + n])
          /\ read' = off[level] + n
          /\ off' = [off EXCEPT ![level] = @ + Align(n)]
    BY <1>5 DEF Visit
  <2>2. n \in Nat /\ off[level] + n <= end[level]
    BY <2>1, LengthsAreNat DEF Fits
  <2>3. read' \in 0..(off[level] + n)
    BY <1>2, <2>1, <2>2
  <2>4. off[level] + PayloadAt(level) \in 0..MaxLen /\ off[level] + n \in 0..MaxLen
    <3>1. n >= PayloadAt(level)
      BY <2>1
    <3> QED
      BY <1>2, <2>2, <3>1
  <2>5. found' \in Seq([from : 0..MaxLen, to : 0..MaxLen])
    BY <1>3, <2>1, <2>4
  <2> QED
    BY <1>1, <2>1, <2>2, <2>3, <2>5, AdvanceStep
<1> QED
  BY <1>4, <1>5

LEMMA ReturningSteps == ASSUME WalkInv, AtEnd \/ Break PROVE WalkInv'
<1>1. Running /\ Return
  BY DEF AtEnd, Break
<1>2. CASE Break
  <2>1. read' = off[level] + HeaderOf(level) /\ HeaderFits
    BY <1>2 DEF Break, ReadHeader
  <2>2. read' \in Nat /\ read' <= end[level]
    BY <1>1, <2>1, HeaderRead
  <2> QED
    BY <1>1, <2>2, ReturnStep
<1>3. CASE AtEnd
  <2>1. read' = read
    BY <1>3 DEF AtEnd
  <2>2. read' \in Nat /\ read' <= end[level]
    BY <1>1, <2>1, NlaWalkAssumption DEF WalkInv, WalkTypeOK
  <2> QED
    BY <1>1, <2>2, ReturnStep
<1> QED
  BY <1>2, <1>3

LEMMA WalkInductive == WalkInv /\ [WalkNext]_walkVars => WalkInv'
<1> SUFFICES ASSUME WalkInv, [WalkNext]_walkVars PROVE WalkInv'
  OBVIOUS
<1>1. CASE AtEnd \/ Break
  BY <1>1, ReturningSteps
<1>2. CASE SkipShort \/ Visit
  BY <1>2, AdvancingSteps
<1>3. CASE Descend
  BY <1>3, DescendStep
<1>4. CASE UNCHANGED walkVars
  BY <1>4 DEF walkVars, WalkInv, WalkTypeOK, Running, Nests, PayloadAt, Level
<1> QED
  BY <1>1, <1>2, <1>3, <1>4 DEF WalkNext

LEMMA WalkInvAlways == WalkSpec => []WalkInv
<1>1. WalkSpec => WalkInit /\ [][WalkNext]_walkVars
  BY PTL DEF WalkSpec
<1> QED
  BY <1>1, WalkInitInv, WalkInductive, PTL

(* Types are kept, whatever the bytes: offsets never run ahead of the      *)
(* buffer by more than the padding of its last element.                    *)
THEOREM WalkTypeCorrect == WalkSpec => []WalkTypeOK
<1>1. WalkInv => WalkTypeOK
  BY DEF WalkInv
<1> QED
  BY <1>1, WalkInvAlways, PTL

(* Every loop of the parsers stays inside the element the loop above is    *)
(* at, and inside the buffer, whatever lengths its bytes give.             *)
THEOREM WalkIsContained == WalkSpec => []LevelsNest
<1>1. WalkInv => LevelsNest
  <2> SUFFICES ASSUME WalkInv PROVE LevelsNest
    OBVIOUS
  <2>1. read <= buffer.len
    BY DEF WalkInv
  <2>2. ASSUME NEW l \in buffer.start..level
        PROVE  l \in Level /\ buffer.start <= l /\ l <= level
    <3>1. buffer.start \in {1, 2} /\ level \in 0..Levels
      BY NlaWalkAssumption DEF WalkInv, WalkTypeOK
    <3> QED
      BY <2>2, <3>1, NlaWalkAssumption DEF Level
  <2>3. \A l \in buffer.start..level :
          /\ end[l] <= buffer.len /\ off[l] <= end[l] + 3
          /\ l > buffer.start => Nests(l)
    BY <2>2 DEF WalkInv
  <2> QED
    BY <2>1, <2>3 DEF LevelsNest, Nests
<1> QED
  BY <1>1, WalkInvAlways, PTL

(* No byte is read twice: the next header lies behind all that was read.   *)
THEOREM ReadsOnce == WalkSpec => []NothingReadTwice
<1>1. WalkInv => NothingReadTwice
  <2> SUFFICES ASSUME WalkInv, Running PROVE off[level] >= read
    BY DEF NothingReadTwice
  <2>1. read <= off[level]
    BY DEF WalkInv
  <2>2. read \in Int /\ off[level] \in Int
    BY WalkTyped
  <2> QED
    BY <2>1, <2>2
<1> QED
  BY <1>1, WalkInvAlways, PTL

----------------------------------------------------------------------------
(* What a writer laid out. *)

\* What every element of a written buffer is.
LEMMA ElementIs ==
  ASSUME NEW b \in RawBuffers, Written(b), NEW o \in DOMAIN b.at
  PROVE  /\ o \in Nat /\ b.at[o].len \in Nat
         /\ b.at[o].level \in b.start..Levels /\ b.at[o].level \in Nat
         /\ b.at[o].nested \in BOOLEAN
         /\ b.at[o].level = 1 => b.at[o].nested
         /\ b.at[o].level = Levels => ~b.at[o].nested
         /\ Behind(b, o) = o + Align(b.at[o].len)
         /\ EndOf(b, o) = o + b.at[o].len
         /\ PayloadOf(b, o) = o + PayloadAt(b.at[o].level)
         /\ EndOf(b, o) \in Nat /\ PayloadOf(b, o) \in Nat /\ Behind(b, o) \in Nat
         /\ PayloadOf(b, o) >= o + 4
         /\ EndOf(b, o) >= o + HeaderOf(b.at[o].level) /\ EndOf(b, o) >= o + 4
         /\ Behind(b, o) >= EndOf(b, o)
<1>1. LaidOut(b) /\ b.start \in {1, 2} /\ Levels \in Nat
  BY NlaWalkAssumption
<1>2. o \in Nat /\ HeaderIsWritten(b, o)
  BY <1>1 DEF LaidOut
<1>3. PICK l : l = b.at[o].level /\ l \in b.start..Levels
  BY <1>2 DEF HeaderIsWritten
<1>4. PICK n : n = b.at[o].len /\ n \in LengthsOf(l) /\ n >= HeaderOf(l) /\ n + 3 < LenMod
  BY <1>2, <1>3 DEF HeaderIsWritten
<1>5. l \in Nat /\ n \in Nat /\ n >= 4 /\ HeaderOf(l) \in {4, 16} /\ PayloadAt(l) \in {4, 20}
  BY <1>1, <1>3, <1>4, NlaWalkAssumption DEF LengthsOf, HeaderOf, PayloadAt
<1>6. Align(n) = ((n + 3) \div 4) * 4
  <2>1. (n + 3) % LenMod = n + 3
    BY <1>4, <1>5, NlaWalkAssumption
  <2> QED
    BY <2>1 DEF Align
<1>7. Align(n) \in n..(n + 3)
  <2>1. \A k \in Nat : ((k + 3) \div 4) * 4 \in k..(k + 3)
    OBVIOUS
  <2> QED
    BY <1>5, <1>6, <2>1
<1>8. /\ EndOf(b, o) = o + n /\ PayloadOf(b, o) = o + PayloadAt(l)
      /\ Behind(b, o) = o + Align(n)
  BY <1>3, <1>4, <1>6 DEF EndOf, PayloadOf, Behind
<1>9. /\ o + n \in Nat /\ o + PayloadAt(l) \in Nat /\ o + Align(n) \in Nat
      /\ o + PayloadAt(l) >= o + 4 /\ o + n >= o + HeaderOf(l) /\ o + n >= o + 4
      /\ o + Align(n) >= o + n
  BY <1>2, <1>4, <1>5, <1>7
<1>10. /\ b.at[o].nested \in BOOLEAN
       /\ l = 1 => b.at[o].nested
       /\ l = Levels => ~b.at[o].nested
  BY <1>2, <1>3 DEF HeaderIsWritten
<1> QED
  BY <1>2, <1>3, <1>4, <1>5, <1>8, <1>9, <1>10

\* Elements lie behind or within one another.
LEMMA BehindOrWithin ==
  ASSUME NEW b \in RawBuffers, Written(b), NEW o \in DOMAIN b.at, NEW p \in DOMAIN b.at, o < p
  PROVE  Behind(b, o) <= p \/ Within(b, p, o)
  BY NlaWalkAssumption DEF LaidOut

\* Where the next element is.
LEMMA WhatFollows ==
  ASSUME NEW b \in RawBuffers, Written(b), NEW o \in DOMAIN b.at
  PROVE  /\ b.at[o].level = b.start =>
              Behind(b, o) \in Elements(b, b.start) \/ Behind(b, o) >= b.len
         /\ b.at[o].nested =>
              \/ PayloadOf(b, o) \in Elements(b, b.at[o].level + 1)
              \/ PayloadOf(b, o) >= EndOf(b, o)
         /\ \A p \in DOMAIN b.at :
              Within(b, p, o) /\ p \in Elements(b, b.at[o].level + 1) =>
                \/ Behind(b, p) \in Elements(b, b.at[o].level + 1)
                \/ Behind(b, p) >= EndOf(b, o)
  BY NlaWalkAssumption DEF LaidOut

\* No value is written between the front of an element and its payload,
LEMMA NoValueInHeader ==
  ASSUME NEW b \in RawBuffers, Written(b), NEW o \in DOMAIN b.at, b.at[o].nested,
         PayloadOf(b, o) <= EndOf(b, o), NEW x \in ValuesOf(b)
  PROVE  x < o <=> x < PayloadOf(b, o)
<1>1. x \in DOMAIN b.at /\ ~b.at[x].nested /\ x # o
  BY DEF ValuesOf
<1>2. /\ o \in Nat /\ x \in Nat /\ PayloadOf(b, o) \in Nat /\ EndOf(b, o) \in Nat
      /\ Behind(b, o) \in Nat /\ PayloadOf(b, o) >= o + 4 /\ Behind(b, o) >= EndOf(b, o)
  BY <1>1, ElementIs
<1>3. o < x => Behind(b, o) <= x \/ PayloadOf(b, o) <= x
  BY <1>1, BehindOrWithin DEF Within
<1> QED
  BY <1>1, <1>2, <1>3

\* nor in an element that has no room for its payload,
LEMMA NoValueInShort ==
  ASSUME NEW b \in RawBuffers, Written(b), NEW o \in DOMAIN b.at,
         PayloadOf(b, o) > EndOf(b, o), NEW x \in ValuesOf(b)
  PROVE  x < o <=> x < Behind(b, o)
<1>1. x \in DOMAIN b.at /\ ~b.at[x].nested
  BY DEF ValuesOf
<1>2. /\ o \in Nat /\ x \in Nat /\ PayloadOf(b, o) \in Nat /\ EndOf(b, o) \in Nat
      /\ Behind(b, o) \in Nat /\ EndOf(b, o) >= o + 4 /\ Behind(b, o) >= EndOf(b, o)
      /\ EndOf(b, x) \in Nat /\ EndOf(b, x) >= x + 4
      /\ PayloadOf(b, o) = o + PayloadAt(b.at[o].level)
      /\ EndOf(b, o) >= o + HeaderOf(b.at[o].level)
      /\ b.at[o].level = 1 => b.at[o].nested
  BY <1>1, ElementIs
<1>3. b.at[o].level = 1
  BY <1>2 DEF PayloadAt, HeaderOf
<1>4. x # o
  BY <1>1, <1>2, <1>3
<1>5. o < x => \/ Behind(b, o) <= x
               \/ PayloadOf(b, o) <= x /\ EndOf(b, x) <= EndOf(b, o)
  BY <1>1, BehindOrWithin DEF Within
<1> QED
  BY <1>2, <1>4, <1>5

\* nor in another value,
LEMMA NoValueInValue ==
  ASSUME NEW b \in RawBuffers, Written(b), NEW o \in ValuesOf(b), NEW x \in ValuesOf(b)
  PROVE  x < o \/ x = o \/ Behind(b, o) <= x
<1>1. x \in DOMAIN b.at /\ o \in DOMAIN b.at /\ ~b.at[o].nested
  BY DEF ValuesOf
<1>2. o \in Nat /\ x \in Nat
  BY <1>1, ElementIs
<1>3. o < x => Behind(b, o) <= x
  BY <1>1, BehindOrWithin DEF Within
<1> QED
  BY <1>2, <1>3

\* nor where an element has no room left for one more inside,
LEMMA NoValueInRest ==
  ASSUME NEW b \in RawBuffers, Written(b), NEW o \in DOMAIN b.at, NEW f \in Nat,
         o < f, f <= Behind(b, o), f + 4 > EndOf(b, o), NEW x \in ValuesOf(b)
  PROVE  x < f <=> x < Behind(b, o)
<1>1. x \in DOMAIN b.at
  BY DEF ValuesOf
<1>2. /\ o \in Nat /\ x \in Nat /\ EndOf(b, o) \in Nat /\ Behind(b, o) \in Nat
      /\ EndOf(b, x) \in Nat /\ EndOf(b, x) >= x + 4
  BY <1>1, ElementIs
<1>3. o < x => Behind(b, o) <= x \/ EndOf(b, x) <= EndOf(b, o)
  BY <1>1, BehindOrWithin DEF Within
<1> QED
  BY <1>2, <1>3

\* nor from where the first message is that is not whole.
LEMMA NoValueBehindTheCut ==
  ASSUME NEW b \in RawBuffers, Written(b), NEW f \in Nat,
         \/ f \in Elements(b, b.start) /\ EndOf(b, f) > b.len
         \/ f >= b.len,
         NEW x \in ValuesOf(b)
  PROVE  x < f <=> x < b.len
<1>1. PICK t \in Elements(b, b.start) : EndOf(b, t) <= b.len /\ (x = t \/ Within(b, x, t))
  BY DEF ValuesOf
<1>2. x \in DOMAIN b.at /\ t \in DOMAIN b.at /\ b.at[t].level = b.start
  BY <1>1 DEF ValuesOf, Elements
<1>3. /\ x \in Nat /\ t \in Nat /\ EndOf(b, x) \in Nat /\ EndOf(b, t) \in Nat /\ Behind(b, t) \in Nat
      /\ EndOf(b, x) >= x + 4 /\ EndOf(b, t) >= t + 4 /\ Behind(b, t) >= EndOf(b, t)
      /\ b.start \in Int /\ b.len \in Int
  BY <1>2, ElementIs, NlaWalkAssumption
<1>4. x < EndOf(b, t)
  BY <1>1, <1>3 DEF Within
<1>5. x < b.len
  BY <1>1, <1>3, <1>4
<1>6. CASE f >= b.len
  BY <1>3, <1>5, <1>6
<1>7. CASE f \in Elements(b, b.start) /\ EndOf(b, f) > b.len
  <2>1. f \in DOMAIN b.at /\ b.at[f].level = b.start
    BY <1>7 DEF Elements
  <2>2. EndOf(b, f) \in Nat /\ Behind(b, f) \in Nat /\ Behind(b, f) >= EndOf(b, f)
    BY <2>1, ElementIs
  <2>3. t < f => Behind(b, t) <= f
    BY <1>2, <1>3, <2>1, BehindOrWithin DEF Within
  <2>4. f < t => Behind(b, f) <= t
    BY <1>2, <1>3, <2>1, BehindOrWithin DEF Within
  <2>5. t # f
    BY <1>1, <1>3, <1>7
  <2> QED
    BY <1>1, <1>3, <1>4, <1>5, <1>7, <2>2, <2>3, <2>4, <2>5
<1> QED
  BY <1>6, <1>7

----------------------------------------------------------------------------
(* What the walk finds of it. *)

\* On every level the walk is at an element or past the last one; every loop
\* but the innermost is at the element that the loop below is in.
OnElement(l) ==
  /\ off[l] \in Elements(buffer, l) \/ off[l] >= end[l]
  /\ l < level => /\ off[l] \in Elements(buffer, l) /\ buffer.at[off[l]].nested
                  /\ alen[l] = buffer.at[off[l]].len
  /\ l > buffer.start => /\ off[l] <= Behind(buffer, off[l - 1])
                         /\ off[buffer.start] < off[l]
                         /\ end[l] <= end[buffer.start + 1]

\* The values in s are those written before f, in their order.
Collected(b, s, f) ==
  /\ {s[i] : i \in DOMAIN s} = {Value(b, o) : o \in {x \in ValuesOf(b) : x < f}}
  /\ \A i, j \in DOMAIN s : i < j => s[i].from < s[j].from

FindInv ==
  Written(buffer) =>
    /\ Running => end[buffer.start] = buffer.len
    /\ \A l \in buffer.start..level : OnElement(l)
    /\ Collected(buffer, found, IF Running THEN off[level] ELSE buffer.len)

\* How far the values are looked at matters only where there are some.
LEMMA SameFrontier ==
  ASSUME NEW b, NEW s, NEW f, NEW g, Collected(b, s, f),
         \A x \in ValuesOf(b) : x < f <=> x < g
  PROVE  Collected(b, s, g)
<1>1. {x \in ValuesOf(b) : x < f} = {x \in ValuesOf(b) : x < g}
  OBVIOUS
<1> QED
  BY <1>1 DEF Collected

\* One more value, behind those before it.
LEMMA OneValueMore ==
  ASSUME NEW b \in RawBuffers, Written(b), NEW o \in ValuesOf(b),
         NEW s \in Seq([from : 0..MaxLen, to : 0..MaxLen]), NEW v, v = Value(b, o),
         v \in [from : 0..MaxLen, to : 0..MaxLen], Collected(b, s, o)
  PROVE  Collected(b, Append(s, v), Behind(b, o))
<1> DEFINE t == Append(s, v)
           n == Len(s)
<1>1. /\ DOMAIN t = 1..(n + 1) /\ DOMAIN s = 1..n /\ n \in Nat
      /\ \A i \in 1..n : t[i] = s[i]
      /\ t[n + 1] = v
  OBVIOUS
<1> HIDE DEF t, n
<1>c. /\ {s[i] : i \in DOMAIN s} = {Value(b, x) : x \in {x \in ValuesOf(b) : x < o}}
      /\ \A i, j \in DOMAIN s : i < j => s[i].from < s[j].from
  BY DEF Collected
<1>o. o \in DOMAIN b.at /\ o \in Nat /\ Behind(b, o) \in Nat /\ Behind(b, o) >= o + 4
  <2>1. o \in DOMAIN b.at
    BY DEF ValuesOf
  <2>2. /\ o \in Nat /\ Behind(b, o) \in Nat /\ EndOf(b, o) \in Nat
        /\ Behind(b, o) >= EndOf(b, o) /\ EndOf(b, o) >= o + 4
    BY <2>1, ElementIs
  <2> QED
    BY <2>1, <2>2
<1>2. {t[i] : i \in DOMAIN t} = {s[i] : i \in DOMAIN s} \cup {v}
  <2>1. 1..(n + 1) = (1..n) \cup {n + 1}
    BY <1>1
  <2> QED
    BY <1>1, <2>1
<1>3. {x \in ValuesOf(b) : x < Behind(b, o)} = {x \in ValuesOf(b) : x < o} \cup {o}
  <2>1. \A x \in ValuesOf(b) : x \in Nat /\ (x < o \/ x = o \/ Behind(b, o) <= x)
    <3> TAKE x \in ValuesOf(b)
    <3>1. x \in DOMAIN b.at
      BY DEF ValuesOf
    <3>2. x \in Nat
      BY <3>1, ElementIs
    <3> QED
      BY <3>2, NoValueInValue
  <2>2. \A x \in ValuesOf(b) : x < Behind(b, o) <=> x < o \/ x = o
    BY <1>o, <2>1
  <2> QED
    BY <2>2
<1>4. {Value(b, x) : x \in {x \in ValuesOf(b) : x < Behind(b, o)}}
        = {Value(b, x) : x \in {x \in ValuesOf(b) : x < o}} \cup {v}
  BY <1>3
<1>5. \A i \in 1..n : s[i].from < v.from
  <2> TAKE i \in 1..n
  <2>1. s[i] \in {Value(b, x) : x \in {x \in ValuesOf(b) : x < o}}
    BY <1>1, <1>c
  <2>2. PICK x \in ValuesOf(b) : x < o /\ s[i] = Value(b, x)
    BY <2>1
  <2>3. x \in DOMAIN b.at /\ ~b.at[x].nested
    BY DEF ValuesOf
  <2>4. /\ x \in Nat /\ Behind(b, x) \in Nat /\ EndOf(b, x) \in Nat
        /\ Behind(b, x) >= EndOf(b, x)
        /\ PayloadOf(b, x) = x + PayloadAt(b.at[x].level)
        /\ EndOf(b, x) >= x + HeaderOf(b.at[x].level)
        /\ b.at[x].level = 1 => b.at[x].nested
    BY <2>3, ElementIs
  <2>5. PayloadOf(b, x) = x + 4
    BY <2>3, <2>4 DEF PayloadAt
  <2>6. Behind(b, x) <= o
    BY <1>o, <2>2, <2>3, <2>4, BehindOrWithin DEF Within
  <2>7. PayloadOf(b, o) \in Nat /\ PayloadOf(b, o) >= o + 4
    BY <1>o, ElementIs
  <2>8. s[i].from = PayloadOf(b, x) /\ v.from = PayloadOf(b, o)
    BY <2>2 DEF Value
  <2> QED
    BY <1>o, <2>2, <2>4, <2>5, <2>6, <2>7, <2>8
<1>6. \A i, j \in DOMAIN t : i < j => t[i].from < t[j].from
  <2> SUFFICES ASSUME NEW i \in 1..(n + 1), NEW j \in 1..(n + 1), i < j
               PROVE  t[i].from < t[j].from
    BY <1>1
  <2>1. i \in 1..n
    BY <1>1
  <2>2. CASE j = n + 1
    BY <1>1, <1>5, <2>1, <2>2
  <2>3. CASE j # n + 1
    <3>1. j \in 1..n
      BY <1>1, <2>3
    <3>2. s[i].from < s[j].from
      BY <1>1, <1>c, <2>1, <3>1
    <3> QED
      BY <1>1, <2>1, <3>1, <3>2
  <2> QED
    BY <2>2, <2>3
<1> QED
  BY <1>2, <1>4, <1>6, <1>c DEF Collected, t

\* What a level sees does not change as long as it and those around it do not.
LEMMA OnElementKept ==
  ASSUME NEW l \in Int, l >= buffer.start, buffer.start \in Int, OnElement(l),
         l < level' => l < level, buffer' = buffer,
         \A i \in buffer.start..l :
           off'[i] = off[i] /\ end'[i] = end[i] /\ alen'[i] = alen[i]
  PROVE  OnElement(l)'
<1>1. off'[l] = off[l] /\ end'[l] = end[l] /\ alen'[l] = alen[l]
  OBVIOUS
<1>2. l > buffer.start => /\ off'[l - 1] = off[l - 1]
                          /\ off'[buffer.start] = off[buffer.start]
                          /\ end'[buffer.start + 1] = end[buffer.start + 1]
  <2> SUFFICES ASSUME l > buffer.start
               PROVE  /\ off'[l - 1] = off[l - 1]
                      /\ off'[buffer.start] = off[buffer.start]
                      /\ end'[buffer.start + 1] = end[buffer.start + 1]
    OBVIOUS
  <2>1. /\ l - 1 \in buffer.start..l /\ buffer.start \in buffer.start..l
        /\ buffer.start + 1 \in buffer.start..l
    OBVIOUS
  <2> QED
    BY <2>1
<1>3. /\ off'[l] \in Elements(buffer', l) \/ off'[l] >= end'[l]
      /\ l < level' => /\ off'[l] \in Elements(buffer', l) /\ buffer'.at[off'[l]].nested
                       /\ alen'[l] = buffer'.at[off'[l]].len
  BY <1>1 DEF OnElement
<1>4. l > buffer'.start => /\ off'[l] <= Behind(buffer', off'[l - 1])
                           /\ off'[buffer'.start] < off'[l]
                           /\ end'[l] <= end'[buffer'.start + 1]
  BY <1>1, <1>2 DEF OnElement
<1> QED
  BY <1>3, <1>4 DEF OnElement

\* The element that a loop is in.
LEMMA InsideElement ==
  ASSUME WalkInv, FindInv, Written(buffer), NEW l \in buffer.start..level, l > buffer.start,
         NEW p, p = off[l - 1]
  PROVE  /\ l \in Level /\ l - 1 \in buffer.start..level /\ l - 1 \in Level
         /\ p \in Elements(buffer, l - 1) /\ p \in DOMAIN buffer.at
         /\ buffer.at[p].level = l - 1 /\ buffer.at[p].nested
         /\ p \in Nat /\ p < off[l] /\ PayloadOf(buffer, p) <= off[l]
         /\ off[l] <= Behind(buffer, p)
         /\ alen[l - 1] = buffer.at[p].len
         /\ end[l] = EndOf(buffer, p) /\ end[l] <= end[l - 1] /\ end[l] <= buffer.len
<1>1. /\ buffer.start \in 1..2 /\ level \in 0..Levels /\ Levels \in Nat /\ buffer \in RawBuffers
      /\ off \in [Level -> 0..(MaxLen + 3)] /\ MaxLen \in Nat
  BY NlaWalkAssumption DEF WalkInv, WalkTypeOK
<1>2. /\ l \in Level /\ l - 1 \in buffer.start..level /\ l - 1 \in Level /\ l - 1 < level
      /\ buffer.start <= l /\ l <= level
  BY <1>1 DEF Level
<1>3. Nests(l) /\ end[l] <= buffer.len
  BY <1>2 DEF WalkInv
<1>4. OnElement(l) /\ OnElement(l - 1)
  BY <1>2 DEF FindInv
<1>5. /\ p \in Elements(buffer, l - 1) /\ buffer.at[p].nested
      /\ alen[l - 1] = buffer.at[p].len
  BY <1>2, <1>4 DEF OnElement
<1>6. p \in DOMAIN buffer.at /\ buffer.at[p].level = l - 1
  BY <1>5 DEF Elements
<1>7. /\ p \in Nat /\ EndOf(buffer, p) = p + buffer.at[p].len
      /\ PayloadOf(buffer, p) = p + PayloadAt(l - 1)
      /\ PayloadOf(buffer, p) \in Nat /\ PayloadOf(buffer, p) >= p + 4
  BY <1>1, <1>6, ElementIs
<1>8. off[l] <= Behind(buffer, p)
  BY <1>4 DEF OnElement
<1>9. /\ PayloadOf(buffer, p) <= off[l] /\ end[l] = EndOf(buffer, p) /\ end[l] <= end[l - 1]
  BY <1>3, <1>5, <1>7 DEF Nests
<1>10. p < off[l]
  <2>1. off[l] \in Int
    BY <1>1, <1>2
  <2> QED
    BY <1>7, <1>9, <2>1
<1> QED
  BY <1>2, <1>3, <1>5, <1>6, <1>7, <1>8, <1>9, <1>10

\* An element that a loop is at is wholly inside the one around, and what
\* follows it there is the next one or nothing.
LEMMA NextElement ==
  ASSUME WalkInv, FindInv, Written(buffer), Running, NEW l \in buffer.start..level,
         NEW o, o = off[l], o \in Elements(buffer, l), o + 4 <= end[l]
  PROVE  /\ Behind(buffer, o) \in Elements(buffer, l) \/ Behind(buffer, o) >= end[l]
         /\ l > buffer.start => /\ Behind(buffer, o) <= Behind(buffer, off[l - 1])
                                /\ EndOf(buffer, o) <= end[l]
<1>0. buffer \in RawBuffers /\ buffer.start \in 1..2 /\ end[buffer.start] = buffer.len
  BY NlaWalkAssumption DEF WalkInv, FindInv
<1>1. o \in DOMAIN buffer.at /\ buffer.at[o].level = l
  BY DEF Elements
<1>2. o \in Nat
  BY <1>0, <1>1, ElementIs
<1>3. CASE l = buffer.start
  BY <1>0, <1>1, <1>3, WhatFollows
<1>4. CASE l # buffer.start
  <2>0. l > buffer.start /\ l \in Int /\ (l - 1) + 1 = l
    <3>1. level \in Int /\ buffer.start \in Int
      BY <1>0 DEF WalkInv, WalkTypeOK
    <3> QED
      BY <1>4, <3>1
  <2> DEFINE p == off[l - 1]
  <2>1. /\ p \in DOMAIN buffer.at /\ p \in Nat
        /\ buffer.at[p].level = l - 1 /\ buffer.at[p].nested
        /\ p < o /\ o <= Behind(buffer, p) /\ end[l] = EndOf(buffer, p)
    BY <2>0, InsideElement
  <2> HIDE DEF p
  <2>2. /\ EndOf(buffer, p) \in Nat /\ Behind(buffer, p) \in Nat
        /\ Behind(buffer, p) >= EndOf(buffer, p)
    BY <1>0, <2>1, ElementIs
  <2>3. ~(Behind(buffer, p) <= o)
    BY <1>2, <2>1, <2>2
  <2>4. Within(buffer, o, p)
    BY <1>0, <1>1, <2>1, <2>3, BehindOrWithin
  <2>5. o \in Elements(buffer, buffer.at[p].level + 1) /\ buffer.at[p].level + 1 = l
    BY <2>0, <2>1
  <2>6. Behind(buffer, o) \in Elements(buffer, l) \/ Behind(buffer, o) >= end[l]
    <3>1. \/ Behind(buffer, o) \in Elements(buffer, buffer.at[p].level + 1)
          \/ Behind(buffer, o) >= EndOf(buffer, p)
      BY <1>0, <1>1, <2>1, <2>4, <2>5, WhatFollows
    <3> QED
      BY <2>1, <2>5, <3>1
  <2>7. Behind(buffer, o) <= Behind(buffer, p) /\ EndOf(buffer, o) <= end[l]
    BY <2>1, <2>4 DEF Within
  <2> QED
    BY <2>6, <2>7 DEF p
<1> QED
  BY <1>3, <1>4

\* A header is read where one was written, and gives the length written.
LEMMA OnHeader ==
  ASSUME WalkInv, FindInv, Written(buffer), Running, HeaderFits, NEW o, o = off[level]
  PROVE  /\ o \in Elements(buffer, level) /\ o \in DOMAIN buffer.at
         /\ buffer.at[o].level = level
         /\ Length(o) = {buffer.at[o].len}
         /\ TRUE \in Nested(o) => buffer.at[o].nested
         /\ FALSE \in Nested(o) => ~buffer.at[o].nested
         /\ o \in Nat /\ o + HeaderOf(level) <= end[level] /\ o + 4 <= end[level]
         /\ end[level] <= buffer.len
<1>1. /\ buffer.start \in 1..2 /\ level \in Level /\ level >= buffer.start
      /\ o \in Nat /\ end[level] \in Nat /\ HeaderOf(level) \in {4, 16}
      /\ buffer \in RawBuffers /\ Levels \in Nat /\ end[level] <= buffer.len
  <2>1. off[level] \in 0..(MaxLen + 3) /\ end[level] \in 0..MaxLen
    BY WalkTyped
  <2>2. buffer \in RawBuffers /\ Levels \in Nat /\ MaxLen \in Nat
    BY NlaWalkAssumption DEF WalkInv
  <2>3. o \in Nat /\ end[level] \in Nat
    BY <2>1, <2>2
  <2> QED
    BY <2>2, <2>3, WalkTyped
<1>2. level \in buffer.start..level /\ level \in Nat
  BY <1>1 DEF Level
<1>3. o \in Elements(buffer, level) \/ o >= end[level]
  BY <1>2 DEF FindInv, OnElement
<1>4. o + HeaderOf(level) <= end[level]
  BY DEF HeaderFits
<1>5. o + 4 <= end[level]
  BY <1>1, <1>4
<1>6. o \in Elements(buffer, level)
  BY <1>1, <1>3, <1>5
<1>7. o \in DOMAIN buffer.at /\ buffer.at[o].level = level
  BY <1>6 DEF Elements
<1>8. /\ buffer.at[o].nested \in BOOLEAN
      /\ level = 1 => buffer.at[o].nested
      /\ level = Levels => ~buffer.at[o].nested
  BY <1>1, <1>7, ElementIs
<1>9. /\ TRUE \in Nested(o) => buffer.at[o].nested
      /\ FALSE \in Nested(o) => ~buffer.at[o].nested
  BY <1>7, <1>8 DEF Nested
<1>10. Length(o) = {buffer.at[o].len}
  BY <1>7 DEF Length
<1> QED
  BY <1>1, <1>4, <1>5, <1>6, <1>7, <1>9, <1>10

\* The message, or in a bare stream the attribute, that the walk is in.
LEMMA InsideWhole ==
  ASSUME WalkInv, FindInv, Written(buffer), Running, HeaderFits, level > buffer.start,
         NEW o, o = off[level], NEW t, t = off[buffer.start]
  PROVE  /\ t \in Elements(buffer, buffer.start)
         /\ Within(buffer, o, t) /\ EndOf(buffer, t) <= buffer.len
<1>1. /\ buffer.start \in 1..2 /\ buffer \in RawBuffers /\ level \in Nat
      /\ end \in [Level -> 0..MaxLen] /\ MaxLen \in Nat /\ level \in Level
      /\ Levels \in Nat
  BY WalkTyped, NlaWalkAssumption DEF WalkInv, WalkTypeOK
<1>2. /\ buffer.start + 1 \in buffer.start..level /\ buffer.start + 1 > buffer.start
      /\ level \in buffer.start..level /\ (buffer.start + 1) - 1 = buffer.start
  BY <1>1
<1>3. /\ t \in Elements(buffer, buffer.start) /\ t \in DOMAIN buffer.at /\ t \in Nat
      /\ end[buffer.start + 1] = EndOf(buffer, t) /\ end[buffer.start + 1] <= buffer.len
  <2> DEFINE l == buffer.start + 1
  <2>1. l \in buffer.start..level /\ l > buffer.start /\ l - 1 = buffer.start
    BY <1>2
  <2> HIDE DEF l
  <2>2. /\ t \in Elements(buffer, l - 1) /\ t \in DOMAIN buffer.at /\ t \in Nat
        /\ end[l] = EndOf(buffer, t) /\ end[l] <= buffer.len
    BY <2>1, InsideElement
  <2> QED
    BY <2>1, <2>2 DEF l
<1>4. /\ o \in DOMAIN buffer.at /\ o \in Nat /\ o + 4 <= end[level]
  BY OnHeader
<1>5. t < o /\ end[level] <= end[buffer.start + 1]
  BY <1>2 DEF FindInv, OnElement
<1>6. /\ Behind(buffer, t) \in Nat /\ EndOf(buffer, t) \in Nat
      /\ Behind(buffer, t) >= EndOf(buffer, t)
  BY <1>1, <1>3, ElementIs
<1>7. end[level] \in Nat
  BY <1>1
<1>8. ~(Behind(buffer, t) <= o)
  BY <1>3, <1>4, <1>5, <1>6, <1>7
<1>9. Within(buffer, o, t)
  BY <1>1, <1>3, <1>4, <1>5, <1>8, BehindOrWithin
<1> QED
  BY <1>3, <1>9

\* The loop goes on behind an element; what it found reaches up to there.
LEMMA AdvanceFinds ==
  ASSUME WalkInv, FindInv, Written(buffer), Running, HeaderFits, NEW o, o = off[level],
         off' = [off EXCEPT ![level] = @ + Align(buffer.at[o].len)],
         UNCHANGED <<buffer, level, end, alen>>,
         Collected(buffer, found', Behind(buffer, o))
  PROVE  FindInv'
<1>1. /\ buffer.start \in 1..2 /\ buffer \in RawBuffers /\ level \in Int /\ level \in Level
      /\ level >= buffer.start /\ level \in buffer.start..level
      /\ off \in [Level -> 0..(MaxLen + 3)] /\ Levels \in Nat
  <2>1. /\ buffer.start \in 1..2 /\ level \in Level /\ level >= buffer.start
    BY WalkTyped
  <2>2. /\ buffer \in RawBuffers /\ off \in [Level -> 0..(MaxLen + 3)] /\ Levels \in Nat
    BY NlaWalkAssumption DEF WalkInv, WalkTypeOK
  <2> QED
    BY <2>1, <2>2 DEF Level
<1>u. /\ buffer' = buffer /\ level' = level /\ end' = end /\ alen' = alen
      /\ off' = [off EXCEPT ![level] = @ + Align(buffer.at[o].len)]
  OBVIOUS
<1>2. /\ o \in Elements(buffer, level) /\ o \in DOMAIN buffer.at
      /\ o \in Nat /\ o + 4 <= end[level]
  BY OnHeader
<1>3. /\ Behind(buffer, o) = o + Align(buffer.at[o].len) /\ Behind(buffer, o) \in Nat
      /\ EndOf(buffer, o) \in Nat
      /\ Behind(buffer, o) >= EndOf(buffer, o) /\ EndOf(buffer, o) >= o + 4
  BY <1>1, <1>2, ElementIs
<1>4. /\ off'[level] = Behind(buffer, o)
      /\ \A l \in Level : l # level => off'[l] = off[l]
  BY <1>1, <1>3, <1>u
<1>5. /\ Behind(buffer, o) \in Elements(buffer, level) \/ Behind(buffer, o) >= end[level]
      /\ level > buffer.start => Behind(buffer, o) <= Behind(buffer, off[level - 1])
  BY <1>1, <1>2, NextElement
<1>6. OnElement(level)'
  <2>1. OnElement(level)
    BY <1>1 DEF FindInv
  <2>2. ASSUME level > buffer.start
        PROVE  /\ off'[level] <= Behind(buffer, off'[level - 1])
               /\ off'[buffer.start] < off'[level]
               /\ end[level] <= end[buffer.start + 1]
    <3>1. /\ level - 1 \in Level /\ level - 1 # level
          /\ buffer.start \in Level /\ buffer.start # level
      BY <1>1, <2>2 DEF Level
    <3>2. off'[level - 1] = off[level - 1] /\ off'[buffer.start] = off[buffer.start]
      BY <1>4, <3>1
    <3>3. off[buffer.start] < o /\ end[level] <= end[buffer.start + 1]
      BY <2>1, <2>2 DEF OnElement
    <3>4. off[buffer.start] \in Int
      BY <1>1, <3>1
    <3> QED
      BY <1>2, <1>3, <1>4, <1>5, <2>2, <3>2, <3>3, <3>4
  <2> QED
    BY <1>1, <1>4, <1>5, <1>u, <2>2 DEF OnElement
<1>7. ASSUME NEW l \in buffer.start..level
      PROVE  OnElement(l)'
  <2>1. CASE l = level
    BY <1>6, <1>u, <2>1
  <2>2. CASE l # level
    <3>1. l \in Int /\ l >= buffer.start /\ l < level
      BY <1>1, <2>2
    <3>2. \A i \in buffer.start..l : i \in Level /\ i # level
      BY <1>1, <3>1 DEF Level
    <3>3. \A i \in buffer.start..l :
            off'[i] = off[i] /\ end'[i] = end[i] /\ alen'[i] = alen[i]
      BY <1>4, <1>u, <3>2
    <3>4. OnElement(l)
      BY <1>7 DEF FindInv
    <3> QED
      BY <1>1, <1>u, <3>1, <3>3, <3>4, OnElementKept
  <2> QED
    BY <2>1, <2>2
<1>8. Running' /\ end'[buffer'.start] = buffer'.len
  BY <1>u DEF Running, FindInv
<1>9. Collected(buffer', found', off'[level'])
  BY <1>4, <1>u
<1> QED
  BY <1>7, <1>8, <1>9, <1>u DEF FindInv

LEMMA SkipFinds == ASSUME WalkInv, FindInv, Written(buffer), SkipShort PROVE FindInv'
<1> DEFINE o == off[level]
<1>1. /\ Running /\ HeaderFits /\ found' = found
      /\ UNCHANGED <<buffer, level, end, alen>>
  BY DEF SkipShort
<1>2. PICK n \in Length(o) :
        n < PayloadAt(level) /\ off' = [off EXCEPT ![level] = @ + Align(n)]
  BY DEF SkipShort
<1>3. /\ o \in DOMAIN buffer.at /\ buffer.at[o].level = level
      /\ Length(o) = {buffer.at[o].len}
  BY <1>1, OnHeader
<1>4. n = buffer.at[o].len /\ buffer \in RawBuffers
  BY <1>2, <1>3 DEF WalkInv
<1> HIDE DEF o
<1>5. PayloadOf(buffer, o) > EndOf(buffer, o)
  <2>1. /\ o \in Nat /\ buffer.at[o].len \in Nat
        /\ EndOf(buffer, o) = o + buffer.at[o].len
        /\ PayloadOf(buffer, o) = o + PayloadAt(buffer.at[o].level)
    BY <1>3, <1>4, ElementIs
  <2> QED
    BY <1>2, <1>3, <1>4, <2>1 DEF PayloadAt
<1>6. Collected(buffer, found, o)
  BY <1>1 DEF FindInv, o
<1>7. \A x \in ValuesOf(buffer) : x < o <=> x < Behind(buffer, o)
  BY <1>3, <1>4, <1>5, NoValueInShort
<1>8. Collected(buffer, found', Behind(buffer, o))
  <2>1. Collected(buffer, found, Behind(buffer, o))
    BY <1>6, <1>7, SameFrontier
  <2> QED
    BY <1>1, <2>1
<1> QED
  BY <1>1, <1>2, <1>4, <1>8, AdvanceFinds DEF o

LEMMA VisitFinds == ASSUME WalkInv, FindInv, Written(buffer), Visit PROVE FindInv'
<1> DEFINE o == off[level]
<1>1. Running /\ HeaderFits /\ UNCHANGED <<buffer, level, end, alen>>
  BY DEF Visit
<1>2. PICK n \in Length(o) :
        /\ Fits(n) /\ n >= PayloadAt(level) /\ FALSE \in Nested(o)
        /\ found' = Append(found, [from |-> o + PayloadAt(level), to |-> o + n])
        /\ off' = [off EXCEPT ![level] = @ + Align(n)]
  BY DEF Visit
<1>3. /\ o \in DOMAIN buffer.at /\ buffer.at[o].level = level
      /\ o \in Elements(buffer, level) /\ ~buffer.at[o].nested
      /\ Length(o) = {buffer.at[o].len} /\ end[level] <= buffer.len
  BY <1>1, <1>2, OnHeader
<1>4. /\ n = buffer.at[o].len /\ buffer \in RawBuffers
      /\ found \in Seq([from : 0..MaxLen, to : 0..MaxLen])
  BY <1>2, <1>3 DEF WalkInv, WalkTypeOK
<1>5. o + n <= end[level]
  BY <1>2 DEF Fits
<1>t. /\ level \in Nat /\ buffer.start \in Nat /\ level >= buffer.start
      /\ end[level] \in 0..MaxLen /\ MaxLen \in Nat /\ buffer.len \in 0..MaxLen
      /\ PayloadAt(level) \in {4, 20}
  BY <1>1, WalkTyped, NlaWalkAssumption DEF Level
<1>w. level > buffer.start =>
        /\ off[buffer.start] \in Elements(buffer, buffer.start)
        /\ Within(buffer, o, off[buffer.start])
        /\ EndOf(buffer, off[buffer.start]) <= buffer.len
  BY <1>1, InsideWhole
<1>6. Collected(buffer, found, o)
  BY <1>1 DEF FindInv, o
<1> HIDE DEF o
<1>7. /\ o \in Nat /\ n \in Nat
      /\ EndOf(buffer, o) = o + n /\ PayloadOf(buffer, o) = o + PayloadAt(level)
  BY <1>3, <1>4, ElementIs
<1>8. o \in ValuesOf(buffer)
  <2>1. CASE level = buffer.start
    <3>1. EndOf(buffer, o) <= buffer.len
      BY <1>3, <1>5, <1>7, <1>t
    <3> QED
      BY <1>3, <2>1, <3>1 DEF ValuesOf
  <2>2. CASE level > buffer.start
    BY <1>3, <1>w, <2>2 DEF ValuesOf
  <2> QED
    BY <1>t, <2>1, <2>2
<1>9. Collected(buffer, found', Behind(buffer, o))
  <2> DEFINE v == [from |-> o + PayloadAt(level), to |-> o + n]
  <2>1. v = Value(buffer, o)
    BY <1>7 DEF Value
  <2>2. o + PayloadAt(level) \in 0..MaxLen /\ o + n \in 0..MaxLen
    BY <1>2, <1>5, <1>7, <1>t
  <2>3. v \in [from : 0..MaxLen, to : 0..MaxLen]
    BY <2>2
  <2>4. found' = Append(found, v)
    BY <1>2
  <2> HIDE DEF v
  <2>5. Collected(buffer, Append(found, v), Behind(buffer, o))
    BY <1>4, <1>6, <1>8, <2>1, <2>3, OneValueMore
  <2> QED
    BY <2>4, <2>5
<1> QED
  BY <1>1, <1>2, <1>4, <1>9, AdvanceFinds DEF o

LEMMA DescendFinds == ASSUME WalkInv, FindInv, Written(buffer), Descend PROVE FindInv'
<1> DEFINE o == off[level]
<1>m. PICK m : m = level
  OBVIOUS
<1>p. PICK k : k = level + 1
  OBVIOUS
<1>1. Running /\ HeaderFits /\ UNCHANGED <<buffer, found>> /\ level' = k
  BY <1>p DEF Descend
<1>2. PICK n \in Length(o) :
        /\ Fits(n) /\ n >= PayloadAt(level) /\ TRUE \in Nested(o)
        /\ off' = [off EXCEPT ![k] = o + PayloadAt(level)]
        /\ end' = [end EXCEPT ![k] = o + n]
        /\ alen' = [alen EXCEPT ![level] = n]
  BY <1>p DEF Descend
<1>3. /\ o \in DOMAIN buffer.at /\ buffer.at[o].level = level
      /\ o \in Elements(buffer, level) /\ buffer.at[o].nested
      /\ Length(o) = {buffer.at[o].len} /\ o + 4 <= end[level]
  BY <1>1, <1>2, OnHeader
<1>4. n = buffer.at[o].len /\ buffer \in RawBuffers
  BY <1>2, <1>3 DEF WalkInv
<1>t. /\ level \in Int /\ buffer.start \in 1..2 /\ level >= buffer.start
      /\ level \in buffer.start..level /\ level \in Level /\ Levels \in Nat /\ level \in 1..Levels
  <2>1. level \in Level /\ buffer.start \in 1..2 /\ level >= buffer.start
    BY <1>1, WalkTyped
  <2>2. Levels \in Nat
    BY NlaWalkAssumption
  <2> QED
    BY <2>1, <2>2 DEF Level
<1>f. /\ off \in [Level -> 0..(MaxLen + 3)] /\ end \in [Level -> 0..MaxLen]
      /\ alen \in [Level -> 0..MaxLen] /\ MaxLen \in Nat
  BY NlaWalkAssumption DEF WalkInv, WalkTypeOK
<1>5. /\ o \in Nat /\ n \in Nat
      /\ EndOf(buffer, o) = o + n /\ PayloadOf(buffer, o) = o + PayloadAt(level)
      /\ PayloadOf(buffer, o) \in Nat /\ EndOf(buffer, o) \in Nat /\ Behind(buffer, o) \in Nat
      /\ PayloadOf(buffer, o) >= o + 4 /\ Behind(buffer, o) >= EndOf(buffer, o)
  BY <1>3, <1>4, ElementIs
<1>6. k \in Level /\ k # level /\ k \in Int /\ k - 1 = level
  <2>1. buffer.at[o].level = Levels => ~buffer.at[o].nested
    BY <1>3, <1>4, ElementIs
  <2>2. level # Levels
    BY <1>3, <2>1
  <2> QED
    BY <1>p, <1>t, <2>2 DEF Level
<1>7. PayloadOf(buffer, o) <= EndOf(buffer, o)
  <2>1. n >= PayloadAt(level) /\ PayloadAt(level) \in Nat
    BY <1>2 DEF PayloadAt
  <2> QED
    BY <1>5, <2>1
<1>8. /\ off'[k] = PayloadOf(buffer, o) /\ end'[k] = EndOf(buffer, o)
      /\ alen'[level] = buffer.at[o].len
      /\ \A l \in Level : l # k => off'[l] = off[l] /\ end'[l] = end[l]
      /\ \A l \in Level : l # level => alen'[l] = alen[l]
  BY <1>2, <1>4, <1>5, <1>6, <1>t, <1>f
<1>k. level < k
  BY <1>t, <1>6
<1>w. level' = k /\ buffer' = buffer /\ found' = found
  BY <1>1
<1>9. OnElement(level) /\ end[buffer.start] = buffer.len
  BY <1>1, <1>t DEF FindInv
<1>c. Collected(buffer, found, o)
  BY <1>1 DEF FindInv
<1>10. \A i \in buffer.start..level : i \in Level /\ i # k
  BY <1>t, <1>6, <1>k DEF Level
<1>o. off[level] = o /\ off'[level] = o
  BY <1>8, <1>10, <1>t
<1> HIDE DEF o
<1>11. OnElement(k)'
  <2>1. off'[k] \in Elements(buffer, k) \/ off'[k] >= end'[k]
    <3>1. \/ PayloadOf(buffer, o) \in Elements(buffer, buffer.at[o].level + 1)
          \/ PayloadOf(buffer, o) >= EndOf(buffer, o)
      BY <1>3, <1>4, WhatFollows
    <3>2. buffer.at[o].level + 1 = k
      BY <1>3, <1>p
    <3> QED
      BY <1>8, <3>1, <3>2
  <2>2. off'[k] <= Behind(buffer, off'[k - 1])
    BY <1>5, <1>6, <1>7, <1>8, <1>o
  <2>3. off'[buffer.start] < off'[k]
    <3>1. off'[buffer.start] = off[buffer.start] /\ off[buffer.start] \in Int
      <4>1. buffer.start \in buffer.start..level
        BY <1>t
      <4> QED
        BY <1>8, <1>10, <1>f, <4>1
    <3>2. CASE level = buffer.start
      BY <1>5, <1>8, <1>o, <3>1, <3>2
    <3>3. CASE level > buffer.start
      <4>1. off[buffer.start] < o
        BY <1>9, <1>o, <3>3 DEF OnElement
      <4> QED
        BY <1>5, <1>8, <3>1, <4>1
    <3> QED
      BY <1>t, <3>2, <3>3
  <2>4. end'[k] <= end'[buffer.start + 1]
    <3>1. CASE level = buffer.start
      <4>1. buffer.start + 1 = k
        BY <1>p, <3>1
      <4> QED
        BY <1>5, <1>8, <4>1
    <3>2. CASE level > buffer.start
      <4>1. buffer.start + 1 \in buffer.start..level
        BY <1>t, <3>2
      <4>2. end'[buffer.start + 1] = end[buffer.start + 1] /\ end[buffer.start + 1] \in Int
        BY <1>8, <1>10, <1>f, <4>1
      <4>3. end[level] <= end[buffer.start + 1] /\ end[level] \in Int
        BY <1>9, <1>f, <1>t, <3>2 DEF OnElement
      <4>4. EndOf(buffer, o) <= end[level]
        BY <1>1, <1>3, <1>o, <1>t, <3>2, NextElement
      <4> QED
        BY <1>5, <1>8, <4>2, <4>3, <4>4
    <3> QED
      BY <1>t, <3>1, <3>2
  <2>5. ~(k < k)
    BY <1>6
  <2> QED
    BY <1>w, <2>1, <2>2, <2>3, <2>4, <2>5 DEF OnElement
<1>12. OnElement(m)'
  <2>1. /\ off'[level] \in Elements(buffer, level) /\ buffer.at[off'[level]].nested
        /\ alen'[level] = buffer.at[off'[level]].len
    BY <1>3, <1>8, <1>o
  <2>2. ASSUME level > buffer.start
        PROVE  /\ off'[level] <= Behind(buffer, off'[level - 1])
               /\ off'[buffer.start] < off'[level]
               /\ end'[level] <= end'[buffer.start + 1]
    <3>1. /\ level - 1 \in buffer.start..level /\ buffer.start \in buffer.start..level
          /\ buffer.start + 1 \in buffer.start..level
      BY <1>t, <2>2
    <3>2. /\ off'[level - 1] = off[level - 1] /\ off'[buffer.start] = off[buffer.start]
          /\ end'[buffer.start + 1] = end[buffer.start + 1] /\ end'[level] = end[level]
      BY <1>8, <1>10, <1>t, <3>1
    <3> QED
      BY <1>9, <1>o, <2>2, <3>2 DEF OnElement
  <2>3. /\ off'[m] \in Elements(buffer', m) \/ off'[m] >= end'[m]
        /\ m < level' => /\ off'[m] \in Elements(buffer', m) /\ buffer'.at[off'[m]].nested
                         /\ alen'[m] = buffer'.at[off'[m]].len
        /\ m > buffer'.start => /\ off'[m] <= Behind(buffer', off'[m - 1])
                                /\ off'[buffer'.start] < off'[m]
                                /\ end'[m] <= end'[buffer'.start + 1]
    BY <1>m, <1>w, <2>1, <2>2
  <2> QED
    BY <2>3 DEF OnElement
<1>13. ASSUME NEW l \in buffer.start..k
       PROVE  OnElement(l)'
  <2>1. CASE l = k
    BY <1>11, <2>1
  <2>2. CASE l = level
    BY <1>12, <1>m, <2>2
  <2>3. CASE l # k /\ l # level
    <3>1. l \in Int /\ l >= buffer.start /\ l < level
      BY <1>p, <1>t, <1>6, <2>3
    <3>2. \A i \in buffer.start..l : i \in buffer.start..level /\ i # level
      BY <1>t, <3>1
    <3>3. \A i \in buffer.start..l :
            off'[i] = off[i] /\ end'[i] = end[i] /\ alen'[i] = alen[i]
      BY <1>8, <1>10, <3>2
    <3>4. OnElement(l)
      <4>1. l \in buffer.start..level
        BY <1>t, <3>1
      <4> QED
        BY <4>1 DEF FindInv
    <3>5. buffer.start \in Int
      BY <1>t
    <3> QED
      BY <1>w, <3>1, <3>3, <3>4, <3>5, OnElementKept
  <2> QED
    BY <2>1, <2>2, <2>3
<1>14. Collected(buffer, found, PayloadOf(buffer, o))
  <2>1. \A x \in ValuesOf(buffer) : x < o <=> x < PayloadOf(buffer, o)
    BY <1>3, <1>4, <1>7, NoValueInHeader
  <2> QED
    BY <1>c, <2>1, SameFrontier
<1>15. end'[buffer.start] = buffer.len
  <2>1. buffer.start \in buffer.start..level
    BY <1>t
  <2> QED
    BY <1>8, <1>9, <1>10, <2>1
<1>16. Running'
  BY <1>w, <1>t, <1>k, <1>6 DEF Running
<1> QED
  BY <1>8, <1>13, <1>14, <1>15, <1>16, <1>w DEF FindInv

\* A loop that ends, at its end or at a length that cannot be; inside a
\* message that is written only at its end.
LEMMA ReturnFinds == ASSUME WalkInv, FindInv, Written(buffer), AtEnd \/ Break PROVE FindInv'
<1> DEFINE f == off[level]
<1>k. PICK k : k = level - 1
  OBVIOUS
<1>1. Running /\ Return /\ level' = k /\ buffer' = buffer /\ found' = found
  BY <1>k DEF AtEnd, Break, Return
<1>2. /\ off' = [l \in Level |-> IF l = level THEN 0
                                 ELSE IF l = k /\ l >= buffer.start
                                 THEN off[l] + Align(alen[l]) ELSE off[l]]
      /\ end' = [end EXCEPT ![level] = 0]
      /\ alen' = [l \in Level |-> IF l \in {k, level} THEN 0 ELSE alen[l]]
  BY <1>1, <1>k DEF Return
<1>t. /\ level \in Int /\ buffer.start \in 1..2 /\ level >= buffer.start
      /\ level \in buffer.start..level /\ level \in Level /\ Levels \in Nat /\ level \in 1..Levels
      /\ k \in Int /\ k < level /\ k # level /\ buffer \in RawBuffers
  <2>1. level \in Level /\ buffer.start \in 1..2 /\ level >= buffer.start
    BY <1>1, WalkTyped
  <2>2. Levels \in Nat /\ buffer \in RawBuffers
    BY NlaWalkAssumption DEF WalkInv
  <2> QED
    BY <1>k, <2>1, <2>2 DEF Level
<1>f. /\ off \in [Level -> 0..(MaxLen + 3)] /\ end \in [Level -> 0..MaxLen]
      /\ alen \in [Level -> 0..MaxLen] /\ MaxLen \in Nat /\ f \in Nat /\ end[level] \in Nat
  <2>1. /\ off \in [Level -> 0..(MaxLen + 3)] /\ end \in [Level -> 0..MaxLen]
        /\ alen \in [Level -> 0..MaxLen] /\ MaxLen \in Nat
    BY NlaWalkAssumption DEF WalkInv, WalkTypeOK
  <2> QED
    BY <1>t, <2>1
<1>3. OnElement(level) /\ end[buffer.start] = buffer.len /\ Collected(buffer, found, f)
  BY <1>1, <1>t DEF FindInv
<1>h. ASSUME HeaderFits
      PROVE  /\ f \in DOMAIN buffer.at /\ f \in Elements(buffer, level)
             /\ EndOf(buffer, f) > end[level]
             /\ f + 4 <= end[level]
  <2>1. /\ f \in Elements(buffer, level) /\ f \in DOMAIN buffer.at
        /\ buffer.at[f].level = level
        /\ Length(f) = {buffer.at[f].len} /\ f + 4 <= end[level]
    BY <1>1, <1>h, OnHeader
  <2>2. ~Fits(buffer.at[f].len)
    BY <1>h, <2>1 DEF AtEnd, Break
  <2>3. /\ EndOf(buffer, f) = f + buffer.at[f].len /\ buffer.at[f].len \in Nat
        /\ EndOf(buffer, f) >= f + HeaderOf(buffer.at[f].level)
    BY <1>t, <2>1, ElementIs
  <2>4. ~(f + buffer.at[f].len <= end[level])
    BY <1>f, <2>1, <2>2, <2>3 DEF Fits, HeaderOf
  <2> QED
    BY <1>f, <2>1, <2>3, <2>4
<1>l. f + HeaderOf(level) > end[level] <=> ~HeaderFits
  <2>1. HeaderOf(level) \in Nat
    BY DEF HeaderOf
  <2> QED
    BY <1>f, <2>1 DEF HeaderFits
<1>n. off[level] = f
  OBVIOUS
<1> HIDE DEF f
<1>4. CASE k >= buffer.start
  <2> DEFINE p == off[k]
  <2>0. level > buffer.start /\ k \in buffer.start..level /\ k + 1 = level
    BY <1>4, <1>t, <1>k
  <2>1. /\ k \in Level /\ p \in Elements(buffer, k) /\ p \in DOMAIN buffer.at
        /\ buffer.at[p].level = k /\ buffer.at[p].nested
        /\ p \in Nat /\ p < f /\ f <= Behind(buffer, p)
        /\ alen[k] = buffer.at[p].len
        /\ end[level] = EndOf(buffer, p) /\ end[level] <= end[k]
    <3>1. /\ level - 1 \in Level
          /\ p \in Elements(buffer, level - 1) /\ p \in DOMAIN buffer.at
          /\ buffer.at[p].level = level - 1 /\ buffer.at[p].nested
          /\ p \in Nat /\ p < off[level]
          /\ off[level] <= Behind(buffer, p)
          /\ alen[level - 1] = buffer.at[p].len
          /\ end[level] = EndOf(buffer, p) /\ end[level] <= end[level - 1]
      <4>1. p = off[level - 1]
        BY <1>k
      <4> HIDE DEF p
      <4> QED
        BY <1>t, <2>0, <4>1, InsideElement
    <3> QED
      BY <1>k, <1>n, <3>1
  <2>p. p = off[k]
    OBVIOUS
  <2> HIDE DEF p
  <2>2. /\ Behind(buffer, p) = p + Align(buffer.at[p].len) /\ Behind(buffer, p) \in Nat
        /\ EndOf(buffer, p) \in Nat /\ EndOf(buffer, p) >= p + 4
        /\ Behind(buffer, p) >= EndOf(buffer, p)
    BY <1>t, <2>1, ElementIs
  <2>3. ~HeaderFits
    <3> SUFFICES ASSUME HeaderFits PROVE FALSE
      OBVIOUS
    <3>1. f \in Elements(buffer, level) /\ f + 4 <= end[level] /\ EndOf(buffer, f) > end[level]
      BY <1>h
    <3>2. EndOf(buffer, f) <= end[level]
      BY <1>1, <1>n, <1>t, <2>0, <3>1, NextElement
    <3>3. EndOf(buffer, f) \in Nat
      <4>1. f \in DOMAIN buffer.at
        BY <1>h
      <4> QED
        BY <1>t, <4>1, ElementIs
    <3> QED
      BY <1>f, <3>1, <3>2, <3>3
  <2>4. f + 4 > EndOf(buffer, p)
    <3>1. level # 1
      BY <1>t, <2>0
    <3> QED
      BY <1>l, <2>1, <2>3, <3>1 DEF HeaderOf
  <2>5. Collected(buffer, found, Behind(buffer, p))
    <3>1. \A x \in ValuesOf(buffer) : x < f <=> x < Behind(buffer, p)
      BY <1>f, <1>t, <2>1, <2>4, NoValueInRest
    <3> QED
      BY <1>3, <3>1, SameFrontier
  <2>6. /\ off'[k] = Behind(buffer, p)
        /\ \A l \in Level : l < k => off'[l] = off[l] /\ alen'[l] = alen[l]
        /\ \A l \in Level : l # level => end'[l] = end[l]
    <3>1. off'[k] = off[k] + Align(alen[k])
      BY <1>2, <1>4, <1>t, <2>1
    <3>2. \A l \in Level : l < k => l # k /\ l # level
      BY <1>t DEF Level
    <3>3. \A l \in Level : l < k => off'[l] = off[l] /\ alen'[l] = alen[l]
      BY <1>2, <3>2
    <3>4. \A l \in Level : l # level => end'[l] = end[l]
      BY <1>2, <1>f
    <3> QED
      BY <2>1, <2>2, <2>p, <3>1, <3>3, <3>4
  <2>7. /\ Behind(buffer, p) \in Elements(buffer, k) \/ Behind(buffer, p) >= end[k]
        /\ k > buffer.start => Behind(buffer, p) <= Behind(buffer, off[k - 1])
    <3>1. p + 4 <= end[k]
      <4>1. end[k] \in Int
        BY <1>f, <2>1
      <4> QED
        BY <2>1, <2>2, <4>1
    <3> QED
      BY <1>1, <2>0, <2>1, <2>p, <3>1, NextElement
  <2>8. \A i \in buffer.start..k : i \in Level /\ i # level /\ (i # k => i < k)
    BY <1>t DEF Level
  <2>9. OnElement(k)'
    <3>1. OnElement(k)
      BY <2>0 DEF FindInv
    <3>2. off'[k] \in Elements(buffer, k) \/ off'[k] >= end'[k]
      BY <2>1, <2>6, <2>7, <1>t
    <3>3. ASSUME k > buffer.start
          PROVE  /\ off'[k] <= Behind(buffer, off'[k - 1])
                 /\ off'[buffer.start] < off'[k]
                 /\ end'[k] <= end'[buffer.start + 1]
      <4>1. /\ k - 1 \in buffer.start..k /\ buffer.start \in buffer.start..k
            /\ buffer.start + 1 \in buffer.start..k /\ k - 1 < k
            /\ k \in buffer.start..k
        BY <1>t, <3>3
      <4>2. off'[k - 1] = off[k - 1]
        BY <2>6, <2>8, <4>1
      <4>3. off'[buffer.start] = off[buffer.start] /\ off[buffer.start] \in Int
        BY <1>f, <2>6, <2>8, <3>3, <4>1
      <4>4. end'[buffer.start + 1] = end[buffer.start + 1] /\ end'[k] = end[k]
        BY <2>6, <2>8, <4>1
      <4>5. off[buffer.start] < p /\ end[k] <= end[buffer.start + 1]
        BY <2>p, <3>1, <3>3 DEF OnElement
      <4>6. off'[buffer.start] < off'[k]
        BY <2>1, <2>2, <2>6, <4>3, <4>5
      <4> QED
        BY <2>6, <2>7, <3>3, <4>2, <4>4, <4>5, <4>6
    <3>4. ~(k < k)
      BY <1>t
    <3> QED
      BY <1>1, <3>2, <3>3, <3>4 DEF OnElement
  <2>10. ASSUME NEW l \in buffer.start..k
         PROVE  OnElement(l)'
    <3>1. CASE l = k
      BY <2>9, <3>1
    <3>2. CASE l # k
      <4>1. l \in Int /\ l >= buffer.start /\ l < level /\ l < k /\ buffer.start \in Int
        BY <1>t, <2>10, <3>2
      <4>2. \A i \in buffer.start..l : i \in buffer.start..k /\ i < k
        BY <1>t, <4>1
      <4>3. \A i \in buffer.start..l :
              off'[i] = off[i] /\ end'[i] = end[i] /\ alen'[i] = alen[i]
        BY <2>6, <2>8, <4>2
      <4>4. OnElement(l)
        <5>1. l \in buffer.start..level
          BY <1>t, <4>1
        <5> QED
          BY <5>1 DEF FindInv
      <4> QED
        BY <1>1, <4>1, <4>3, <4>4, OnElementKept
    <3> QED
      BY <3>1, <3>2
  <2>11. Running' /\ end'[buffer.start] = buffer.len
    <3>1. Running'
      BY <1>1, <1>4, <1>k DEF Running
    <3>2. buffer.start \in buffer.start..k
      BY <1>4, <1>t
    <3> QED
      BY <1>3, <2>6, <2>8, <3>1, <3>2
  <2>12. level' = k
    BY <1>1, <1>k
  <2> QED
    BY <1>1, <2>5, <2>6, <2>10, <2>11, <2>12 DEF FindInv
<1>5. CASE ~(k >= buffer.start)
  <2>1. level = buffer.start
    BY <1>5, <1>t, <1>k
  <2>2. ~Running' /\ level' = k
    BY <1>1, <1>5, <1>k DEF Running
  <2>3. \/ f \in Elements(buffer, buffer.start) /\ EndOf(buffer, f) > buffer.len
        \/ f >= buffer.len
    <3>1. CASE HeaderFits
      BY <1>3, <1>h, <2>1, <3>1
    <3>2. CASE ~HeaderFits /\ f \in Elements(buffer, level)
      <4>1. f \in DOMAIN buffer.at /\ buffer.at[f].level = level
        BY <3>2 DEF Elements
      <4>2. EndOf(buffer, f) \in Nat /\ EndOf(buffer, f) >= f + HeaderOf(level)
        BY <1>t, <4>1, ElementIs
      <4>3. f + HeaderOf(level) > end[level] /\ f + HeaderOf(level) \in Nat
        BY <1>f, <1>l, <3>2 DEF HeaderOf
      <4> QED
        BY <1>3, <1>f, <2>1, <3>2, <4>2, <4>3
    <3>3. CASE ~HeaderFits /\ f \notin Elements(buffer, level)
      BY <1>3, <1>n, <2>1, <3>3 DEF OnElement
    <3> QED
      BY <3>1, <3>2, <3>3
  <2>4. Collected(buffer, found, buffer.len)
    <3>1. \A x \in ValuesOf(buffer) : x < f <=> x < buffer.len
      BY <1>f, <1>t, <2>3, NoValueBehindTheCut
    <3> QED
      BY <1>3, <3>1, SameFrontier
  <2>5. \A l \in buffer.start..k : FALSE
    BY <1>5, <1>t
  <2> QED
    BY <1>1, <2>2, <2>4, <2>5 DEF FindInv
<1> QED
  BY <1>4, <1>5

LEMMA FindInit == WalkInit => FindInv
<1> SUFFICES ASSUME WalkInit, Written(buffer) PROVE FindInv
  BY DEF FindInv
<1>1. /\ buffer \in RawBuffers /\ buffer.start \in {1, 2} /\ buffer.start \in Level
      /\ level = buffer.start /\ off = Zero /\ found = <<>>
      /\ end = [Zero EXCEPT ![buffer.start] = buffer.len]
      /\ LaidOut(buffer)
  BY NlaWalkAssumption DEF WalkInit, Level
<1>2. off[level] = 0 /\ end[level] = buffer.len /\ Running /\ off[level] \in Elements(buffer, level)
  BY <1>1 DEF Zero, Running, LaidOut
<1>3. OnElement(level)
  BY <1>1, <1>2 DEF OnElement
<1>4. Collected(buffer, found, 0)
  <2>1. \A x \in ValuesOf(buffer) : ~(x < 0)
    <3> TAKE x \in ValuesOf(buffer)
    <3>1. x \in DOMAIN buffer.at
      BY DEF ValuesOf
    <3>2. x \in Nat
      BY <1>1, <3>1, ElementIs
    <3> QED
      BY <3>2
  <2>2. {Value(buffer, o) : o \in {x \in ValuesOf(buffer) : x < 0}} = {}
    BY <2>1
  <2>3. DOMAIN found = {}
    BY <1>1
  <2> QED
    BY <2>2, <2>3 DEF Collected
<1>5. \A l \in buffer.start..level : l = level
  BY <1>1
<1> QED
  BY <1>1, <1>2, <1>3, <1>4, <1>5 DEF FindInv

LEMMA FindInductive == WalkInv /\ FindInv /\ [WalkNext]_walkVars => FindInv'
<1> SUFFICES ASSUME WalkInv, FindInv, [WalkNext]_walkVars PROVE FindInv'
  OBVIOUS
<1>1. CASE UNCHANGED walkVars
  BY <1>1 DEF walkVars, FindInv, OnElement, Running
<1>2. CASE WalkNext /\ Written(buffer)
  BY <1>2, ReturnFinds, SkipFinds, VisitFinds, DescendFinds DEF WalkNext
<1>3. CASE WalkNext /\ ~Written(buffer)
  <2>1. buffer' = buffer
    BY <1>3 DEF WalkNext, AtEnd, Break, Return, SkipShort, Descend, Visit
  <2> QED
    BY <1>3, <2>1 DEF FindInv
<1> QED
  BY <1>1, <1>2, <1>3

(* What a writer laid out is found: when the walk ends, the values are     *)
(* those of the whole messages, each at its place and once, in their       *)
(* order, whatever the messages hold and wherever the buffer is cut off.   *)
THEOREM FindsAll == WalkSpec => []FindsWhatWasWritten
<1>1. WalkSpec => WalkInit /\ [][WalkNext]_walkVars
  BY PTL DEF WalkSpec
<1>2. WalkInv /\ FindInv => FindsWhatWasWritten
  <2> SUFFICES ASSUME WalkInv, FindInv, ~Running, Written(buffer)
               PROVE  /\ {found[i] : i \in DOMAIN found}
                           = {Value(buffer, o) : o \in ValuesOf(buffer)}
                      /\ \A i, j \in DOMAIN found : i < j => found[i].from < found[j].from
    BY DEF FindsWhatWasWritten
  <2>1. Collected(buffer, found, buffer.len)
    BY DEF FindInv
  <2>2. \A x \in ValuesOf(buffer) : x < buffer.len
    <3> TAKE x \in ValuesOf(buffer)
    <3>1. buffer \in RawBuffers /\ buffer.len \in Nat
      BY NlaWalkAssumption DEF WalkInv
    <3>2. PICK t \in Elements(buffer, buffer.start) :
            EndOf(buffer, t) <= buffer.len /\ (x = t \/ Within(buffer, x, t))
      BY DEF ValuesOf
    <3>3. x \in DOMAIN buffer.at /\ t \in DOMAIN buffer.at
      BY <3>2 DEF ValuesOf, Elements
    <3>4. /\ x \in Nat /\ EndOf(buffer, x) \in Nat /\ EndOf(buffer, x) >= x + 4
          /\ EndOf(buffer, t) \in Nat
      BY <3>1, <3>3, ElementIs
    <3>5. EndOf(buffer, x) <= EndOf(buffer, t)
      BY <3>2, <3>4 DEF Within
    <3> QED
      BY <3>1, <3>2, <3>4, <3>5
  <2>3. {x \in ValuesOf(buffer) : x < buffer.len} = ValuesOf(buffer)
    BY <2>2
  <2> QED
    BY <2>1, <2>3 DEF Collected
<1> QED
  BY <1>1, <1>2, WalkInitInv, WalkInductive, FindInit, FindInductive, PTL

----------------------------------------------------------------------------
(* How long the walk takes. *)

\* How far the walk is: with the offset, and with every loop that has ended.
\* The 7 is more than the padding that an offset may be ahead of the end, twice,
\* and less than what a descent gains, twice.
Ahead == 2 * off[level] - 7 * level

Advances == Running /\ Running' => Ahead' > Ahead

LEMMA StepAdvances == ASSUME WalkInv, WalkNext PROVE Advances
<1> SUFFICES ASSUME Running, Running' PROVE Ahead' > Ahead
  BY DEF Advances
<1> DEFINE f == off[level]
<1>1. /\ level \in Level /\ level \in Int /\ f \in Nat /\ buffer.start \in 1..2
      /\ end[level] \in Int /\ f <= end[level] + 3 /\ level >= buffer.start
  <2>1. /\ level \in Level /\ off[level] \in 0..(MaxLen + 3) /\ end[level] \in 0..MaxLen
        /\ off[level] <= end[level] + 3 /\ level >= buffer.start /\ buffer.start \in 1..2
    BY WalkTyped
  <2>2. MaxLen \in Nat /\ Levels \in Nat
    BY NlaWalkAssumption
  <2> QED
    BY <2>1, <2>2 DEF Level
<1>2. /\ off \in [Level -> 0..(MaxLen + 3)] /\ alen \in [Level -> 0..MaxLen]
      /\ end \in [Level -> 0..MaxLen] /\ MaxLen \in Nat /\ Levels \in Nat
  BY NlaWalkAssumption DEF WalkInv, WalkTypeOK
<1>f. off[level] = f
  OBVIOUS
<1> HIDE DEF f
<1>3. ASSUME NEW n, n \in Length(f), Fits(n)
      PROVE  Align(n) \in Int /\ Align(n) >= 4
  <2>1. n \in Nat /\ n >= 4 /\ f + n <= end[level]
    <3>1. n \in Nat
      BY <1>3, LengthsAreNat
    <3> QED
      BY <1>3, <1>f, <3>1 DEF Fits, HeaderOf
  <2>2. n \in 0..MaxLen
    BY <1>1, <1>2, <2>1
  <2>3. Align(n) \in n..(n + 3)
    BY <2>2, AlignBounds
  <2> QED
    BY <2>1, <2>3
<1>4. CASE SkipShort \/ Visit
  <2>1. PICK n \in Length(f) :
          Fits(n) /\ off' = [off EXCEPT ![level] = @ + Align(n)] /\ level' = level
    BY <1>4, <1>f DEF SkipShort, Visit
  <2>2. off'[level'] = f + Align(n)
    BY <1>1, <1>2, <1>f, <2>1
  <2>3. Align(n) \in Int /\ Align(n) >= 4
    BY <1>3, <2>1
  <2>4. 2 * (f + Align(n)) - 7 * level > 2 * f - 7 * level
    BY <1>1, <2>3
  <2> QED
    BY <1>f, <2>1, <2>2, <2>4 DEF Ahead
<1>5. CASE Descend
  <2>1. PICK n \in Length(f) :
          /\ TRUE \in Nested(f)
          /\ off' = [off EXCEPT ![level + 1] = f + PayloadAt(level)]
    BY <1>5, <1>f DEF Descend
  <2>2. level' = level + 1
    BY <1>5 DEF Descend
  <2>3. level + 1 \in Level
    <3>1. level # Levels
      <4>1. level = Levels /\ level # 1 => Nested(f) = {FALSE}
        BY DEF Nested
      <4>2. Levels # 1
        BY NlaWalkAssumption
      <4> QED
        BY <2>1, <4>1, <4>2
    <3> QED
      BY <1>1, <1>2, <3>1 DEF Level
  <2>4. off'[level'] = f + PayloadAt(level)
    BY <1>2, <2>1, <2>2, <2>3
  <2>5. PayloadAt(level) \in Nat /\ PayloadAt(level) >= 4
    BY DEF PayloadAt
  <2>6. 2 * (f + PayloadAt(level)) - 7 * (level + 1) > 2 * f - 7 * level
    BY <1>1, <2>5
  <2> QED
    BY <1>f, <2>2, <2>4, <2>6 DEF Ahead
<1>6. CASE AtEnd \/ Break
  <2>0. PICK k : k = level - 1
    OBVIOUS
  <2>1. /\ level' = k /\ buffer' = buffer
        /\ off' = [l \in Level |-> IF l = level THEN 0
                                   ELSE IF l = k /\ l >= buffer.start
                                   THEN off[l] + Align(alen[l]) ELSE off[l]]
    BY <1>6, <2>0 DEF AtEnd, Break, Return
  <2>2. k >= buffer.start /\ k # level /\ level > buffer.start /\ k \in Level
    <3>1. k >= buffer.start
      BY <2>1 DEF Running
    <3>2. level \in 1..Levels
      BY <1>1 DEF Level
    <3>3. k \in 1..Levels /\ k # level /\ level > buffer.start
      BY <1>1, <1>2, <2>0, <3>1, <3>2
    <3> QED
      BY <3>1, <3>3 DEF Level
  <2>3. off'[k] = off[k] + Align(alen[k])
    BY <2>1, <2>2
  <2>4. end[level] = off[k] + alen[k]
    BY <1>1, <2>0, <2>2 DEF WalkInv, Nests, Level
  <2>5. Align(alen[k]) \in alen[k]..(alen[k] + 3)
    BY <1>2, <2>2, AlignBounds
  <2>6. off[k] \in Int /\ alen[k] \in Int
    BY <1>2, <2>2
  <2>7. off'[k] \in Int /\ off'[k] >= end[level]
    BY <2>3, <2>4, <2>5, <2>6
  <2>8. 2 * off'[k] - 7 * k > 2 * f - 7 * level
    BY <1>1, <2>0, <2>7
  <2> QED
    BY <1>f, <2>1, <2>8 DEF Ahead
<1> QED
  BY <1>4, <1>5, <1>6 DEF WalkNext

(* While the walk goes on every step takes it further, also one that only  *)
(* ends a loop, and where the bytes give no length, a short one, or one    *)
(* that is too long.                                                       *)
THEOREM WalkAdvances == WalkSpec => [][Advances]_walkVars
<1>1. WalkSpec => WalkInit /\ [][WalkNext]_walkVars
  BY PTL DEF WalkSpec
<1>2. WalkInv /\ [WalkNext]_walkVars => [Advances]_walkVars
  BY StepAdvances
<1> QED
  BY <1>1, <1>2, WalkInitInv, WalkInductive, PTL

(* How far it can get, whatever the bytes are.  As every step but the last *)
(* takes it further, a walk has at most 2 * (MaxLen + 3) + 7 * Levels + 1. *)
THEOREM AheadIsBounded ==
  WalkSpec => [](Running => -7 * Levels <= Ahead /\ Ahead <= 2 * (MaxLen + 3))
<1>1. WalkInv => (Running => -7 * Levels <= Ahead /\ Ahead <= 2 * (MaxLen + 3))
  <2> SUFFICES ASSUME WalkInv, Running
               PROVE  -7 * Levels <= Ahead /\ Ahead <= 2 * (MaxLen + 3)
    OBVIOUS
  <2>1. off[level] \in 0..(MaxLen + 3) /\ level \in Level
    BY WalkTyped
  <2>2. MaxLen \in Nat /\ Levels \in Nat
    BY NlaWalkAssumption
  <2>3. level \in Nat /\ level <= Levels
    BY <2>1, <2>2 DEF Level
  <2> QED
    BY <2>1, <2>2, <2>3 DEF Ahead
<1> QED
  BY <1>1, WalkInvAlways, PTL

----------------------------------------------------------------------------
(* What the Wi-Fi parser makes of attributes. *)

\* What one more attribute adds to the values given.
LEMMA AddValue ==
  ASSUME NEW S, NEW a, NEW type
  PROVE  /\ a.type = type => Values(S \cup {a}, type) = Values(S, type) \cup {a.value}
         /\ a.type # type => Values(S \cup {a}, type) = Values(S, type)
  BY DEF Values

\* What one more attribute adds to the attributes inside.
LEMMA AddInside ==
  ASSUME NEW S, NEW a, NEW type
  PROVE  /\ a.type = type => Inside(S \cup {a}, type) = Inside(S, type) \cup Range(a.value)
         /\ a.type # type => Inside(S \cup {a}, type) = Inside(S, type)
<1>1. CASE a.type = type
  <2>1. Values(S \cup {a}, type) = Values(S, type) \cup {a.value}
    BY <1>1, AddValue
  <2> QED
    BY <1>1, <2>1 DEF Inside
<1>2. CASE a.type # type
  <2>1. Values(S \cup {a}, type) = Values(S, type)
    BY <1>2, AddValue
  <2> QED
    BY <1>2, <2>1 DEF Inside
<1> QED
  BY <1>1, <1>2

\* The values that the attributes of a STA_INFO give.
Signals(S) == {SignedByte(b) : b \in Values(S, "SIGNAL")}
Retries(S) == Values(S, "TX_RETRIES")
Rates(S) == Values(Inside(S, "TX_BITRATE"), "MCS")

\* e says what the addresses macs and the attributes S of a STA_INFO say.
Knows(e, macs, S) ==
  /\ e \in Event /\ e.type = "STATION"
  /\ Told(e.has_mac, e.client_mac, macs, NoMac)
  /\ Told(e.has_signal, e.signal_dbm, Signals(S), 0)
  /\ Told(e.has_mcs, e.mcs_index, Rates(S), NoMcs)
  /\ Told(Retries(S) # {}, e.tx_retries, Retries(S), 0)

\* What the parser can have made of some attributes.
Heard == {e \in Event : \E macs, S : Knows(e, macs, S)}

\* The signal of a byte is an int32_t.
LEMMA SignedByteOK ==
  ASSUME NEW b \in Byte
  PROVE  SignedByte(b) \in Dbm
<1>1. b \in 0..255
  BY Nl80211Assumption DEF Octet
<1> QED
  BY <1>1 DEF SignedByte, Dbm

\* One attribute of a STA_INFO.
StaStep(e, a) ==
  CASE a.type = "SIGNAL" -> [e EXCEPT !.signal_dbm = SignedByte(a.value), !.has_signal = TRUE]
    [] a.type = "TX_RETRIES" -> [e EXCEPT !.tx_retries = a.value]
    [] a.type = "TX_BITRATE" -> parse_rate_info(e, a.value)

\* The attributes of a STA_INFO by their types.
LEMMA StaAttrIs ==
  ASSUME NEW a \in StaAttr
  PROVE  \/ a.type = "SIGNAL" /\ a.value \in Byte
         \/ a.type = "TX_RETRIES" /\ a.value \in Count
         \/ a.type = "TX_BITRATE" /\ a.value \in Seq(RateAttr)
  BY DEF StaAttr

\* The rates of a nonempty nest are its values, an empty one has none.
LEMMA RateValues ==
  ASSUME NEW s \in Seq(RateAttr)
  PROVE  /\ s = <<>> => Values(Range(s), "MCS") = {}
         /\ s # <<>> => Last(s).value \in Values(Range(s), "MCS") /\ Last(s).value \in Byte
<1>1. CASE s = <<>>
  BY <1>1 DEF Values, Range
<1>2. CASE s # <<>>
  <2>1. PICK n \in Nat \ {0} : n = Len(s)
    BY <1>2
  <2>2. Last(s) = s[n] /\ s[n] \in RateAttr
    BY <2>1 DEF Last
  <2>3. s[n] \in Range(s)
    BY <2>1 DEF Range
  <2> QED
    BY <1>2, <2>2, <2>3 DEF Values, RateAttr
<1> QED
  BY <1>1, <1>2

\* An attribute of another type adds nothing.
LEMMA AddsNothing ==
  ASSUME NEW S, NEW a
  PROVE  /\ a.type # "SIGNAL" => Signals(S \cup {a}) = Signals(S)
         /\ a.type # "TX_RETRIES" => Retries(S \cup {a}) = Retries(S)
         /\ a.type # "TX_BITRATE" => Rates(S \cup {a}) = Rates(S)
<1>1. ASSUME a.type # "SIGNAL" PROVE Signals(S \cup {a}) = Signals(S)
  <2>1. Values(S \cup {a}, "SIGNAL") = Values(S, "SIGNAL")
    BY <1>1 DEF Values
  <2> QED
    BY <2>1 DEF Signals
<1>2. ASSUME a.type # "TX_RETRIES" PROVE Retries(S \cup {a}) = Retries(S)
  <2>1. Values(S \cup {a}, "TX_RETRIES") = Values(S, "TX_RETRIES")
    BY <1>2 DEF Values
  <2> QED
    BY <2>1 DEF Retries
<1>3. ASSUME a.type # "TX_BITRATE" PROVE Rates(S \cup {a}) = Rates(S)
  <2>1. Inside(S \cup {a}, "TX_BITRATE") = Inside(S, "TX_BITRATE")
    BY <1>3, AddInside
  <2> QED
    BY <2>1 DEF Rates
<1> QED
  BY <1>1, <1>2, <1>3

\* An attribute adds what it says.
LEMMA StaStepOK ==
  ASSUME NEW e, NEW macs, NEW S, Knows(e, macs, S), NEW a \in StaAttr
  PROVE  Knows(StaStep(e, a), macs, S \cup {a})
<1> DEFINE f == StaStep(e, a)
           T == S \cup {a}
<1>0. /\ e \in Event /\ e.type = "STATION"
      /\ Told(e.has_mac, e.client_mac, macs, NoMac)
      /\ Told(e.has_signal, e.signal_dbm, Signals(S), 0)
      /\ Told(e.has_mcs, e.mcs_index, Rates(S), NoMcs)
      /\ Told(Retries(S) # {}, e.tx_retries, Retries(S), 0)
  BY DEF Knows
<1>1. CASE a.type = "SIGNAL" /\ a.value \in Byte
  <2>1. f = [e EXCEPT !.signal_dbm = SignedByte(a.value), !.has_signal = TRUE]
    BY <1>1 DEF StaStep
  <2>2. SignedByte(a.value) \in Dbm
    BY <1>1, SignedByteOK
  <2>3. /\ f \in Event /\ f.type = e.type /\ f.has_mac = e.has_mac /\ f.client_mac = e.client_mac
        /\ f.has_mcs = e.has_mcs /\ f.mcs_index = e.mcs_index /\ f.tx_retries = e.tx_retries
        /\ f.has_signal = TRUE /\ f.signal_dbm = SignedByte(a.value)
    <3> HIDE DEF f
    <3> QED
      BY <1>0, <2>1, <2>2 DEF Event
  <2>4. Retries(T) = Retries(S) /\ Rates(T) = Rates(S)
    BY <1>1, AddsNothing
  <2>5. SignedByte(a.value) \in Signals(T)
    <3>1. a.value \in Values(T, "SIGNAL")
      BY <1>1 DEF Values
    <3> QED
      BY <3>1 DEF Signals
  <2> HIDE DEF f, T
  <2>6. Told(TRUE, f.signal_dbm, Signals(T), 0)
    BY <2>3, <2>5 DEF Told
  <2>7. Knows(f, macs, T)
    BY <1>0, <2>3, <2>4, <2>6, Zenon DEF Knows
  <2> QED
    BY <2>7 DEF f, T
<1>2. CASE a.type = "TX_RETRIES" /\ a.value \in Count
  <2>1. f = [e EXCEPT !.tx_retries = a.value]
    BY <1>2 DEF StaStep
  <2>2. a.value \in Count
    BY <1>2
  <2>3. /\ f \in Event /\ f.type = e.type /\ f.has_mac = e.has_mac /\ f.client_mac = e.client_mac
        /\ f.has_mcs = e.has_mcs /\ f.mcs_index = e.mcs_index /\ f.tx_retries = a.value
        /\ f.has_signal = e.has_signal /\ f.signal_dbm = e.signal_dbm
    <3> HIDE DEF f
    <3> QED
      BY <1>0, <2>1, <2>2 DEF Event
  <2>4. Signals(T) = Signals(S) /\ Rates(T) = Rates(S)
    BY <1>2, AddsNothing
  <2>5. a.value \in Retries(T)
    BY <1>2 DEF Values, Retries
  <2> HIDE DEF f, T
  <2>6. Told(Retries(T) # {}, f.tx_retries, Retries(T), 0)
    BY <2>3, <2>5 DEF Told
  <2>7. Knows(f, macs, T)
    BY <1>0, <2>3, <2>4, <2>6, Zenon DEF Knows
  <2> QED
    BY <2>7 DEF f, T
<1>3. CASE a.type = "TX_BITRATE" /\ a.value \in Seq(RateAttr)
  <2>1. f = parse_rate_info(e, a.value)
    BY <1>3 DEF StaStep
  <2>2. Signals(T) = Signals(S) /\ Retries(T) = Retries(S)
    BY <1>3, AddsNothing
  <2>3. Inside(T, "TX_BITRATE") = Inside(S, "TX_BITRATE") \cup Range(a.value)
    BY <1>3, AddInside
  <2>4. Rates(T) = Rates(S) \cup Values(Range(a.value), "MCS")
    BY <2>3 DEF Rates, Values
  <2>5. CASE a.value = <<>>
    <3>1. f = e
      BY <2>1, <2>5 DEF parse_rate_info
    <3>2. Rates(T) = Rates(S)
      BY <1>3, <2>4, <2>5, RateValues
    <3> HIDE DEF f, T
    <3>3. Knows(f, macs, T)
      BY <1>0, <2>2, <3>1, <3>2, Zenon DEF Knows
    <3> QED
      BY <3>3 DEF f, T
  <2>6. CASE a.value # <<>>
    <3> DEFINE v == Last(a.value).value
    <3>1. f = [e EXCEPT !.mcs_index = v, !.has_mcs = TRUE]
      BY <2>1, <2>6 DEF parse_rate_info
    <3>2. v \in Values(Range(a.value), "MCS") /\ v \in Byte
      BY <1>3, <2>6, RateValues
    <3>3. v \in Octet
      BY <3>2, Nl80211Assumption
    <3> HIDE DEF v
    <3>4. /\ f \in Event /\ f.type = e.type /\ f.has_mac = e.has_mac /\ f.client_mac = e.client_mac
          /\ f.has_mcs = TRUE /\ f.mcs_index = v /\ f.tx_retries = e.tx_retries
          /\ f.has_signal = e.has_signal /\ f.signal_dbm = e.signal_dbm
      <4> HIDE DEF f
      <4> QED
        BY <1>0, <3>1, <3>3 DEF Event
    <3>5. v \in Rates(T)
      BY <2>4, <3>2
    <3> HIDE DEF f, T
    <3>6. Told(TRUE, f.mcs_index, Rates(T), NoMcs)
      BY <3>4, <3>5 DEF Told
    <3>7. Knows(f, macs, T)
      BY <1>0, <2>2, <3>4, <3>6, Zenon DEF Knows
    <3> QED
      BY <3>7 DEF f, T
  <2> QED
    BY <2>5, <2>6
<1> QED
  BY <1>1, <1>2, <1>3, StaAttrIs

\* The attributes of a STA_INFO add all they say, in any order.
LEMMA StaInfoOK ==
  ASSUME NEW e, NEW macs, NEW S, Knows(e, macs, S), NEW s \in Seq(StaAttr)
  PROVE  Knows(parse_sta_info(e, s), macs, S \cup Range(s))
<1>1. PICK n \in Nat : n = Len(s) /\ DOMAIN s = 1..n
  OBVIOUS
<1> DEFINE X == Heard
           F == [x \in X |-> [i \in 1..n |-> StaStep(x, s[i])]]
           Eq(g) == g = [D \in SUBSET DOMAIN s |->
                       IF D = {} THEN e ELSE StaStep(g[D \ {Max(D)}], s[Max(D)])]
           it == CHOOSE g : Eq(g)
<1>2. F \in [X -> [1..n -> X]]
  <2>1. ASSUME NEW x \in Heard, NEW i \in 1..n PROVE StaStep(x, s[i]) \in Heard
    <3>1. PICK ms, R : Knows(x, ms, R)
      BY DEF Heard
    <3>2. s[i] \in StaAttr
      BY <1>1
    <3>3. Knows(StaStep(x, s[i]), ms, R \cup {s[i]})
      BY <3>1, <3>2, StaStepOK
    <3>4. StaStep(x, s[i]) \in Event
      BY <3>3 DEF Knows
    <3> QED
      BY <3>3, <3>4 DEF Heard
  <2> QED
    BY <2>1
<1>3. parse_sta_info(e, s) = it[1..n]
  <2>1. parse_sta_info(e, s) = FoldLeft(StaStep, e, s)
    BY DEF parse_sta_info, StaStep, FoldLeft, MapThenFoldSet
  <2>2. FoldLeft(StaStep, e, s) = it[DOMAIN s]
    BY DEF FoldLeft, MapThenFoldSet
  <2> HIDE DEF it
  <2> QED
    BY <1>1, <2>1, <2>2
<1>4. \E g : Eq(g)
  <2>0. e \in X
    BY DEF Knows, Heard
  <2> HIDE DEF F, X
  <2>1. PICK g : Folds(g, X, e, n, F)
    BY <1>2, <2>0, FoldExists
  <2>2. ASSUME NEW D \in SUBSET (1..n), D # {}
        PROVE  F[g[D \ {Max(D)}]][Max(D)] = StaStep(g[D \ {Max(D)}], s[Max(D)])
    <3>1. Max(D) \in 1..n
      BY <1>1, <2>2, MaxOK
    <3>2. g[D \ {Max(D)}] \in X
      BY <2>1 DEF Folds
    <3> QED
      BY <3>1, <3>2 DEF F
  <2>3. \A D \in SUBSET (1..n) :
          g[D] = IF D = {} THEN e ELSE StaStep(g[D \ {Max(D)}], s[Max(D)])
    BY <2>1, <2>2 DEF Folds
  <2>4. Eq(g)
    BY <1>1, <2>1, <2>3 DEF Folds
  <2> HIDE DEF Eq
  <2> QED
    BY <2>4
<1>5. Eq(it)
  <2> HIDE DEF Eq
  <2> QED
    BY <1>4
<1> HIDE DEF it
<1> DEFINE T(k) == S \cup {s[i] : i \in 1..k}
           P == {k \in 0..n : Knows(it[1..k], macs, T(k))}
<1>6. 0 \in P
  <2>1. 1..0 = {} /\ 1..0 \in SUBSET (1..n)
    OBVIOUS
  <2>2. it[1..0] = e
    BY <1>1, <1>5, <2>1
  <2>3. T(0) = S
    BY <2>1
  <2> HIDE DEF T
  <2> QED
    BY <2>2, <2>3
<1>7. ASSUME NEW k \in 1..n, k - 1 \in P PROVE k \in P
  <2>0. k \in Nat \ {0}
    OBVIOUS
  <2>1. 1..k # {} /\ 1..k \in SUBSET (1..n)
    <3>1. 1 \in 1..k /\ \A i \in 1..k : i \in 1..n
      OBVIOUS
    <3> QED
      BY <3>1
  <2>2. Max(1..k) = k /\ (1..k) \ {k} = 1..(k - 1)
    BY <2>0, MaxOfAll
  <2>3. it[1..k] = StaStep(it[(1..k) \ {Max(1..k)}], s[Max(1..k)])
    BY <1>1, <1>5, <2>1
  <2>4. T(k) = T(k - 1) \cup {s[k]}
    <3>1. 1..k = (1..(k - 1)) \cup {k}
      BY <2>0
    <3> QED
      BY <3>1
  <2>5. Knows(it[1..(k - 1)], macs, T(k - 1)) /\ s[k] \in StaAttr
    BY <1>1, <1>7
  <2>6. it[1..k] = StaStep(it[1..(k - 1)], s[k])
    BY <2>2, <2>3, Zenon
  <2> DEFINE old == it[1..(k - 1)]
             a == s[k]
             U == T(k - 1)
  <2> HIDE DEF old, a, U
  <2>7. Knows(StaStep(old, a), macs, U \cup {a})
    BY <2>5, StaStepOK DEF old, a, U
  <2>8. Knows(it[1..k], macs, T(k))
    BY <2>4, <2>6, <2>7, Zenon DEF old, a, U
  <2> HIDE DEF T
  <2> QED
    BY <2>8
<1>8. n \in P
  <2> HIDE DEF P
  <2>1. \A k \in 0..n : k \in P
    BY <1>6, <1>7, UpTo
  <2> QED
    BY <2>1
<1>9. T(n) = S \cup Range(s)
  BY <1>1 DEF Range
<1> HIDE DEF T
<1> QED
  BY <1>3, <1>8, <1>9

\* One attribute of a message.
TopStep(e, a) ==
  CASE a.type = "MAC" -> [e EXCEPT !.client_mac = a.value, !.has_mac = TRUE]
    [] a.type = "STA_INFO" -> parse_sta_info(e, a.value)

\* The attributes of a message by their types.
LEMMA TopAttrIs ==
  ASSUME NEW a \in TopAttr
  PROVE  \/ a.type = "MAC" /\ a.value \in Mac
         \/ a.type = "STA_INFO" /\ a.value \in Seq(StaAttr)
  BY DEF TopAttr

\* An attribute adds an address, or what the attributes in it say.
LEMMA TopStepKnows ==
  ASSUME NEW e, NEW macs, NEW S, Knows(e, macs, S), NEW a
  PROVE  /\ a.type = "MAC" /\ a.value \in Mac =>
              Knows(TopStep(e, a), macs \cup {a.value}, S)
         /\ a.type = "STA_INFO" /\ a.value \in Seq(StaAttr) =>
              Knows(TopStep(e, a), macs, S \cup Range(a.value))
<1> DEFINE f == TopStep(e, a)
<1>0. /\ e \in Event /\ e.type = "STATION"
      /\ Told(e.has_signal, e.signal_dbm, Signals(S), 0)
      /\ Told(e.has_mcs, e.mcs_index, Rates(S), NoMcs)
      /\ Told(Retries(S) # {}, e.tx_retries, Retries(S), 0)
  BY DEF Knows
<1>1. ASSUME a.type = "MAC", a.value \in Mac
      PROVE  Knows(f, macs \cup {a.value}, S)
  <2>1. f = [e EXCEPT !.client_mac = a.value, !.has_mac = TRUE]
    BY <1>1 DEF TopStep
  <2> HIDE DEF f
  <2>2. /\ f \in Event /\ f.type = e.type /\ f.has_mac = TRUE /\ f.client_mac = a.value
        /\ f.has_mcs = e.has_mcs /\ f.mcs_index = e.mcs_index /\ f.tx_retries = e.tx_retries
        /\ f.has_signal = e.has_signal /\ f.signal_dbm = e.signal_dbm
    BY <1>0, <1>1, <2>1 DEF Event
  <2>3. Told(TRUE, f.client_mac, macs \cup {a.value}, NoMac)
    BY <2>2 DEF Told
  <2> QED
    BY <1>0, <2>2, <2>3, Zenon DEF Knows
<1>2. ASSUME a.type = "STA_INFO", a.value \in Seq(StaAttr)
      PROVE  Knows(f, macs, S \cup Range(a.value))
  <2>1. f = parse_sta_info(e, a.value)
    BY <1>2 DEF TopStep
  <2>2. Knows(parse_sta_info(e, a.value), macs, S \cup Range(a.value))
    BY <1>2, StaInfoOK
  <2> HIDE DEF f
  <2> QED
    BY <2>1, <2>2, Zenon
<1> QED
  BY <1>1, <1>2

\* e says what the attributes U of one message say.
Tells(e, U) == Knows(e, Values(U, "MAC"), Inside(U, "STA_INFO"))

\* One more attribute adds what it says.
LEMMA TopStepOK ==
  ASSUME NEW e, NEW U, Tells(e, U), NEW a \in TopAttr
  PROVE  Tells(TopStep(e, a), U \cup {a})
<1> DEFINE V == U \cup {a}
           m == Values(U, "MAC")
           S == Inside(U, "STA_INFO")
<1>0. Knows(e, m, S)
  BY DEF Tells
<1>1. CASE a.type = "MAC" /\ a.value \in Mac
  <2>1. Values(V, "MAC") = m \cup {a.value} /\ Inside(V, "STA_INFO") = S
    <3>1. a.type # "STA_INFO"
      BY <1>1
    <3>2. Values(V, "MAC") = m \cup {a.value}
      BY <1>1 DEF Values
    <3>3. Inside(V, "STA_INFO") = S
      BY <3>1, AddInside, Zenon
    <3> QED
      BY <3>2, <3>3
  <2> HIDE DEF V, m, S
  <2>2. Knows(TopStep(e, a), m \cup {a.value}, S)
    BY <1>0, <1>1, TopStepKnows
  <2>3. Tells(TopStep(e, a), V)
    BY <2>1, <2>2, Zenon DEF Tells
  <2> QED
    BY <2>3 DEF V
<1>2. CASE a.type = "STA_INFO" /\ a.value \in Seq(StaAttr)
  <2>1. Values(V, "MAC") = m /\ Inside(V, "STA_INFO") = S \cup Range(a.value)
    <3>1. a.type # "MAC"
      BY <1>2
    <3>2. Values(V, "MAC") = m
      BY <3>1 DEF Values
    <3>3. Inside(V, "STA_INFO") = S \cup Range(a.value)
      BY <1>2, AddInside, Zenon
    <3> QED
      BY <3>2, <3>3
  <2> HIDE DEF V, m, S
  <2>2. Knows(TopStep(e, a), m, S \cup Range(a.value))
    BY <1>0, <1>2, TopStepKnows
  <2>3. Tells(TopStep(e, a), V)
    BY <2>1, <2>2, Zenon DEF Tells
  <2> QED
    BY <2>3 DEF V
<1> QED
  BY <1>1, <1>2, TopAttrIs

\* A blank event says nothing.
LEMMA BlankTells == Tells(BlankStation, {})
<1>1. BlankStation \in Event
  BY DEF BlankStation, Event, Dbm, Octet, NoMcs
<1>2. \A type : Values({}, type) = {} /\ Inside({}, type) = {}
  BY DEF Values, Inside
<1>3. Signals({}) = {} /\ Retries({}) = {} /\ Rates({}) = {}
  BY <1>2 DEF Signals, Retries, Rates
<1>4. Knows(BlankStation, {}, {})
  BY <1>1, <1>3 DEF Knows, Told, BlankStation
<1> QED
  BY <1>2, <1>4 DEF Tells

\* The attributes of a message tell all they say, in any order.
LEMMA TopAttrsOK ==
  ASSUME NEW s \in Seq(TopAttr)
  PROVE  Tells(parse_top_attrs(BlankStation, s), Range(s))
<1>1. PICK n \in Nat : n = Len(s) /\ DOMAIN s = 1..n
  OBVIOUS
<1> DEFINE X == Heard
           F == [x \in X |-> [i \in 1..n |-> TopStep(x, s[i])]]
           Eq(g) == g = [D \in SUBSET DOMAIN s |->
                       IF D = {} THEN BlankStation ELSE TopStep(g[D \ {Max(D)}], s[Max(D)])]
           it == CHOOSE g : Eq(g)
<1>2. F \in [X -> [1..n -> X]]
  <2>1. ASSUME NEW x \in Heard, NEW i \in 1..n PROVE TopStep(x, s[i]) \in Heard
    <3>1. PICK ms, R : Knows(x, ms, R)
      BY DEF Heard
    <3>2. s[i] \in TopAttr
      BY <1>1
    <3>3. \E nms, nR : Knows(TopStep(x, s[i]), nms, nR)
      BY <3>1, <3>2, TopStepKnows, TopAttrIs
    <3>4. TopStep(x, s[i]) \in Event
      BY <3>3 DEF Knows
    <3> QED
      BY <3>3, <3>4 DEF Heard
  <2> QED
    BY <2>1
<1>3. parse_top_attrs(BlankStation, s) = it[1..n]
  <2>1. parse_top_attrs(BlankStation, s) = FoldLeft(TopStep, BlankStation, s)
    BY DEF parse_top_attrs, TopStep, FoldLeft, MapThenFoldSet
  <2>2. FoldLeft(TopStep, BlankStation, s) = it[DOMAIN s]
    BY DEF FoldLeft, MapThenFoldSet
  <2> HIDE DEF it
  <2> QED
    BY <1>1, <2>1, <2>2
<1>4. \E g : Eq(g)
  <2>0. BlankStation \in X
    BY BlankTells DEF Tells, Knows, Heard
  <2> HIDE DEF F, X
  <2>1. PICK g : Folds(g, X, BlankStation, n, F)
    BY <1>2, <2>0, FoldExists
  <2>2. ASSUME NEW D \in SUBSET (1..n), D # {}
        PROVE  F[g[D \ {Max(D)}]][Max(D)] = TopStep(g[D \ {Max(D)}], s[Max(D)])
    <3>1. Max(D) \in 1..n
      BY <1>1, <2>2, MaxOK
    <3>2. g[D \ {Max(D)}] \in X
      BY <2>1 DEF Folds
    <3> QED
      BY <3>1, <3>2 DEF F
  <2>3. \A D \in SUBSET (1..n) :
          g[D] = IF D = {} THEN BlankStation ELSE TopStep(g[D \ {Max(D)}], s[Max(D)])
    BY <2>1, <2>2 DEF Folds
  <2>4. Eq(g)
    BY <1>1, <2>1, <2>3 DEF Folds
  <2> HIDE DEF Eq
  <2> QED
    BY <2>4
<1>5. Eq(it)
  <2> HIDE DEF Eq
  <2> QED
    BY <1>4
<1> HIDE DEF it
<1> DEFINE T(k) == {s[i] : i \in 1..k}
           P == {k \in 0..n : Tells(it[1..k], T(k))}
<1>6. 0 \in P
  <2>1. 1..0 = {} /\ 1..0 \in SUBSET (1..n)
    OBVIOUS
  <2>2. it[1..0] = BlankStation
    BY <1>1, <1>5, <2>1
  <2>3. T(0) = {}
    BY <2>1
  <2> HIDE DEF T
  <2>4. Tells(it[1..0], T(0))
    BY <2>2, <2>3, BlankTells, Zenon
  <2> QED
    BY <2>4
<1>7. ASSUME NEW k \in 1..n, k - 1 \in P PROVE k \in P
  <2>0. k \in Nat \ {0}
    OBVIOUS
  <2>1. 1..k # {} /\ 1..k \in SUBSET (1..n)
    <3>1. 1 \in 1..k /\ \A i \in 1..k : i \in 1..n
      OBVIOUS
    <3> QED
      BY <3>1
  <2>2. Max(1..k) = k /\ (1..k) \ {k} = 1..(k - 1)
    BY <2>0, MaxOfAll
  <2>3. it[1..k] = TopStep(it[(1..k) \ {Max(1..k)}], s[Max(1..k)])
    BY <1>1, <1>5, <2>1
  <2>4. T(k) = T(k - 1) \cup {s[k]}
    <3>1. 1..k = (1..(k - 1)) \cup {k}
      BY <2>0
    <3> QED
      BY <3>1
  <2>5. Tells(it[1..(k - 1)], T(k - 1)) /\ s[k] \in TopAttr
    BY <1>1, <1>7
  <2>6. it[1..k] = TopStep(it[1..(k - 1)], s[k])
    BY <2>2, <2>3, Zenon
  <2> DEFINE old == it[1..(k - 1)]
             a == s[k]
             U == T(k - 1)
  <2> HIDE DEF old, a, U
  <2>7. Tells(TopStep(old, a), U \cup {a})
    BY <2>5, TopStepOK DEF old, a, U
  <2>8. Tells(it[1..k], T(k))
    BY <2>4, <2>6, <2>7, Zenon DEF old, a, U
  <2> HIDE DEF T
  <2> QED
    BY <2>8
<1>8. n \in P
  <2> HIDE DEF P
  <2>1. \A k \in 0..n : k \in P
    BY <1>6, <1>7, UpTo
  <2> QED
    BY <2>1
<1>9. T(n) = Range(s)
  BY <1>1 DEF Range
<1> HIDE DEF T
<1> QED
  BY <1>3, <1>8, <1>9

----------------------------------------------------------------------------
(* What the Wi-Fi parser makes of a buffer. *)

\* e is about a station or an ERROR, and comes from a frame or from one message.
Sound(e) ==
  /\ (e.type = "ERROR") <=> ~HasStation(e)
  /\ \/ \E frame \in Frames : e = try_synth(frame)
     \/ \E buf \in Buffers : \E attrs \in MessagesOf(buf) : Reports(e, attrs)

\* An event that tells what the attributes say reports them.
LEMMA TellsReports ==
  ASSUME NEW s \in Seq(TopAttr), NEW e, Tells(e, Range(s)), NEW f,
         f.has_mac = e.has_mac, f.client_mac = e.client_mac,
         f.has_signal = e.has_signal, f.signal_dbm = e.signal_dbm,
         f.has_mcs = e.has_mcs, f.mcs_index = e.mcs_index, f.tx_retries = e.tx_retries
  PROVE  Reports(f, s)
  BY Zenon DEF Tells, Knows, Reports, Signals, Retries, Rates

\* What kinds of buffers there are.
LEMMA BufferIs ==
  ASSUME NEW buf \in Buffers
  PROVE  \/ buf.bare = TRUE /\ buf.attrs \in Seq(TopAttr)
         \/ /\ buf.bare = FALSE
            /\ buf.messages \in Seq([header : Header, attrs : Seq(TopAttr)])
  BY Nl80211Assumption

\* A bare stream gives one event, with or without a station.
LEMMA BareOK ==
  ASSUME NEW buf \in Buffers, buf.bare = TRUE, buf.attrs \in Seq(TopAttr)
  PROVE  \E e \in Event : Sound(e) /\ parse_nl80211_messages(buf) = <<e>>
<1> DEFINE s == buf.attrs
           e == parse_top_attrs(BlankStation, s)
           f == IF HasStation(e) THEN e ELSE [e EXCEPT !.type = "ERROR"]
<1>1. parse_nl80211_messages(buf) = <<f>>
  BY DEF parse_nl80211_messages, parse_bare
<1>2. Tells(e, Range(s))
  BY TopAttrsOK
<1> HIDE DEF e
<1>3. e \in Event /\ e.type = "STATION"
  BY <1>2 DEF Tells, Knows
<1>4. /\ f \in Event /\ f.has_mac = e.has_mac /\ f.client_mac = e.client_mac
      /\ f.has_signal = e.has_signal /\ f.signal_dbm = e.signal_dbm
      /\ f.has_mcs = e.has_mcs /\ f.mcs_index = e.mcs_index /\ f.tx_retries = e.tx_retries
      /\ f.type = IF HasStation(e) THEN "STATION" ELSE "ERROR"
  BY <1>3 DEF Event
<1> HIDE DEF f
<1>5. Reports(f, s)
  BY <1>2, <1>4, TellsReports
<1>6. s \in MessagesOf(buf)
  BY DEF MessagesOf
<1>7. (f.type = "ERROR") <=> ~HasStation(f)
  BY <1>4 DEF HasStation
<1> HIDE DEF s
<1>8. Sound(f)
  BY <1>5, <1>6, <1>7 DEF Sound
<1> QED
  BY <1>1, <1>4, <1>8

\* The walk over messages stops at one of them.
LEMMA WalkedOK ==
  ASSUME NEW M, NEW ms \in Seq(M)
  PROVE  /\ Walked(ms) \in Seq(M)
         /\ \A i \in 1..Len(Walked(ms)) : Walked(ms)[i] \in Range(ms)
<1> DEFINE cut == {i \in 1..Len(ms) : ms[i].header = "CUT"}
           last == IF cut = {} THEN Len(ms) ELSE Min(cut) - 1
<1>1. PICK n \in Nat : n = Len(ms)
  OBVIOUS
<1>2. last \in 0..n
  <2>1. CASE cut = {}
    BY <1>1, <2>1
  <2>2. CASE cut # {}
    <3>1. cut \in SUBSET (1..n)
      BY <1>1
    <3> HIDE DEF cut
    <3>2. Min(cut) \in cut
      BY <2>2, <3>1, MinOK
    <3>3. Min(cut) \in 1..n
      BY <3>1, <3>2
    <3>4. last = Min(cut) - 1
      BY <2>2
    <3> HIDE DEF last
    <3> QED
      BY <3>3, <3>4
  <2> QED
    BY <2>1, <2>2
<1>3. Walked(ms) = SubSeq(ms, 1, last)
  BY DEF Walked
<1> HIDE DEF last
<1>4. /\ SubSeq(ms, 1, last) \in Seq(M) /\ Len(SubSeq(ms, 1, last)) = last
      /\ \A i \in 1..last : SubSeq(ms, 1, last)[i] = ms[i]
  BY <1>1, <1>2
<1>5. \A i \in 1..last : ms[i] \in Range(ms)
  BY <1>1, <1>2 DEF Range
<1> QED
  BY <1>3, <1>4, <1>5

\* One message of parse_messages.
Collect(events, msg) ==
  LET e == parse_top_attrs(BlankStation, msg.attrs)
  IN  IF msg.header # "SHORT" /\ HasStation(e) THEN Append(events, e) ELSE events

\* Framed messages give the events of those that are about a station.
LEMMA MessagesOK ==
  ASSUME NEW buf \in Buffers, buf.bare = FALSE,
         buf.messages \in Seq([header : Header, attrs : Seq(TopAttr)])
  PROVE  parse_nl80211_messages(buf) \in Seq({e \in Event : Sound(e)})
<1> DEFINE ms == buf.messages
           s == Walked(ms)
           M == [header : Header, attrs : Seq(TopAttr)]
           X == Seq({e \in Event : Sound(e)})
<1>1. PICK n \in Nat : n = Len(s) /\ DOMAIN s = 1..n
  BY WalkedOK
<1> DEFINE F == [x \in X |-> [i \in 1..n |-> Collect(x, s[i])]]
           Eq(g) == g = [D \in SUBSET DOMAIN s |->
                       IF D = {} THEN <<>> ELSE Collect(g[D \ {Max(D)}], s[Max(D)])]
           it == CHOOSE g : Eq(g)
<1>c. ASSUME NEW x \in X, NEW i \in 1..n PROVE Collect(x, s[i]) \in X
  <2> DEFINE msg == s[i]
             e == parse_top_attrs(BlankStation, msg.attrs)
  <2>1. msg \in M /\ msg \in Range(ms)
    <3>1. s \in Seq(M) /\ \A k \in 1..Len(s) : s[k] \in Range(ms)
      <4>1. ms \in Seq(M)
        OBVIOUS
      <4> HIDE DEF M, ms
      <4> QED
        BY <4>1, WalkedOK
    <3> HIDE DEF M, ms, s
    <3> QED
      BY <1>1, <3>1
  <2> HIDE DEF msg
  <2>2. msg.attrs \in Seq(TopAttr)
    BY <2>1 DEF M
  <2>3. Tells(e, Range(msg.attrs))
    BY <2>2, TopAttrsOK
  <2>4. Collect(x, msg) = IF msg.header # "SHORT" /\ HasStation(e) THEN Append(x, e) ELSE x
    BY DEF Collect
  <2> HIDE DEF e
  <2>5. e \in Event /\ e.type = "STATION"
    BY <2>3 DEF Tells, Knows
  <2>6. Reports(e, msg.attrs)
    BY <2>2, <2>3, TellsReports
  <2>7. msg.attrs \in MessagesOf(buf)
    BY <2>1 DEF MessagesOf
  <2>8. HasStation(e) => Sound(e)
    BY <2>5, <2>6, <2>7 DEF Sound
  <2>9. Collect(x, msg) \in X
    BY <2>4, <2>5, <2>8
  <2> QED
    BY <2>9 DEF msg
<1>2. F \in [X -> [1..n -> X]]
  <2> HIDE DEF X, s
  <2> QED
    BY <1>c
<1>3. parse_nl80211_messages(buf) = it[1..n]
  <2>1. parse_nl80211_messages(buf) = FoldLeft(Collect, <<>>, s)
    BY DEF parse_nl80211_messages, parse_messages, Collect, FoldLeft, MapThenFoldSet
  <2>2. FoldLeft(Collect, <<>>, s) = it[DOMAIN s]
    BY DEF FoldLeft, MapThenFoldSet
  <2> HIDE DEF it, s
  <2> QED
    BY <1>1, <2>1, <2>2
<1> HIDE DEF s
<1>4. \E g : Eq(g)
  <2>0. <<>> \in X
    OBVIOUS
  <2> HIDE DEF F, X
  <2>1. PICK g : Folds(g, X, <<>>, n, F)
    BY <1>2, <2>0, FoldExists
  <2>2. ASSUME NEW D \in SUBSET (1..n), D # {}
        PROVE  F[g[D \ {Max(D)}]][Max(D)] = Collect(g[D \ {Max(D)}], s[Max(D)])
    <3>1. Max(D) \in 1..n
      BY <1>1, <2>2, MaxOK
    <3>2. g[D \ {Max(D)}] \in X
      BY <2>1 DEF Folds
    <3> QED
      BY <3>1, <3>2 DEF F
  <2>3. \A D \in SUBSET (1..n) :
          g[D] = IF D = {} THEN <<>> ELSE Collect(g[D \ {Max(D)}], s[Max(D)])
    BY <2>1, <2>2 DEF Folds
  <2>4. Eq(g)
    BY <1>1, <2>1, <2>3 DEF Folds
  <2> HIDE DEF Eq
  <2> QED
    BY <2>4
<1>5. Eq(it)
  <2> HIDE DEF Eq
  <2> QED
    BY <1>4
<1> HIDE DEF it
<1> DEFINE P == {k \in 0..n : it[1..k] \in X}
<1>6. 0 \in P
  <2>1. 1..0 = {} /\ 1..0 \in SUBSET (1..n)
    OBVIOUS
  <2>2. it[1..0] = <<>>
    BY <1>1, <1>5, <2>1
  <2>3. <<>> \in X
    OBVIOUS
  <2> HIDE DEF X
  <2> QED
    BY <2>2, <2>3
<1>7. ASSUME NEW k \in 1..n, k - 1 \in P PROVE k \in P
  <2>0. k \in Nat \ {0}
    OBVIOUS
  <2>1. 1..k # {} /\ 1..k \in SUBSET (1..n)
    <3>1. 1 \in 1..k /\ \A i \in 1..k : i \in 1..n
      OBVIOUS
    <3> QED
      BY <3>1
  <2>2. Max(1..k) = k /\ (1..k) \ {k} = 1..(k - 1)
    BY <2>0, MaxOfAll
  <2>3. it[1..k] = Collect(it[(1..k) \ {Max(1..k)}], s[Max(1..k)])
    BY <1>1, <1>5, <2>1
  <2>4. it[1..k] = Collect(it[1..(k - 1)], s[k])
    BY <2>2, <2>3, Zenon
  <2> HIDE DEF X
  <2>5. it[1..(k - 1)] \in X
    BY <1>7
  <2> QED
    BY <1>c, <2>4, <2>5
<1>8. n \in P
  <2> HIDE DEF P
  <2>1. \A k \in 0..n : k \in P
    BY <1>6, <1>7, UpTo
  <2> QED
    BY <2>1
<1> HIDE DEF X
<1>9. it[1..n] \in X
  BY <1>8
<1> QED
  BY <1>3, <1>9 DEF X

\* Whatever is fed, the events are sound.
LEMMA FedOK ==
  ASSUME NEW buf \in Buffers
  PROVE  parse_nl80211_messages(buf) \in Seq({e \in Event : Sound(e)})
<1>1. CASE buf.bare = TRUE /\ buf.attrs \in Seq(TopAttr)
  <2>1. PICK e \in Event : Sound(e) /\ parse_nl80211_messages(buf) = <<e>>
    BY <1>1, BareOK
  <2>2. e \in {x \in Event : Sound(x)}
    BY <2>1
  <2> QED
    BY <2>1, <2>2
<1>2. CASE buf.bare = FALSE /\ buf.messages \in Seq([header : Header, attrs : Seq(TopAttr)])
  BY <1>2, MessagesOK
<1> QED
  BY <1>1, <1>2, BufferIs

\* A synthetic frame gives a station.
LEMMA FrameOK ==
  ASSUME NEW frame \in Frames
  PROVE  <<try_synth(frame)>> \in Seq({e \in Event : Sound(e)})
<1> DEFINE e == try_synth(frame)
<1>1. e = [BlankStation EXCEPT !.client_mac = frame.mac, !.signal_dbm = frame.signal,
                               !.mcs_index = frame.mcs, !.tx_retries = frame.retries,
                               !.has_mac = TRUE, !.has_signal = TRUE,
                               !.has_mcs = frame.mcs # NoMcs]
  BY DEF try_synth
<1>2. BlankStation \in Event /\ BlankStation.type = "STATION"
  BY BlankTells DEF Tells, Knows
<1>3. /\ frame.mac \in Mac /\ frame.signal \in Dbm /\ frame.mcs \in Octet
      /\ frame.retries \in Count /\ (frame.mcs # NoMcs) \in BOOLEAN
  BY Nl80211Assumption
<1>4. Sound(e) <=> ((e.type = "ERROR") <=> ~HasStation(e))
  BY DEF Sound
<1> HIDE DEF e
<1>5. e \in Event /\ e.type = "STATION" /\ e.has_mac = TRUE
  BY <1>1, <1>2, <1>3 DEF Event
<1>6. HasStation(e)
  BY <1>5 DEF HasStation
<1>7. Sound(e)
  BY <1>4, <1>5, <1>6
<1>8. e \in {x \in Event : Sound(x)}
  BY <1>5, <1>7
<1> QED
  BY <1>8 DEF e

----------------------------------------------------------------------------
(* The inductive invariant of the Wi-Fi parser. *)

Inv == TypeOK /\ \A i \in 1..ring.cnt : Sound(Contents(ring)[i])

\* At the start nothing is queued.
LEMMA InitInv == Init => Inv
<1> SUFFICES ASSUME Init PROVE Inv
  OBVIOUS
<1>1. PICK size \in QueueSizes : ring = qinit(Allocated(ZeroEvent), size)
  BY DEF Init, nl80211_parse_create_with_config
<1>2. size \in Nat /\ MaxEvents \in Nat
  BY Nl80211Assumption
<1>3. ZeroEvent \in Event
  BY DEF ZeroEvent, Event, Dbm, Octet
<1>4. ring \in Rings(Event) /\ RingOK(ring) /\ ring.cnt = 0
  BY <1>1, <1>2, <1>3, InitOK, AllocatedRaw
<1>5. TypeOK
  BY <1>2, <1>3, <1>4 DEF Init, TypeOK
<1> QED
  BY <1>4, <1>5 DEF Inv

\* A burst of sound events leaves a queue of sound events.
LEMMA BurstKeeps ==
  ASSUME Inv, NEW es \in Seq({e \in Event : Sound(e)}), PushAll(es), UNCHANGED ev
  PROVE  Inv'
<1>1. /\ ring \in Rings(Event) /\ RingOK(ring) /\ ev \in Event /\ produced \in 0..MaxEvents
      /\ MaxEvents \in Nat
  BY Nl80211Assumption DEF Inv, TypeOK
<1>2. es \in Seq(Event) /\ \A i \in 1..Len(es) : Sound(es[i])
  OBVIOUS
<1>3. PICK n \in Nat, c \in Nat, q \in Nat :
           n = Len(es) /\ c = ring.cnt /\ q = ring.qsz /\ c <= q
  BY <1>1, <1>2, RingFields
<1>4. ring' = Burst(ring, es) /\ produced' = produced + n /\ produced + n <= MaxEvents
  BY <1>3 DEF PushAll, Burst
<1> DEFINE R == ring'
<1> HIDE DEF R
<1>5. /\ R \in Rings(Event) /\ RingOK(R)
      /\ R.cnt = Min2(ring.cnt + Len(es), ring.qsz)
      /\ \A i \in 1..R.cnt :
           Contents(R)[i] = IF i <= ring.cnt THEN Contents(ring)[i] ELSE es[i - ring.cnt]
  BY <1>1, <1>2, <1>4, BurstIsCut DEF R
<1>6. ASSUME NEW i \in 1..R.cnt PROVE Sound(Contents(R)[i])
  <2>1. i \in Nat /\ i >= 1 /\ i <= c + n
    BY <1>3, <1>5 DEF Min2
  <2>2. CASE i <= c
    <3>1. Contents(R)[i] = Contents(ring)[i] /\ i \in 1..ring.cnt
      BY <1>3, <1>5, <2>1, <2>2
    <3>2. Sound(Contents(ring)[i])
      BY <3>1 DEF Inv
    <3> QED
      BY <3>1, <3>2
  <2>3. CASE ~(i <= c)
    <3>1. Contents(R)[i] = es[i - c] /\ i - c \in 1..n
      BY <1>3, <1>5, <2>1, <2>3
    <3>2. Sound(es[i - c])
      BY <1>2, <1>3, <3>1
    <3> QED
      BY <3>1, <3>2
  <2> QED
    BY <2>2, <2>3
<1>7. produced' \in 0..MaxEvents
  BY <1>1, <1>4
<1>8. ring' \in Rings(Event) /\ RingOK(ring') /\ \A i \in 1..ring'.cnt : Sound(Contents(ring')[i])
  BY <1>5, <1>6 DEF R
<1>9. TypeOK'
  BY <1>1, <1>7, <1>8 DEF TypeOK
<1> QED
  BY <1>8, <1>9 DEF Inv

\* Taking an event leaves the others.
LEMMA TakeKeeps ==
  ASSUME Inv, nl80211_parse_next_event
  PROVE  Inv'
<1>1. /\ ring \in Rings(Event) /\ RingOK(ring) /\ produced \in 0..MaxEvents
  BY DEF Inv, TypeOK
<1>2. PICK c \in Nat : c = ring.cnt
  BY <1>1, RingFields
<1>3. ring' = qpop(ring) /\ ev' = Oldest(ring) /\ produced' = produced /\ ring.cnt # 0
  BY <1>2 DEF nl80211_parse_next_event
<1>4. /\ ring' \in Rings(Event) /\ RingOK(ring') /\ ring'.cnt = c - 1 /\ Oldest(ring) \in Event
      /\ \A i \in 1..(c - 1) : Contents(ring')[i] = Contents(ring)[i + 1]
  <2> DEFINE R == ring'
  <2> HIDE DEF R
  <2>1. /\ R \in Rings(Event) /\ RingOK(R) /\ R.cnt = ring.cnt - 1 /\ Oldest(ring) \in Event
        /\ Contents(R) = Tail(Contents(ring))
    BY <1>1, <1>3, PopOK DEF R
  <2>2. Contents(ring) \in Seq(Event) /\ Len(Contents(ring)) = c
    BY <1>1, <1>2, ContentsSeq
  <2>3. \A i \in 1..(c - 1) : Contents(R)[i] = Contents(ring)[i + 1]
    BY <2>1, <2>2
  <2> QED
    BY <1>2, <2>1, <2>3 DEF R
<1>5. ASSUME NEW i \in 1..ring'.cnt PROVE Sound(Contents(ring')[i])
  <2>1. i \in 1..(c - 1) /\ i + 1 \in 1..ring.cnt
    BY <1>2, <1>4
  <2>2. Sound(Contents(ring)[i + 1])
    BY <2>1 DEF Inv
  <2> QED
    BY <1>4, <2>1, <2>2
<1>6. TypeOK'
  BY <1>1, <1>3, <1>4 DEF TypeOK
<1> QED
  BY <1>5, <1>6 DEF Inv

\* A reset leaves nothing.
LEMMA ResetKeeps ==
  ASSUME Inv, nl80211_parse_reset
  PROVE  Inv'
<1>1. /\ ring \in Rings(Event) /\ RingOK(ring) /\ ev \in Event /\ MaxEvents \in Nat
  BY Nl80211Assumption DEF Inv, TypeOK
<1>2. ring' = qinit(ring, ring.qsz) /\ produced' = 0 /\ ev' = ev
  BY DEF nl80211_parse_reset
<1>3. ring' \in Rings(Event) /\ RingOK(ring') /\ ring'.cnt = 0
  <2>1. ring \in RawRings(Event) /\ ring.qsz \in Nat
    BY <1>1, RingIsRaw, RingFields
  <2>2. /\ qinit(ring, ring.qsz) \in Rings(Event) /\ RingOK(qinit(ring, ring.qsz))
        /\ qinit(ring, ring.qsz).cnt = 0
    BY <2>1, InitOK
  <2> QED
    BY <1>2, <2>2, Zenon
<1>4. TypeOK'
  BY <1>1, <1>2, <1>3 DEF TypeOK
<1> QED
  BY <1>3, <1>4 DEF Inv

\* Every call keeps the invariant.
LEMMA NextInv == Inv /\ [Next]_vars => Inv'
<1> SUFFICES ASSUME Inv, [Next]_vars PROVE Inv'
  OBVIOUS
<1>1. ASSUME NEW buf \in Buffers, FeedBuffer(buf) PROVE Inv'
  BY <1>1, FedOK, BurstKeeps DEF FeedBuffer
<1>2. ASSUME NEW frame \in Frames, FeedSynth(frame) PROVE Inv'
  BY <1>2, FrameOK, BurstKeeps DEF FeedSynth
<1>3. CASE nl80211_parse_next_event
  BY <1>3, TakeKeeps
<1>4. CASE nl80211_parse_reset
  BY <1>4, ResetKeeps
<1>5. CASE UNCHANGED vars
  BY <1>5 DEF vars, Inv, TypeOK
<1> QED
  BY <1>1, <1>2, <1>3, <1>4, <1>5 DEF Next

LEMMA InvAlways == Spec => []Inv
  BY InitInv, NextInv, PTL DEF Spec

\* The queue of the Wi-Fi parser keeps its indices together and holds events,
\* whatever is fed, taken and reset (qinit, qpush, qpop of nl80211_parse.c).
THEOREM TypeCorrect == Spec => []TypeOK
<1>1. Inv => TypeOK
  BY DEF Inv
<1> QED
  BY <1>1, InvAlways, PTL

\* An event is an ERROR exactly if it is about no station, from a bare stream,
\* from framed messages and from a synthetic frame.
THEOREM StationsIdentified == Spec => []StationsAreIdentified
<1>1. Inv => StationsAreIdentified
  BY Zenon DEF Inv, StationsAreIdentified, Sound
<1> QED
  BY <1>1, InvAlways, PTL

\* What an event says comes from one message and is all that this message says,
\* in whatever order and however often its attributes come: nothing is left
\* over from the message before.
THEOREM StationsApart == Spec => []StationsAreNotMixed
<1>1. Inv => StationsAreNotMixed
  BY Zenon DEF Inv, StationsAreNotMixed, Sound
<1> QED
  BY <1>1, InvAlways, PTL

----------------------------------------------------------------------------
(* The queue of the Wi-Fi parser as a channel. *)

\* The events of a buffer are offered together, and those that fit are kept.
LEMMA BufferOffers ==
  ASSUME Inv, NEW es \in Seq(Event), ring' = Burst(ring, es),
         produced' = produced + Len(es), ev' = ev
  PROVE  Channel!Offer \/ UNCHANGED Channel!vars
<1>1. /\ ring \in Rings(Event) /\ RingOK(ring) /\ produced \in Nat
  BY Nl80211Assumption DEF Inv, TypeOK
<1>2. PICK n \in Nat, c \in Nat, q \in Nat :
             n = Len(es) /\ c = ring.cnt /\ q = ring.qsz /\ c <= q
  BY <1>1, RingFields
<1>3. CASE n = 0
  <2>1. PICK h : /\ h[0] = ring /\ Burst(ring, es) = h[Len(es)]
                 /\ \A k \in 1..Len(es) : h[k] = qpush(h[k - 1], es[k])
    BY <1>1, PushFold
  <2>2. ring' = ring
    BY <1>2, <1>3, <2>1
  <2>3. produced' = produced
    BY <1>1, <1>2, <1>3
  <2> QED
    BY <2>2, <2>3 DEF Channel!vars
<1>4. CASE n > 0
  <2> DEFINE R == Burst(ring, es)
  <2> HIDE DEF R
  <2>1. /\ R \in Rings(Event) /\ RingOK(R) /\ R.qsz = q /\ R.cnt = Min2(c + n, q)
        /\ \A i \in 1..R.cnt : i <= c => Contents(R)[i] = Contents(ring)[i]
    <3>1. /\ R \in Rings(Event) /\ RingOK(R) /\ R.qsz = ring.qsz
          /\ R.cnt = Min2(ring.cnt + Len(es), ring.qsz)
          /\ \A i \in 1..R.cnt :
               Contents(R)[i] = IF i <= ring.cnt THEN Contents(ring)[i] ELSE es[i - ring.cnt]
      BY <1>1, BurstIsCut DEF R
    <3> QED
      BY <1>2, <3>1
  <2>2. R = ring'
    BY DEF R
  <2>3. /\ Contents(ring') \in Seq(Event) /\ Len(Contents(ring')) = Min2(c + n, q)
        /\ ring'.qsz = q
    BY <2>1, <2>2, ContentsSeq
  <2>4. Contents(ring) \in Seq(Event) /\ Len(Contents(ring)) = c
    BY <1>1, <1>2, ContentsSeq
  <2>5. \A i \in 1..c : Contents(ring')[i] = Contents(ring)[i]
    <3>1. \A i \in 1..c : i \in 1..R.cnt /\ i <= c
      BY <1>2, <2>1 DEF Min2
    <3> QED
      BY <2>1, <2>2, <3>1
  <2>6. produced' \in Nat /\ produced' > produced /\ produced' - produced = n
    BY <1>1, <1>2, <1>4
  <2>7. \/ c + n <= q /\ Min2(c + n, q) = c + n
        \/ c + n > q /\ Min2(c + n, q) = q
    BY <1>2 DEF Min2
  <2> QED
    BY <1>2, <2>3, <2>4, <2>5, <2>6, <2>7 DEF Channel!Offer
<1> QED
  BY <1>2, <1>3, <1>4

\* The Wi-Fi parser implements EventChannel, with the stations of a buffer as
\* one offer: the burst is cut at its end, and nothing queued before is hurt.
THEOREM Refinement == Spec => KeepsEventPromise
<1>1. Init => Channel!Init
  <2> SUFFICES ASSUME Init PROVE Channel!Init
    OBVIOUS
  <2>1. PICK size \in QueueSizes : ring = qinit(Allocated(ZeroEvent), size)
    BY DEF Init, nl80211_parse_create_with_config
  <2>2. size \in Nat
    BY Nl80211Assumption
  <2>3. ZeroEvent \in Event
    BY DEF ZeroEvent, Event, Dbm, Octet
  <2>4. Contents(ring) = <<>> /\ ring.qsz \in 1..MAX_Q
    BY <2>1, <2>2, <2>3, InitOK, AllocatedRaw, ClampSizeOK
  <2>5. produced = 0 /\ ev \in Event
    BY <2>3 DEF Init
  <2> QED
    BY <2>4, <2>5, QueueAssumption DEF Channel!Init
<1>2. Inv /\ [Next]_vars => [Channel!Next]_(Channel!vars)
  <2> SUFFICES ASSUME Inv, [Next]_vars PROVE [Channel!Next]_(Channel!vars)
    OBVIOUS
  <2>0. ring \in Rings(Event) /\ RingOK(ring)
    BY DEF Inv, TypeOK
  <2>1. ASSUME NEW es \in Seq({e \in Event : Sound(e)}), PushAll(es), UNCHANGED ev
        PROVE  Channel!Next \/ UNCHANGED Channel!vars
    <3>1. es \in Seq(Event)
      OBVIOUS
    <3>2. ring' = Burst(ring, es) /\ produced' = produced + Len(es) /\ ev' = ev
      BY <2>1 DEF PushAll, Burst
    <3> QED
      BY <3>1, <3>2, BufferOffers DEF Channel!Next
  <2>2. ASSUME NEW buf \in Buffers, FeedBuffer(buf)
        PROVE  Channel!Next \/ UNCHANGED Channel!vars
    BY <2>1, <2>2, FedOK DEF FeedBuffer
  <2>3. ASSUME NEW frame \in Frames, FeedSynth(frame)
        PROVE  Channel!Next \/ UNCHANGED Channel!vars
    BY <2>1, <2>3, FrameOK DEF FeedSynth
  <2>4. CASE nl80211_parse_next_event
    <3>0. ring.cnt \in Nat
      BY <2>0, ContentsSeq
    <3>1. ring' = qpop(ring) /\ produced' = produced /\ ev' = Oldest(ring) /\ ring.cnt # 0
      BY <2>4, <3>0 DEF nl80211_parse_next_event
    <3>2. /\ Contents(ring) # <<>> /\ Oldest(ring) = Head(Contents(ring))
          /\ Contents(ring') = Tail(Contents(ring)) /\ ring'.qsz = ring.qsz
      BY <2>0, <3>1, PopOK
    <3> QED
      BY <3>1, <3>2 DEF Channel!Next, Channel!Take
  <2>5. CASE nl80211_parse_reset
    <3>1. ring' = qinit(ring, ring.qsz) /\ produced' = 0 /\ ev' = ev
      BY <2>5 DEF nl80211_parse_reset
    <3>2. ring \in RawRings(Event) /\ ring.qsz \in 1..MAX_Q /\ ring.qsz \in Nat
      BY <2>0, RingIsRaw, QueueAssumption DEF Rings
    <3>3. Contents(ring') = <<>> /\ ring'.qsz = ring.qsz
      BY <3>1, <3>2, InitOK, ClampSizeFixed
    <3> QED
      BY <3>1, <3>3 DEF Channel!Next, Channel!Clear
  <2>6. CASE UNCHANGED vars
    BY <2>6 DEF vars, Channel!vars
  <2> QED
    BY <2>2, <2>3, <2>4, <2>5, <2>6 DEF Next
<1> QED
  BY <1>1, <1>2, InvAlways, PTL DEF Spec, Channel!Spec, KeepsEventPromise
=============================================================================
