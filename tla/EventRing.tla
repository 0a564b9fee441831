----------------------------- MODULE EventRing -----------------------------
(***************************************************************************)
(* The event queue that every context of libnetdiag embeds (fields qsz, q, *)
(* head, tail, cnt and the static functions qinit, qpush, qpop, which each *)
(* source file repeats with the same text).  A queue is a record value;    *)
(* the modules of the components keep it in a variable and update it with  *)
(* the operators below.                                                    *)
(*                                                                         *)
(* The array q always has MAX_Q slots; qsz <= MAX_Q of them are used.      *)
(* qinit does not clear the slots, so stale events stay in them: the       *)
(* contents of a queue are the cnt slots that start at head.               *)
(***************************************************************************)
EXTENDS Integers, Sequences

CONSTANTS MAX_Q,      \* slots of the array: 32 in every source file
          DEFAULT_Q   \* size used for a configured 0: 8 (16 in the CPE parsers)

ASSUME QueueAssumption == /\ MAX_Q \in Nat \ {0}
                          /\ DEFAULT_Q \in 1..MAX_Q

Slots == 0..(MAX_Q - 1)

Min2(a, b) == IF a <= b THEN a ELSE b

\* A context comes from calloc: every field and every slot is zero.
Allocated(zeroEvent) ==
  [qsz |-> 0, q |-> [i \in Slots |-> zeroEvent], head |-> 0, tail |-> 0, cnt |-> 0]

(* Mutant: the configured size is not clamped to the array. *)
NoUpperClamp(s) == IF s = 0 THEN DEFAULT_Q ELSE s

\* qsz = s ? s : 8; if (qsz > MAX_Q) qsz = MAX_Q;
ClampSize(s) == Min2(IF s = 0 THEN DEFAULT_Q ELSE s, MAX_Q)

(* Mutant: reset forgets the tail index. *)
KeepTail(r, s) ==
  [qsz |-> ClampSize(s), q |-> r.q, head |-> 0, tail |-> r.tail, cnt |-> 0]

\* The slots keep what is in them.
qinit(r, s) ==
  [qsz |-> ClampSize(s), q |-> r.q, head |-> 0, tail |-> 0, cnt |-> 0]

(* Mutant: a full queue overwrites its oldest slot and keeps counting. *)
PushWhenFull(r, e) ==
  [qsz |-> r.qsz, q |-> [r.q EXCEPT ![r.tail] = e], head |-> r.head,
   tail |-> (r.tail + 1) % r.qsz, cnt |-> r.cnt + 1]

\* A full queue drops the new event: qpush returns -1 and no caller looks.
qpush(r, e) ==
  IF r.cnt >= r.qsz THEN r
  ELSE [qsz |-> r.qsz, q |-> [r.q EXCEPT ![r.tail] = e], head |-> r.head,
        tail |-> (r.tail + 1) % r.qsz, cnt |-> r.cnt + 1]

\* The event that qpop copies to its caller; only read when cnt > 0.
Oldest(r) == r.q[r.head]

(* Mutant: the head index runs through the array and not through qsz slots. *)
PopModArray(r) ==
  IF r.cnt = 0 THEN r
  ELSE [qsz |-> r.qsz, q |-> r.q, head |-> (r.head + 1) % MAX_Q,
        tail |-> r.tail, cnt |-> r.cnt - 1]

(* Mutant: equal indices are taken for an empty queue. *)
HeadMeetsTail(r) ==
  IF r.head = r.tail THEN r
  ELSE [qsz |-> r.qsz, q |-> r.q, head |-> (r.head + 1) % r.qsz,
        tail |-> r.tail, cnt |-> r.cnt - 1]

qpop(r) ==
  IF r.cnt = 0 THEN r
  ELSE [qsz |-> r.qsz, q |-> r.q, head |-> (r.head + 1) % r.qsz,
        tail |-> r.tail, cnt |-> r.cnt - 1]

----------------------------------------------------------------------------
(* What the queue holds, oldest event first. *)
Contents(r) == [i \in 1..r.cnt |-> r.q[(r.head + i - 1) % r.qsz]]

\* Queues over a set of events whose four indices fit together.
Rings(Event) ==
  [qsz : 1..MAX_Q, q : [Slots -> Event], head : Slots, tail : Slots, cnt : 0..MAX_Q]

RingOK(r) ==
  /\ r.head < r.qsz
  /\ r.tail < r.qsz
  /\ r.cnt <= r.qsz
  /\ r.tail = (r.head + r.cnt) % r.qsz

\* A reader of a queue that drops events: s is t with some elements left out.
SubsequenceOf(s, t) ==
  \E f \in [1..Len(s) -> 1..Len(t)] :
    /\ \A i, j \in 1..Len(s) : i < j => f[i] < f[j]
    /\ \A i \in 1..Len(s) : s[i] = t[f[i]]
============================================================================
