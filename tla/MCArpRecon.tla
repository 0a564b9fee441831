----------------------------- MODULE MCArpRecon -----------------------------
(* ArpRecon with a table one reply smaller than the replies heard.         *)
EXTENDS ArpRecon
LOCAL INSTANCE SequencesExt

MCQueueSizes == {0, MAX_Q + 1}

\* Every queue.
SomeQueues ==
  {r \in [qsz : 1..MAX_Q, q : {[i \in Slots |-> ReplyEvent(CHOOSE m \in Mac : TRUE, 0)]},
          head : Slots, tail : Slots, cnt : 0..MAX_Q] : RingOK(r)}

(* PushSpoofs does what the loop of the code does: as many qpush calls as  *)
(* there are conflicts, for every state of the queue.                      *)
ASSUME SpoofsAreQpushCalls ==
  \A r \in SomeQueues, k \in 0..(MAX_Q + 1) :
    PushSpoofs(r, k) = FoldLeft(qpush, r, [i \in 1..k |-> SpoofEvent])
=============================================================================
