----------------------------- MODULE MCDnsDiag -----------------------------
(* DnsDiag with queues smaller and larger than the messages fed.           *)
EXTENDS DnsDiag

MCQueueSizes == {0, MAX_Q + 1}
=============================================================================
