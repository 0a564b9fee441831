---------------------------- MODULE MCTraceroute ----------------------------
(* Traceroute with a number for each of two hops and one beyond the hop    *)
(* table, which shares the last hop.  The queue has two slots or one.      *)
EXTENDS Traceroute

MCSeqNo == {1, 2, MAX_HOPS + 1}
MCQueueSizes == {0, 1}
=============================================================================
