------------------------------- MODULE MCPing -------------------------------
(* Ping with the queue sizes that reach every case of the clamp: 0 (the    *)
(* default), 1, the array size and one beyond it.                          *)
EXTENDS Ping

MCQueueSizes == {0, 1, MAX_Q + 1}
=============================================================================
