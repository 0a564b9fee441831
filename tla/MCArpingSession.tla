-------------------------- MODULE MCArpingSession --------------------------
(* ArpingSession with queues smaller and as large as the replies heard.    *)
EXTENDS ArpingSession

MCQueueSizes == {0, MAX_Q}
=============================================================================
