------------------------ MODULE MCTracerouteClaims --------------------------
EXTENDS TracerouteClaims
MCSeqNo == {1}
MCQueueSizes == {0}
=============================================================================
