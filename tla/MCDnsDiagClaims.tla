-------------------------- MODULE MCDnsDiagClaims --------------------------
EXTENDS DnsDiagClaims
MCQueueSizes == {0}
=============================================================================
