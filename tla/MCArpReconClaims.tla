-------------------------- MODULE MCArpReconClaims --------------------------
EXTENDS ArpReconClaims
MCQueueSizes == {0}
=============================================================================
