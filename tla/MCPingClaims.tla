---------------------------- MODULE MCPingClaims ----------------------------
EXTENDS PingClaims
MCQueueSizes == {1}
=============================================================================
