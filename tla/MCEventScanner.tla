--------------------------- MODULE MCEventScanner ---------------------------
EXTENDS EventScanner

MCFailingCalls == RpcCalls
=============================================================================
