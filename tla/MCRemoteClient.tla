--------------------------- MODULE MCRemoteClient ---------------------------
EXTENDS RemoteClient, TLC

CONSTANTS k1, k2, k3

\* One goroutine calls twice.
CallsEach == [k \in Caller |-> IF k = k1 THEN 2 ELSE 1]
=============================================================================
