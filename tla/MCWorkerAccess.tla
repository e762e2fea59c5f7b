--------------------------- MODULE MCWorkerAccess ---------------------------
EXTENDS WorkerAccess, TLC
CONSTANTS p1, p2
\* Every ticket is of the first scope: the binding to the second one is for the lists that refuse.
McScopeOf == [t \in Tickets |-> p1]
=============================================================================
