--------------------------- MODULE MCTaskExecutor ---------------------------
(* Instances of TaskExecutor for TLC.                                      *)
EXTENDS TaskExecutor

CONSTANTS a, b, c, g1, g2

\* a and b share a group; c is alone, of high priority, and ordered last by id.
MCGroupOf == [t \in Tasks |-> IF t = c THEN g2 ELSE g1]
MCRank == [t \in Tasks |-> IF t = c THEN 0 ELSE 1]
MCIdOrder == [t \in Tasks |-> CASE t = a -> 1 [] t = b -> 2 [] t = c -> 3]

\* Only a retries, once.
MCMaxRetries == [t \in Tasks |-> IF t = a THEN 1 ELSE 0]

\* A limit of zero, which the code raises to one.
ZeroInG1 == [g \in {g1} |-> 0]
=============================================================================
