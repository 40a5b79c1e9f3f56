--------------------------- MODULE MCRuntimeStore ---------------------------
(* The small instances on which TLC checks RuntimeStore. *)
EXTENDS RuntimeStore, TLC

CONSTANTS npm, node

\* Three versions; the newer two share a prefix.
MCWants == {{1}, {2, 3}}

\* An entry that the oldest lacks.
MCProvides == (1 :> {node}) @@ (2 :> {node, npm}) @@ (3 :> {node, npm})
=============================================================================
