------------------------------ MODULE MCServer ------------------------------
(***************************************************************************)
(* Small worlds for Server.                                                *)
(***************************************************************************)
EXTENDS Server, TLC

CONSTANTS c1, c2, c3, r1, r2, b1, b2

ThreeConnections == {c1, c2, c3}
TwoConnections == {c1, c2}

\* Connections, ids and bodies are interchangeable.
Interchangeable == Permutations(Connection) \cup Permutations(RequestId)
                       \cup Permutations(Body)
=============================================================================
