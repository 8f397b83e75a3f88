---------------------------- MODULE MC_RunLock -----------------------------
(***************************************************************************)
(* A fresh run in one process, its continues in another.  Either pid can   *)
(* die and be given to somebody else.                                      *)
(***************************************************************************)
EXTENDS RunLock, TLC

CONSTANTS f, c1, c2, p, q

MCPidOf == [a \in Attempt |-> IF a = f THEN p ELSE q]

\* The continues differ in nothing.
MCSymmetry == Permutations({c1, c2})
=============================================================================
