---------------------------- MODULE MC_RunWatch ----------------------------
(***************************************************************************)
(* A fresh run in one process, its continues in another.  Either pid can   *)
(* die and be given to somebody else.                                      *)
(***************************************************************************)
EXTENDS RunWatch

CONSTANTS f, c1, p, q

MCPidOf == [a \in Attempt |-> IF a = f THEN p ELSE q]
=============================================================================
