------------------------ MODULE MC_StorageLifecycle ------------------------
(***************************************************************************)
(* Two runs that have the same name in turn, two storage commands.         *)
(***************************************************************************)
EXTENDS StorageLifecycle, TLC

CONSTANTS c1, c2, s

\* The commands differ in nothing.
MCSymmetry == Permutations({c1, c2})

\* Once two processes have met on the one run id, no property but PinProtects
\* says anything more; what follows is left out of the runs that use this.
MCApart == contended = {}
=============================================================================
