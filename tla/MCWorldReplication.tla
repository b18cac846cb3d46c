------------------------- MODULE MCWorldReplication -------------------------
(***************************************************************************)
(* Symmetry for WorldReplication.                                          *)
(***************************************************************************)
EXTENDS WorldReplication, TLC

\* Objects differ only in their addresses, and values only in being different;
\* no liveness is checked.
Symmetry == Permutations(GameObjects) \cup Permutations(Values)
=============================================================================
