---------------------- MODULE MC_DatastoreLockProofs ----------------------
(* The inductive invariant of DatastoreLockProofs, checked by TLC. *)
EXTENDS DatastoreLockProofs, TLC

CONSTANTS s1, s2, p1, p2

MC_Sessions == {s1, s2}
MC_Paths == {p1, p2}
MC_EditOps == {"merge", "replace"}

Symmetry == Permutations(MC_Sessions) \cup Permutations(MC_Paths)
=============================================================================
