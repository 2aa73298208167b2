------------------------- MODULE MC_DatastoreLock -------------------------
(* Small instance of DatastoreLock for TLC. *)
EXTENDS DatastoreLock, TLC

CONSTANTS s1, s2, p1, p2

MC_Sessions == {s1, s2}
MC_Paths == {p1, p2}
(* The tags an edit-config may carry; replace stands for the ones the *)
(* apply loop rejects.                                                *)
MC_EditOps == {"merge", "replace"}

Symmetry == Permutations(MC_Sessions) \cup Permutations(MC_Paths)
=============================================================================
