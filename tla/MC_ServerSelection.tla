------------------------- MODULE MC_ServerSelection -------------------------
EXTENDS ServerSelection, TLC

CONSTANTS a, b, c, d

MC_Servers == {a, b, c, d}
MC_Priorities == {1, 2, 3}

(* Pools whose servers' parsed priorities are pairwise distinct. *)
MC_InitDistinct == Init /\ IsInjective([s \in Range(keys) |-> prio[s]])

MC_SpecDistinct == MC_InitDistinct /\ [][Next]_vars

Symmetry == Permutations(MC_Servers)
=============================================================================
