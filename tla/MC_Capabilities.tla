------------------------- MODULE MC_Capabilities -------------------------
EXTENDS Capabilities, TLC

CONSTANTS s1, s2, m1, m2

MC_Sessions == {s1, s2}
MC_Modules == {m1, m2}

Symmetry == Permutations(MC_Sessions) \cup Permutations(MC_Modules)
=============================================================================
