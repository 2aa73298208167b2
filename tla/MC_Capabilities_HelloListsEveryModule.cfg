CONSTANTS
  s1 = s1  s2 = s2  m1 = m1  m2 = m2
  Sessions <- MC_Sessions
  Modules <- MC_Modules
SYMMETRY Symmetry
SPECIFICATION Spec
INVARIANT HelloListsEveryModule
CHECK_DEADLOCK FALSE
