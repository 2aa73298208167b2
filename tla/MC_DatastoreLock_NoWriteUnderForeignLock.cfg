CONSTANTS
  s1 = s1
  s2 = s2
  p1 = p1
  p2 = p2
  NoLock = NoLock
  None = None
  Sessions <- MC_Sessions
  Paths <- MC_Paths
  EditOps <- MC_EditOps
SYMMETRY Symmetry
SPECIFICATION Spec
PROPERTY NoWriteUnderForeignLock
