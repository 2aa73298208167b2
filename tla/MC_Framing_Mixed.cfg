CONSTANTS
  Scripts <- MC_MixedScripts
  MaxToken <- MC_MaxTokenTwoFrames
SPECIFICATION Spec
INVARIANT TokensMatchFrames
CHECK_DEADLOCK FALSE
