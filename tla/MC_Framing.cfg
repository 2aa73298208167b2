CONSTANTS
  Scripts <- MC_Scripts
  MaxToken <- MC_MaxToken
SPECIFICATION Spec
INVARIANT TokensMatchFrames TooLongOnlyForOversizedFrame
CHECK_DEADLOCK FALSE
