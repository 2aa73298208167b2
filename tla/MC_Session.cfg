CONSTANT Scripts <- MC_Scripts
SPECIFICATION Spec
INVARIANT AuthorizeBeforeExecute
INVARIANT NoUseAfterRelease
PROPERTY SessionTerminates
CHECK_DEADLOCK FALSE
