CONSTANT Scripts <- MC_Scripts
SPECIFICATION Spec
INVARIANT ExactlyOneReplyPerMessage
CHECK_DEADLOCK FALSE
