CONSTANT Scripts <- MC_Scripts
SPECIFICATION Spec
INVARIANT NoRpcWithoutHello
CHECK_DEADLOCK FALSE
