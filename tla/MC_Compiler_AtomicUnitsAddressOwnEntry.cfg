CONSTANTS
  Docs <- MC_Docs
  KeyMap <- MC_KeyMap
INIT Init
NEXT Next
INVARIANT AtomicUnitsAddressOwnEntry
CHECK_DEADLOCK FALSE
