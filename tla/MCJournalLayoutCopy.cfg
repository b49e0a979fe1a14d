CONSTANTS
  JE_MAX_LEN = 48
  LINE = 64
  EXTENT = 5
  Addresses <- WordAddresses
  Lengths <- EdgeLengths
  CopyTargets = {300}
  MaxCalls = 1
SPECIFICATION Spec
CHECK_DEADLOCK FALSE
INVARIANT WritesAreLogged
