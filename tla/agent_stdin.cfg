SPECIFICATION Spec
CONSTANTS
  Budget = 2
  Tools <- MCTools
INVARIANTS SliceTimeoutIsNoError
CHECK_DEADLOCK FALSE
