SPECIFICATION FairSpec
CONSTANTS
  Models = {"m1", "m2"}
  Attempts = 2
  Procs = {1, 2, 3}
  Faults = {"crash", "exit"}
INVARIANTS OneProxy
PROPERTIES
  ReadyIsMine
  StartEnds
CHECK_DEADLOCK FALSE
