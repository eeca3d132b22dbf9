SPECIFICATION Spec
CONSTANTS
  r1 = r1
  r2 = r2
  r3 = r3
  Requests <- MCRequests
  MaxStages = 2
  MaxLost = 1
  Faults = {"stray", "write"}
SYMMETRY MCSymmetry
INVARIANTS
  TypeOK
  TraceIsTrue
  NoFalseAlarm
  TornIsNoticed
CHECK_DEADLOCK FALSE
