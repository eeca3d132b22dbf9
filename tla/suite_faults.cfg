SPECIFICATION FairSpec
CONSTANTS
  Tasks <- MCOneTask
  TaskPos <- MCOnePos
  Rows <- MCNamesRows
  RowPos <- MCNamesPos
  RowName <- MCNamesakes
  LocalRows <- MCNamesLocal
  CloudParallelism = 0
  NoRow = NoRow
  Faults = {"row", "write", "interrupt", "crash"}
  MaxStarts = 2
INVARIANTS
  TypeOK
  DuplicatesOnlyFromWriteFault
  SuccessIsComplete
  ProxyServesActiveRow
  NoOrphanProxy
PROPERTIES
  Terminates
  NoStartAfterAbort
  LedgerRefinement
CHECK_DEADLOCK FALSE
