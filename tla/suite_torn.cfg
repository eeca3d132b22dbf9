SPECIFICATION Spec
CONSTANTS
  Tasks <- MCTasks
  TaskPos <- MCTaskPos
  Rows <- MCSmallRows
  RowPos <- MCSmallRowPos
  RowName <- MCSmallName
  LocalRows <- MCSmallLocal
  CloudParallelism = 1
  NoRow = NoRow
  Faults = {"crash"}
  MaxStarts = 1
INVARIANTS InterruptedRunResumes
CHECK_DEADLOCK FALSE
