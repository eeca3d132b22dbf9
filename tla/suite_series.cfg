SPECIFICATION ProgressSpec
CONSTANTS
  Tasks <- MCTasks
  TaskPos <- MCTaskPos
  Rows <- MCRows
  RowPos <- MCRowPos
  RowName <- MCRowName
  LocalRows <- MCLocalRows
  CloudParallelism = 2
  NoRow = NoRow
  Faults = {"row"}
  MaxStarts = 2
INVARIANTS
  LocalSeries
  ProgressIsTrue
CHECK_DEADLOCK FALSE
