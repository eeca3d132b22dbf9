SPECIFICATION FairSpec
CONSTANTS
  Stages = 3
  Faults = {"network", "raise", "crash", "undeletable"}
  MaxRuns = 2
INVARIANTS
  TypeOK
  CleanWorkspace
  StagePolicy
  SolvedIsReal
  ResultAfterArchive
  JudgesComplete
PROPERTIES RowEnds
CHECK_DEADLOCK FALSE
