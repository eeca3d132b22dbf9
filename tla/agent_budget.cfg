SPECIFICATION FairSpec
CONSTANTS
  Budget = 3
  Tools <- MCTools
INVARIANTS
  TypeOK
  NothingPendingAfterReturn
PROPERTIES BudgetEndsStage
CHECK_DEADLOCK FALSE
