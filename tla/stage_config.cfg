SPECIFICATION Spec
CONSTANTS
  Rows = {r1, r2}
  Stages = 2
  Kinds <- MCKinds
  Vibe = vibe
INVARIANTS
  OwnConfigIsUsed
  VibeAloneIsRight
  LocalRowsUseTheProxy
CHECK_DEADLOCK FALSE
