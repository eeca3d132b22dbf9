SPECIFICATION Spec
CONSTANTS
  Rows = {r1, r2}
  Stages = 2
  Kinds <- MCParsedKinds
  Vibe = vibe
INVARIANTS PublishedIsNoLog
CHECK_DEADLOCK FALSE
