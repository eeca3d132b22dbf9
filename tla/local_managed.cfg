SPECIFICATION Spec
CONSTANTS
  Suites <- MCPoolSuites
  TaskCount = 2
  UserServers <- MCPoolUser
  Faults = {"start", "stop", "task", "die", "cloud", "interrupt"}
INVARIANTS
  TypeOK
  RightServer
  AgentMeetsItsModel
  OneManagedServer
  CleansUp
CHECK_DEADLOCK FALSE
