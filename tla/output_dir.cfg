SPECIFICATION Spec
CONSTANTS Tasks = {t1, t2}
INVARIANTS
  TypeOK
  ExcludedNotScored
  ReportsAgree
  CompleteIsScored
  OracleAnswers
