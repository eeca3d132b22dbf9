--------------------------- MODULE OutputDir_proofs ---------------------------
(***************************************************************************)
(* The reports of an output directory, for every set of tasks and every      *)
(* sequence of commands, exclusion lists and kills: what is excluded is not  *)
(* scored, a run that returned leaves reports that agree with results.json   *)
(* and miss nothing, and check-task answers what its validators found.       *)
(***************************************************************************)
EXTENDS OutputDir, TLAPS

LEMMA ExaminedType ==
  \A accepts \in BOOLEAN : \A e \in Examined(accepts) : e.ok \in BOOLEAN /\ e.built \in BOOLEAN
<1> SUFFICES ASSUME NEW accepts \in BOOLEAN, NEW e \in Examined(accepts)
             PROVE  e.ok \in BOOLEAN /\ e.built \in BOOLEAN
  OBVIOUS
<1>1. CASE e = [ok |-> accepts, built |-> TRUE]
  BY <1>1, Zenon
<1>2. CASE e = [ok |-> FALSE, built |-> FALSE]
  BY <1>2
<1> QED
  BY <1>1, <1>2 DEF Examined

LEMMA TypesStep == TypeOK /\ [Next]_vars => TypeOK'
<1> SUFFICES ASSUME TypeOK, [Next]_vars PROVE TypeOK'
  OBVIOUS
<1> USE DEF TypeOK, Report, RowStates, suiteVars, checkVars, Written
<1>1. CASE UNCHANGED vars
  BY <1>1 DEF vars
<1>2. ASSUME NEW resume \in BOOLEAN, NEW ids \in SUBSET Tasks, RunSuite(resume, ids)
      PROVE  TypeOK'
  BY <1>2 DEF RunSuite, Normalized, NoRows, Todo, NoCheck, Verdicts
<1>3. CASE RunSuiteFails
  BY <1>3 DEF RunSuiteFails, NoSuite, Forget, NoRows
<1>T. CASE Truncate
  <2>1. results' \in [torn : BOOLEAN, by : SUBSET Tasks, rows : [Tasks -> RowStates]]
    BY <1>T DEF Truncate
  <2>2. md' \in Report /\ csv' \in Report /\ csv'.by # "check"
    BY <1>T DEF Truncate, Half
  <2>3. oracle' \in {"none", "half", "ok", "bad"}
    BY <1>T DEF Truncate
  <2> QED
    BY <1>T, <2>1, <2>2, <2>3 DEF Truncate
<1>N. CASE WriteNormalized
  <2>1. results' \in [torn : BOOLEAN, by : SUBSET Tasks, rows : [Tasks -> RowStates]]
    BY <1>N DEF WriteNormalized
  <2> QED
    BY <1>N, <2>1 DEF WriteNormalized
<1>4. CASE RowDone
  BY <1>4 DEF RowDone
<1>5. CASE WriteResults
  <2>1. Annotated(runRows) \in [Tasks -> RowStates]
    BY DEF Annotated
  <2>2. results' \in [torn : BOOLEAN, by : SUBSET Tasks, rows : [Tasks -> RowStates]]
    BY <1>5, <2>1 DEF WriteResults
  <2> QED
    BY <1>5, <2>2 DEF WriteResults
<1>M. CASE WriteMd
  BY <1>M DEF WriteMd, SuiteReport, Scored
<1>6. CASE WriteCsv
  BY <1>6 DEF WriteCsv, SuiteReport, Annotated, Scored, Present, Forget, NoRows
<1>7. ASSUME NEW known \in [base : BOOLEAN, fixed : BOOLEAN], CheckTask(known) PROVE TypeOK'
  BY <1>7 DEF CheckTask, NoSuite, Forget, NoRows, Verdicts
<1>8. CASE CheckBase \/ CheckFixed
  <2>1. \A accepts \in BOOLEAN : \A e \in Examined(accepts) :
          e.ok \in BOOLEAN /\ e.built \in BOOLEAN
    BY ExaminedType
  <2>2. verdict' \in Verdicts
    <3>1. truth.base \in BOOLEAN /\ truth.fixed \in BOOLEAN
      OBVIOUS
    <3>2. CASE CheckBase
      BY <3>1, <3>2, <2>1 DEF CheckBase, Verdicts
    <3>3. CASE CheckFixed
      BY <3>1, <3>3, <2>1 DEF CheckFixed, Verdicts
    <3> QED
      BY <1>8, <3>2, <3>3
  <2> QED
    BY <1>8, <2>2 DEF CheckBase, CheckFixed
<1>9. CASE WriteOracle \/ WriteCheckMd
  <2>1. CASE WriteOracle
    BY <2>1 DEF WriteOracle
  <2>2. CASE WriteCheckMd
    <3>1. md' \in Report
      BY <2>2 DEF WriteCheckMd
    <3> QED
      BY <2>2, <3>1 DEF WriteCheckMd
  <2> QED
    BY <1>9, <2>1, <2>2
<1>10. CASE ExportPublic
  BY <1>10 DEF ExportPublic, PublicScored, Present
<1>11. CASE Dies
  BY <1>11 DEF Dies, NoSuite, Forget, NoCheck, NoRows, Verdicts
<1> QED
  BY <1>1, <1>2, <1>3, <1>T, <1>N, <1>4, <1>5, <1>M, <1>6, <1>7, <1>8, <1>9, <1>10, <1>11 DEF Next

LEMMA TypesInit == Init => TypeOK
<1> SUFFICES ASSUME Init PROVE TypeOK
  OBVIOUS
<1>1. results \in [torn : BOOLEAN, by : SUBSET Tasks, rows : [Tasks -> RowStates]]
  BY DEF Init, RowStates
<1> QED
  BY <1>1 DEF Init, TypeOK, Report, NoReport, NoRows, RowStates, Verdicts

\* Type correctness of the commands.
THEOREM OutputTypeCorrect == Spec => []TypeOK
BY TypesInit, TypesStep, PTL DEF Spec

-----------------------------------------------------------------------------
\* A row whose task was excluded by the writer of results.json carries its flag,
\* and normalising the rows keeps it.
FlagsStay ==
  /\ \A t \in results.by : results.rows[t] \in {"none", "flagged"}
  /\ pc = "normalize" => \A t \in results.by : runRows[t] \in {"none", "flagged"}

LEMMA AnnotatedExcludes ==
  ASSUME TypeOK
  PROVE  /\ \A t \in excluded : Annotated(runRows)[t] \in {"none", "flagged"}
         /\ Scored(Annotated(runRows)) \cap excluded = {}
BY DEF TypeOK, Annotated, Scored, Present, RowStates

LEMMA FlagsStayStep ==
  TypeOK /\ FlagsStay /\ ExcludedNotScored /\ [Next]_vars => FlagsStay' /\ ExcludedNotScored'
<1> SUFFICES ASSUME TypeOK, FlagsStay, ExcludedNotScored, [Next]_vars
             PROVE  FlagsStay' /\ ExcludedNotScored'
  OBVIOUS
<1> USE DEF FlagsStay, ExcludedNotScored, suiteVars, checkVars, Written
<1>1. CASE UNCHANGED vars
  BY <1>1 DEF vars
<1>2. ASSUME NEW resume \in BOOLEAN, NEW ids \in SUBSET Tasks, RunSuite(resume, ids)
      PROVE  FlagsStay' /\ ExcludedNotScored'
  <2>1. results'.by = results.by /\ results'.rows = results.rows
    BY <1>2 DEF RunSuite, TypeOK
  <2>2. pc' = "normalize" => runRows' = Normalized(results.rows)
    BY <1>2 DEF RunSuite
  <2> QED
    BY <1>2, <2>1, <2>2 DEF RunSuite, Normalized, TypeOK
<1>3. CASE RunSuiteFails \/ WriteNormalized
  BY <1>3 DEF RunSuiteFails, WriteNormalized, TypeOK
<1>T. CASE Truncate
  BY <1>T DEF Truncate, Half, TypeOK
<1>4. CASE RowDone
  BY <1>4 DEF RowDone, TypeOK
<1>5. CASE WriteResults
  BY <1>5, AnnotatedExcludes DEF WriteResults
<1>6. CASE WriteMd
  BY <1>6, AnnotatedExcludes DEF WriteMd, SuiteReport
<1>7. CASE WriteCsv
  BY <1>7, AnnotatedExcludes DEF WriteCsv, SuiteReport
<1>8. ASSUME NEW known \in [base : BOOLEAN, fixed : BOOLEAN], CheckTask(known)
      PROVE FlagsStay' /\ ExcludedNotScored'
  BY <1>8 DEF CheckTask
<1>9. CASE CheckBase \/ CheckFixed
  BY <1>9 DEF CheckBase, CheckFixed
<1>10. CASE WriteOracle \/ WriteCheckMd
  BY <1>10 DEF WriteOracle, WriteCheckMd
<1>11. CASE ExportPublic
  BY <1>11 DEF ExportPublic, PublicScored, Present
<1>12. CASE Dies
  BY <1>12 DEF Dies
<1> QED
  BY <1>1, <1>2, <1>3, <1>T, <1>4, <1>5, <1>6, <1>7, <1>8, <1>9, <1>10, <1>11, <1>12 DEF Next

\* No report and no published record counts a task its suite excluded.
THEOREM ExclusionsHold == Spec => []ExcludedNotScored
<1>1. Init => FlagsStay /\ ExcludedNotScored
  BY DEF Init, FlagsStay, ExcludedNotScored, NoReport
<1> QED
  BY <1>1, TypesInit, TypesStep, FlagsStayStep, PTL DEF Spec

-----------------------------------------------------------------------------
\* What run-suite has reached at each step of writing its artifacts.
Writing == pc \in {"run", "results", "md", "csv"}
Reported ==
  /\ Writing \/ pc = "normalize" => \A t \in Tasks \ excluded : t \in work \/ runRows[t] # "none"
  /\ Writing /\ exit = "ok" => work = {}
  /\ pc \in {"md", "csv"} =>
       results = [torn |-> FALSE, by |-> excluded, rows |-> Annotated(runRows)]
  /\ pc = "csv" => md = SuiteReport
  /\ pc \in {"run", "normalize"} => exit = "none"

LEMMA ScoredUnflagged ==
  ASSUME TypeOK, \A t \in Tasks \ excluded : runRows[t] # "none"
  PROVE  Scored(Annotated(runRows)) =
           {t \in Tasks \ excluded : Annotated(runRows)[t] # "flagged"}
BY DEF TypeOK, Annotated, Scored, Present, RowStates

LEMMA ReportedStep ==
  TypeOK /\ Reported /\ ReportsAgree /\ CompleteIsScored /\ [Next]_vars
    => Reported' /\ ReportsAgree' /\ CompleteIsScored'
<1> SUFFICES ASSUME TypeOK, Reported, ReportsAgree, CompleteIsScored, [Next]_vars
             PROVE  Reported' /\ ReportsAgree' /\ CompleteIsScored'
  OBVIOUS
<1> USE DEF Reported, Writing, ReportsAgree, CompleteIsScored, suiteVars, checkVars, Written
<1>1. CASE UNCHANGED vars
  BY <1>1 DEF vars, SuiteReport, Annotated, Scored
<1>2. ASSUME NEW resume \in BOOLEAN, NEW ids \in SUBSET Tasks, RunSuite(resume, ids)
      PROVE  Reported' /\ ReportsAgree' /\ CompleteIsScored'
  BY <1>2 DEF RunSuite, Todo, Present
<1>3. CASE RunSuiteFails
  BY <1>3 DEF RunSuiteFails
<1>T. CASE Truncate
  BY <1>T DEF Truncate, SuiteReport, Annotated, Scored, Present
<1>4. CASE WriteNormalized
  BY <1>4 DEF WriteNormalized
<1>5. CASE RowDone
  BY <1>5 DEF RowDone, TypeOK
<1>6. CASE WriteResults
  BY <1>6 DEF WriteResults, Annotated, Present
<1>7. CASE WriteMd
  BY <1>7 DEF WriteMd, SuiteReport, Annotated, Scored, Present
<1>8. CASE WriteCsv
  <2>1. CASE exit = "none"
    BY <1>8, <2>1 DEF WriteCsv
  <2>2. CASE exit # "none"
    <3>1. /\ ~results'.torn /\ csv' = SuiteReport /\ md' = SuiteReport
          /\ results'.rows = Annotated(runRows) /\ pc' = "idle" /\ exit' = exit
          /\ excluded' = excluded
      BY <1>8, <2>2 DEF WriteCsv
    <3>2. exit = "ok" => \A t \in Tasks \ excluded : runRows[t] # "none"
      BY <1>8 DEF WriteCsv
    <3>3. ReportsAgree'
      BY <3>1 DEF SuiteReport, Scored
    <3>4. CompleteIsScored'
      BY <3>1, <3>2, ScoredUnflagged DEF SuiteReport
    <3> QED
      BY <3>1, <3>3, <3>4
  <2> QED
    BY <2>1, <2>2
<1>9. ASSUME NEW known \in [base : BOOLEAN, fixed : BOOLEAN], CheckTask(known)
      PROVE  Reported' /\ ReportsAgree' /\ CompleteIsScored'
  BY <1>9 DEF CheckTask
<1>10. CASE CheckBase \/ CheckFixed
  BY <1>10 DEF CheckBase, CheckFixed
<1>11. CASE WriteOracle \/ WriteCheckMd
  BY <1>11 DEF WriteOracle, WriteCheckMd
<1>12. CASE ExportPublic
  BY <1>12 DEF ExportPublic, SuiteReport, Annotated, Scored, Present
<1>13. CASE Dies
  BY <1>13 DEF Dies
<1> QED
  BY <1>1, <1>2, <1>3, <1>T, <1>4, <1>5, <1>6, <1>7, <1>8, <1>9, <1>10, <1>11, <1>12, <1>13
     DEF Next

LEMMA ReportedInit == Init => Reported /\ ReportsAgree /\ CompleteIsScored
BY DEF Init, Reported, Writing, ReportsAgree, CompleteIsScored, NoReport

\* A run that returned leaves two reports that score the rows results.json counts.
THEOREM ReportsFollowResults == Spec => []ReportsAgree
BY ReportedInit, ReportedStep, TypesInit, TypesStep, PTL DEF Spec

\* A run that returned 0 has scored whatever was never excluded.
THEOREM NothingMissing == Spec => []CompleteIsScored
BY ReportedInit, ReportedStep, TypesInit, TypesStep, PTL DEF Spec

-----------------------------------------------------------------------------
\* What check-task has found at each of its steps: the truth, if all builds so far
\* succeeded; and that run-suite replaces summary.md before it returns.
Checked ==
  /\ pc \in {"fixed", "oracle", "checkMd"} /\ verdict.built => verdict.base = truth.base
  /\ pc \in {"oracle", "checkMd"} /\ verdict.built => verdict.fixed = truth.fixed
  /\ pc = "checkMd" => oracle = IF OracleOk(verdict) THEN "ok" ELSE "bad"
  /\ pc = "csv" => md.by = "suite"
  /\ OracleAnswers

\* A build that succeeded lets the validator speak.
LEMMA ExaminedTruth ==
  ASSUME NEW accepts \in BOOLEAN, NEW e \in Examined(accepts), e.built
  PROVE  e.ok = accepts
<1>1. CASE e = [ok |-> accepts, built |-> TRUE]
  BY <1>1, Zenon
<1>2. CASE e = [ok |-> FALSE, built |-> FALSE]
  BY <1>2
<1> QED
  BY <1>1, <1>2 DEF Examined

LEMMA CheckedStep == TypeOK /\ Checked /\ [Next]_vars => Checked'
<1> SUFFICES ASSUME TypeOK, Checked, [Next]_vars PROVE Checked'
  OBVIOUS
<1> USE DEF Checked, OracleAnswers, Written
<1>1. CASE UNCHANGED <<pc, exit, md, oracle, truth, verdict>>
  BY <1>1 DEF OracleOk
<1>2. ASSUME NEW resume \in BOOLEAN, NEW ids \in SUBSET Tasks, RunSuite(resume, ids)
      PROVE  Checked'
  BY <1>2 DEF RunSuite
<1>3. CASE RunSuiteFails \/ Dies
  BY <1>3 DEF RunSuiteFails, Dies, NoCheck
<1>T. CASE Truncate
  BY <1>T DEF Truncate, OracleOk
<1>4. CASE WriteNormalized \/ RowDone \/ WriteResults
  BY <1>4 DEF WriteNormalized, RowDone, WriteResults
<1>5. CASE WriteMd
  BY <1>5 DEF WriteMd, SuiteReport
<1>6. CASE WriteCsv
  BY <1>6 DEF WriteCsv
<1>7. ASSUME NEW known \in [base : BOOLEAN, fixed : BOOLEAN], CheckTask(known) PROVE Checked'
  BY <1>7 DEF CheckTask
<1>8. CASE CheckBase
  <2>1. PICK e \in Examined(truth.base) :
          verdict' = [verdict EXCEPT !.base = e.ok, !.built = @ /\ e.built]
    BY <1>8 DEF CheckBase
  <2>2. verdict'.base = e.ok /\ (verdict'.built => e.built)
    BY <2>1 DEF TypeOK, Verdicts
  <2>3. verdict'.built => verdict'.base = truth'.base
    BY <1>8, <2>2, ExaminedTruth DEF CheckBase, TypeOK
  <2> QED
    BY <1>8, <2>3 DEF CheckBase
<1>9. CASE CheckFixed
  <2>1. PICK e \in Examined(truth.fixed) :
          verdict' = [verdict EXCEPT !.fixed = e.ok, !.built = @ /\ e.built]
    BY <1>9 DEF CheckFixed
  <2>2. /\ verdict'.base = verdict.base /\ verdict'.fixed = e.ok
        /\ verdict'.built => verdict.built /\ e.built
    BY <2>1 DEF TypeOK, Verdicts
  <2>3. verdict'.built => verdict'.base = truth'.base /\ verdict'.fixed = truth'.fixed
    BY <1>9, <2>2, ExaminedTruth DEF CheckFixed, TypeOK
  <2> QED
    BY <1>9, <2>3 DEF CheckFixed
<1>10. CASE WriteOracle
  BY <1>10 DEF WriteOracle, OracleOk
<1>11. CASE WriteCheckMd
  <2>1. /\ exit' = IF OracleOk(verdict) THEN "ok" ELSE "rc1"
        /\ pc = "checkMd" /\ pc' = "idle" /\ UNCHANGED <<oracle, truth, verdict>>
    BY <1>11 DEF WriteCheckMd, checkVars
  <2>2. oracle' = IF exit' = "ok" THEN "ok" ELSE "bad"
    BY <2>1
  <2>3. verdict.built => (exit' = "ok" <=> ~truth.base /\ truth.fixed)
    BY <2>1, Zenon DEF OracleOk
  <2> QED
    BY <2>1, <2>2, <2>3
<1>12. UNCHANGED vars \/ ExportPublic => UNCHANGED <<pc, exit, md, oracle, truth, verdict>>
  BY DEF vars, ExportPublic, checkVars
<1> QED
  BY <1>1, <1>2, <1>3, <1>T, <1>4, <1>5, <1>6, <1>7, <1>8, <1>9, <1>10, <1>11, <1>12 DEF Next

\* check-task returns 0 just when its oracle file says so, and that is what the two
\* commits deserve unless one of them did not build.
THEOREM OracleIsTrue == Spec => []OracleAnswers
<1>1. Init => Checked
  BY DEF Init, Checked, OracleAnswers, NoReport
<1>2. Checked => OracleAnswers
  BY DEF Checked
<1> QED
  BY <1>1, <1>2, TypesInit, TypesStep, CheckedStep, PTL DEF Spec
=============================================================================
