------------------------------ MODULE OutputDir ------------------------------
(***************************************************************************)
(* The commands of fortbench/cli.py over one output directory: run-suite    *)
(* writes results.json and the reports made from it, with the exclusions of *)
(* its suite file; check-task writes oracle.json and a summary.md of its     *)
(* own; export-public reads results.json at any moment.  Between commands    *)
(* the user edits the suite's excluded_tasks; any command may be killed.    *)
(*                                                                         *)
(* One agent row is enough here, so a row is known by its task.  The pools,  *)
(* the order of the rows and failing writes are SuiteRunner's subject.       *)
(***************************************************************************)
EXTENDS Naturals, FiniteSets

CONSTANTS Tasks    \* the tasks of the suite

\* A row of results.json: none, one of an older version without solved_stage and
\* final_status, one that counts, or one with excluded_from_score.
RowStates == {"none", "old", "row", "flagged"}
NoRows    == [t \in Tasks |-> "none"]

VARIABLES
  excluded,  \* excluded_task_ids of the suite file the command has loaded
  pc,        \* the step of the command, or "idle"
  open,      \* the file of this step is truncated, and not yet written
  exit,      \* of the last command: "none", "ok", "rc1", "raised"
  runRows,   \* run_rows of run-suite
  work,      \* the tasks run-suite has still to run
  results,   \* results.json; by: the exclusions its writer knew
  md, csv,   \* summary.md, summary.csv: who wrote it, the tasks it scores, and
             \* the tasks it names as excluded
  oracle,    \* oracle.json
  truth,     \* what the task's validator says of its base and fixed commit
  verdict,   \* what check-task has found so far
  public     \* the file of export-public

suiteVars == <<excluded, runRows, work>>
checkVars == <<truth, verdict, oracle>>
vars == <<pc, open, exit, suiteVars, results, md, csv, checkVars, public>>

Report == [by : {"nobody", "half", "suite", "check"}, tasks : SUBSET Tasks,
           excluded : SUBSET Tasks]
NoReport == [by |-> "nobody", tasks |-> {}, excluded |-> {}]
Half     == [by |-> "half", tasks |-> {}, excluded |-> {}]
Verdicts == [base : BOOLEAN, fixed : BOOLEAN, built : BOOLEAN]

\* A directory of this version, or one with rows of an older one.
Init ==
  /\ pc = "idle" /\ open = FALSE /\ exit = "none" /\ excluded = {} /\ runRows = NoRows /\ work = {}
  /\ \E old \in SUBSET Tasks :
       results = [torn |-> FALSE, by |-> {},
                  rows |-> [t \in Tasks |-> IF t \in old THEN "old" ELSE "none"]]
  /\ md = NoReport /\ csv = NoReport
  /\ oracle = "none" /\ public = [scored |-> {}, excluded |-> {}]
  /\ truth = [base |-> FALSE, fixed |-> FALSE]
  /\ verdict = [base |-> FALSE, fixed |-> FALSE, built |-> FALSE]

\* The memory of a command goes with its process; what a run-suite that returned
\* had excluded is remembered for the properties.
Forget  == runRows' = NoRows /\ work' = {}
NoSuite == excluded' = {} /\ Forget
NoCheck == /\ truth' = [base |-> FALSE, fixed |-> FALSE]
           /\ verdict' = [base |-> FALSE, fixed |-> FALSE, built |-> FALSE]

-----------------------------------------------------------------------------
(* run-suite                                                                 *)

Present(rows) == {t \in Tasks : rows[t] # "none"}
Old(rows)     == {t \in Tasks : rows[t] = "old"}

\* Mutant: the row keeps the format it was written in.
NotNormalized(rows) == rows

\* normalize_result_row
Normalized(rows) == [t \in Tasks |-> IF rows[t] = "old" THEN "row" ELSE rows[t]]

\* Mutant: a task that was excluded before is passed over as well.
TodoButExcluded(rows, ids) == ((Tasks \ ids) \ results.by) \ Present(rows)

\* completed_keys leaves the tasks without any row, flagged or not.
Todo(rows, ids) == (Tasks \ ids) \ Present(rows)

\* load_suite and, with --resume, load_existing_results: rows that had to be
\* normalised are written back at once.
RunSuite(resume, ids) ==
  /\ pc = "idle" /\ ~(resume /\ results.torn)
  /\ excluded' = ids
  /\ runRows' = IF resume THEN Normalized(results.rows) ELSE NoRows
  /\ work' = Todo(runRows', ids)
  /\ pc' = IF resume /\ Old(results.rows) # {} THEN "normalize" ELSE "run"
  /\ exit' = "none" /\ NoCheck
  /\ UNCHANGED <<open, results, md, csv, oracle, public>>

\* json.loads raises on half a file.
RunSuiteFails ==
  /\ pc = "idle" /\ results.torn /\ exit' = "raised" /\ NoSuite
  /\ UNCHANGED <<pc, open, results, md, csv, checkVars, public>>

\* write_text opens a file, which empties it, before it writes.
Truncate ==
  /\ ~open /\ open' = TRUE
  /\ \/ pc \in {"normalize", "results"} /\ results' = [results EXCEPT !.torn = TRUE]
        /\ UNCHANGED <<md, csv, oracle>>
     \/ pc \in {"md", "checkMd"} /\ md' = Half /\ UNCHANGED <<results, csv, oracle>>
     \/ pc = "csv" /\ csv' = Half /\ UNCHANGED <<results, md, oracle>>
     \/ pc = "oracle" /\ oracle' = "half" /\ UNCHANGED <<results, md, csv>>
  /\ UNCHANGED <<pc, exit, suiteVars, truth, verdict, public>>

\* The text of the file is written, and the command goes on to the next step.
Written(step, next) == pc = step /\ open /\ open' = FALSE /\ pc' = next

WriteNormalized ==
  /\ Written("normalize", "run")
  /\ results' = [results EXCEPT !.torn = FALSE, !.rows = runRows]
  /\ UNCHANGED <<exit, suiteVars, md, csv, checkVars, public>>

\* A row is done, or failed, which ends the run after its artifacts are written;
\* without work the artifacts are written once more.
RowDone ==
  /\ pc = "run"
  /\ \/ \E t \in work : /\ runRows' = [runRows EXCEPT ![t] = "row"]
                        /\ work' = work \ {t}
                        /\ exit' \in {"none", "rc1"}
     \/ work = {} /\ exit' = "ok" /\ UNCHANGED <<runRows, work>>
  /\ pc' = "results"
  /\ UNCHANGED <<open, excluded, results, md, csv, checkVars, public>>

\* write_suite_artifacts flags the rows of excluded tasks, and never unflags one.
Annotated(rows) ==
  [t \in Tasks |-> IF t \in excluded \cap Present(rows) THEN "flagged" ELSE rows[t]]

\* Mutant: the summaries are made from run_rows.
ScoredRunRows(rows) == {t \in Tasks : rows[t] # "none" /\ runRows[t] = "row"}

\* scored_rows
Scored(rows) == {t \in Tasks : rows[t] = "row"}

WriteResults ==
  /\ Written("results", "md")
  /\ results' = [torn |-> FALSE, by |-> excluded, rows |-> Annotated(runRows)]
  /\ UNCHANGED <<exit, suiteVars, md, csv, checkVars, public>>

SuiteReport == [by |-> "suite", tasks |-> Scored(Annotated(runRows)), excluded |-> excluded]

WriteMd ==
  /\ Written("md", "csv") /\ md' = SuiteReport
  /\ UNCHANGED <<exit, suiteVars, results, csv, checkVars, public>>

\* Mutant: a failing row leaves without the last report.
CsvOnlyOnSuccess ==
  /\ Written("csv", IF exit = "none" THEN "run" ELSE "idle")
  /\ csv' = IF exit = "rc1" THEN NoReport ELSE SuiteReport
  /\ IF exit = "none" THEN UNCHANGED <<runRows, work>> ELSE Forget
  /\ UNCHANGED <<exit, excluded, results, md, checkVars, public>>

WriteCsv ==
  /\ Written("csv", IF exit = "none" THEN "run" ELSE "idle")
  /\ csv' = SuiteReport
  /\ IF exit = "none" THEN UNCHANGED <<runRows, work>> ELSE Forget
  /\ UNCHANGED <<exit, excluded, results, md, checkVars, public>>

-----------------------------------------------------------------------------
(* check-task                                                                *)

\* load_task, and two workspaces that are removed and cloned anew; what is left
\* of an earlier check is not touched.
CheckTask(known) ==
  /\ pc = "idle" /\ pc' = "base" /\ exit' = "none" /\ NoSuite
  /\ truth' = known
  /\ verdict' = [base |-> FALSE, fixed |-> FALSE, built |-> TRUE]
  /\ UNCHANGED <<open, results, md, csv, oracle, public>>

\* run_setup and run_acceptance: without a build there is nothing to accept.
Examined(accepts) ==
  {[ok |-> accepts, built |-> TRUE], [ok |-> FALSE, built |-> FALSE]}

CheckBase ==
  /\ pc = "base" /\ pc' = "fixed"
  /\ \E e \in Examined(truth.base) :
       verdict' = [verdict EXCEPT !.base = e.ok, !.built = @ /\ e.built]
  /\ UNCHANGED <<open, exit, suiteVars, results, md, csv, truth, oracle, public>>

CheckFixed ==
  /\ pc = "fixed" /\ pc' = "oracle"
  /\ \E e \in Examined(truth.fixed) :
       verdict' = [verdict EXCEPT !.fixed = e.ok, !.built = @ /\ e.built]
  /\ UNCHANGED <<open, exit, suiteVars, results, md, csv, truth, oracle, public>>

\* Mutant: the base is not asked.
OracleOfFixed(v) == v.fixed

OracleOk(v) == ~v.base /\ v.fixed

WriteOracle ==
  /\ Written("oracle", "checkMd")
  /\ oracle' = IF OracleOk(verdict) THEN "ok" ELSE "bad"
  /\ UNCHANGED <<exit, suiteVars, results, md, csv, truth, verdict, public>>

\* write_task_check_summary, and the exit status.
WriteCheckMd ==
  /\ Written("checkMd", "idle")
  /\ md' = [by |-> "check", tasks |-> {}, excluded |-> {}]
  /\ exit' = IF OracleOk(verdict) THEN "ok" ELSE "rc1"
  /\ UNCHANGED <<suiteVars, results, csv, checkVars, public>>

-----------------------------------------------------------------------------
(* export-public, and what may come in between.                              *)

\* The rows the public record counts: _public_result copies the flag.
PublicScored(rows) == {t \in Present(rows) : rows[t] # "flagged"}

\* Half a file raises before anything is written.
ExportPublic ==
  /\ ~results.torn
  /\ public' = [scored |-> PublicScored(results.rows), excluded |-> results.by]
  /\ UNCHANGED <<pc, open, exit, suiteVars, results, md, csv, checkVars>>

\* Killed, or an exception: a command, a full disk, a row the report cannot format.
Dies ==
  /\ pc # "idle" /\ pc' = "idle" /\ exit' = "raised" /\ open' = FALSE
  /\ NoSuite /\ NoCheck
  /\ UNCHANGED <<results, md, csv, oracle, public>>

Next == \/ \E resume \in BOOLEAN, ids \in SUBSET Tasks : RunSuite(resume, ids)
        \/ RunSuiteFails \/ Truncate \/ WriteNormalized \/ RowDone \/ WriteResults \/ WriteMd \/ WriteCsv
        \/ \E known \in [base : BOOLEAN, fixed : BOOLEAN] : CheckTask(known)
        \/ CheckBase \/ CheckFixed \/ WriteOracle \/ WriteCheckMd
        \/ ExportPublic \/ Dies

Spec == Init /\ [][Next]_vars
-----------------------------------------------------------------------------
(* Properties.                                                               *)

\* Type invariant.
TypeOK ==
  /\ pc \in {"idle", "normalize", "run", "results", "md", "csv", "base", "fixed", "oracle", "checkMd"}
  /\ open \in BOOLEAN /\ exit \in {"none", "ok", "rc1", "raised"}
  /\ excluded \in SUBSET Tasks /\ work \in SUBSET (Tasks \ excluded)
  /\ runRows \in [Tasks -> RowStates \ {"old"}]
  /\ results \in [torn : BOOLEAN, by : SUBSET Tasks, rows : [Tasks -> RowStates]]
  /\ md \in Report /\ csv \in Report /\ csv.by # "check"
  /\ oracle \in {"none", "half", "ok", "bad"}
  /\ truth \in [base : BOOLEAN, fixed : BOOLEAN] /\ verdict \in Verdicts
  /\ public \in [scored : SUBSET Tasks, excluded : SUBSET Tasks]

\* "is excluded from scored comparisons" (docs/corpus.md): no report and no
\* published record counts a task that the suite excluded, although its row may
\* be older than the exclusion.
ExcludedNotScored ==
  /\ \A r \in {md, csv} : r.tasks \cap r.excluded = {}
  /\ public.scored \cap public.excluded = {}

\* A run-suite that returned, with a failed row or without, leaves reports that
\* score the same rows, the rows results.json counts, as long as no other command
\* has replaced summary.md.
ReportsAgree ==
  pc = "idle" /\ exit \in {"ok", "rc1"} /\ md.by = "suite" =>
    /\ ~results.torn /\ csv = md
    /\ md.tasks = Scored(results.rows)

\* A run that returned 0 has scored every task that is not excluded, but for the
\* tasks an earlier run over the directory had excluded: their flag stays.
CompleteIsScored ==
  pc = "idle" /\ exit = "ok" /\ md.by = "suite" =>
    md.tasks = {t \in Tasks \ excluded : results.rows[t] # "flagged"}

\* check-task returns 0 just when oracle.json says so, and, if all builds succeeded,
\* just when the base fails and the fix passes.  A base that does not build also
\* counts as one that fails.
OracleAnswers ==
  pc = "idle" /\ exit \in {"ok", "rc1"} /\ md.by = "check" =>
    /\ oracle = IF exit = "ok" THEN "ok" ELSE "bad"
    /\ verdict.built => (exit = "ok" <=> ~truth.base /\ truth.fixed)
=============================================================================
