------------------------------ MODULE Progress ------------------------------
(***************************************************************************)
(* build_progress_rows (fortbench/progress_summary.py): what the progress    *)
(* page says of a run, guessed from results.json and the directories under   *)
(* artifacts/ alone, while SuiteRunner goes on.  The page counts rows; for   *)
(* local rows it assumes the order of run_suite and shows the first row, and  *)
(* its first task, that is missing; a cloud item is active if its directory   *)
(* is there and its row is not.                                              *)
(***************************************************************************)
EXTENDS SuiteRunner

VARIABLE dirs   \* the keys that have a directory under artifacts/

progressVars == <<vars, dirs>>

\* run_task_row makes the directory of its key, and no start of a suite removes it.
Directories == dirs' = dirs \cup {k \in Keys : fut'[k] = "running"}

ProgressInit == Init /\ dirs = {}
ProgressNext == Next /\ Directories

ProgressSpec == /\ ProgressInit /\ [][ProgressNext]_progressVars
                /\ WF_vars(Main) /\ \A k \in Keys : WF_vars(Worker(k))

\* rows_by_name: failure rows and repeated rows are counted as well.
RowsDone(r) == Cardinality({i \in 1..Len(results.rows) : SameName(results.rows[i].key[2], r)})

Total == Cardinality(Tasks)

\* local_active_row: the first local row with too few rows, or none.
LocalActiveRow ==
  {r \in LocalRows : /\ RowsDone(r) < Total
                     /\ \A q \in LocalRows : RowPos[q] < RowPos[r] => RowsDone(q) >= Total}

\* next_task: the first task without a row, if there is one.
NextTask(r) ==
  LET missing == {t \in Tasks : <<t, r>> \notin CompletedKeys(results.rows)}
  IN {t \in missing : \A s \in missing : TaskPos[t] <= TaskPos[s]}

\* The local items the page calls active: one or none.
ShownActive == {k \in LocalKeys : k[2] \in LocalActiveRow /\ k[1] \in NextTask(k[2])}

\* Mutant: whatever has no row is active, as for a local row.
CloudMissing == CloudKeys \ CompletedKeys(results.rows)

\* active_tasks_by_row: the cloud items the page calls active.
CloudActive == (dirs \cap CloudKeys) \ CompletedKeys(results.rows)

\* The rows the page calls done.
ShownDone == {r \in Rows : RowsDone(r) = Total}
-----------------------------------------------------------------------------
\* The page knows rows by their names, and needs one for each.
DistinctNames == \A q, r \in Rows : SameName(q, r) => q = r

UpToDate == results = [rows |-> runRows, torn |-> FALSE]

\* Whenever results.json holds the rows of the run, and the rows have names of their
\* own, the page names the local item that is prepared or runs and every cloud item
\* that runs, and calls no row done that has work left.  In the first run of a
\* directory it names no cloud item but these and those that have ended and are not
\* recorded yet; later a directory that an earlier run has left looks like work that
\* goes on.
ProgressIsTrue ==
  UpToDate /\ DistinctNames =>
    /\ \A k \in Active(LocalKeys) : ShownActive = {k}
    /\ \A k \in futureMap \cup todoLocal : k[2] \notin ShownDone
    /\ Active(CloudKeys) \subseteq CloudActive
    /\ starts = 1 => \A k \in CloudActive : fut[k] \in {"running", "ok", "err"}
=============================================================================
