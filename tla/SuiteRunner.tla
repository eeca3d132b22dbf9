---------------------------- MODULE SuiteRunner ----------------------------
(***************************************************************************)
(* run_suite (fortbench/core.py): the main thread that hands (task, row)    *)
(* pairs to a pool of cloud workers and to a one-worker local pool, appends *)
(* each finished row to run_rows, rewrites results.json after every row,    *)
(* stops the suite on the first error, and cleans up in a finally block.    *)
(*                                                                         *)
(* A key is a (task, row) pair and stands for its future as well.  What a   *)
(* row does is TaskRow's subject: here a running key returns or raises.     *)
(* A row is an entry of the suite file: nothing keeps two entries from      *)
(* having one name, and --resume and the local worker go by names.          *)
(***************************************************************************)
EXTENDS Integers, Sequences, FiniteSets

CONSTANTS
  Tasks, Rows,     \* task ids (without the excluded ones) and the rows
  RowName,         \* the name of each row
  LocalRows,       \* the rows with provider_class "local"
  TaskPos, RowPos, \* the position of each task and row in the suite file
  CloudParallelism, \* the suite's cloud_parallelism
  NoRow,           \* None, for a row
  Faults,          \* which of "row", "write", "interrupt", "crash" happen
  MaxStarts        \* bound: how many times the suite is started

ASSUME RowsAssumption   == LocalRows \subseteq Rows /\ NoRow \notin Rows
ASSUME FiniteAssumption == IsFiniteSet(Tasks) /\ IsFiniteSet(Rows)
\* Positions differ; names need not, as load_suite does not look at them.
ASSUME OrderAssumption  ==
  /\ TaskPos \in [Tasks -> Nat] /\ \A s, t \in Tasks : TaskPos[s] = TaskPos[t] => s = t
  /\ RowPos \in [Rows -> Nat]   /\ \A r, s \in Rows : RowPos[r] = RowPos[s] => r = s
ASSUME CountAssumption  == CloudParallelism \in Int /\ MaxStarts \in Nat

Keys      == Tasks \X Rows
LocalKeys == Tasks \X LocalRows
CloudKeys == Keys \ LocalKeys

\* Every suite shipped with the repository asks for 0, which means 1.
CloudWorkers == IF CloudParallelism <= 0 THEN 1 ELSE CloudParallelism

FutureState == {"idle", "queued", "preparing", "running", "ok", "err", "cancelled"}
Entry       == [key : Keys, kind : {"result", "failure"}]

VARIABLES
  pc,         \* where the main thread is
  fut,        \* fut[k]: the state of the future of key k
  futureMap,  \* future_map: the futures the main loop still waits for
  done,       \* the batch wait() returned, less what was popped from it
  cur,        \* the keys popped in this turn of the loop: none or one
  runRows,    \* run_rows
  base,       \* how many rows were loaded from results.json
  todoLocal,  \* local_work_items from next_local_index on
  curRow,     \* the row whose name current_local_row_name is, or NoRow
  proxyRow,   \* the row the running local proxy serves, or NoRow
  rc,         \* suite_rc
  raised,     \* an exception or a KeyboardInterrupt is leaving run_suite
  exit,       \* how the process ended: "none", "ok", "rc1" or "raised"
  results,    \* results.json: its rows, and whether it is truncated
  fresh,      \* started without --resume and not written since
  starts      \* how often the suite was started

mainVars == <<cur, runRows, base, rc, raised, exit>>
diskVars == <<results, fresh, starts>>
vars == <<pc, fut, futureMap, done, todoLocal, curRow, proxyRow, mainVars, diskVars>>

KeysOf(rows) == {rows[i].key : i \in 1..Len(rows)}
Queued(S)    == {k \in S : fut[k] = "queued"}
Active(S)    == {k \in S : fut[k] \in {"preparing", "running"}}

\* Cloud work is task-major, local work row-major ("model-major").
CloudBefore(j, k) ==
  \/ TaskPos[j[1]] < TaskPos[k[1]]
  \/ TaskPos[j[1]] = TaskPos[k[1]] /\ RowPos[j[2]] < RowPos[k[2]]
\* Mutant: local work in the task-major order of cloud work.
TaskMajorBefore(j, k) == CloudBefore(j, k)

LocalBefore(j, k) ==
  \/ RowPos[j[2]] < RowPos[k[2]]
  \/ RowPos[j[2]] = RowPos[k[2]] /\ TaskPos[j[1]] < TaskPos[k[1]]

\* Rows of one name are one row to results.json.
SameName(q, r) == RowName[q] = RowName[r]

\* Mutant: rows that failed are run again.
OnlyResultKeys(rows) == {rows[i].key : i \in {j \in 1..Len(rows) : rows[j].kind = "result"}}

\* completed_keys: the keys whose task id and row name a loaded row has, be it a
\* failure or the row of another entry of that name.
CompletedKeys(rows) ==
  {k \in Keys : \E j \in KeysOf(rows) : j[1] = k[1] /\ SameName(j[2], k[2])}

\* The item submit_next_local takes from the items S: a set of one, or none.
NextLocal(S) == {k \in S : \A j \in S : j = k \/ LocalBefore(k, j)}

\* Mutant: --resume is ignored.
LoadedNothing(resume) == <<>>

Loaded(resume) == IF resume THEN results.rows ELSE <<>>

Init ==
  /\ pc = "idle" /\ fut = [k \in Keys |-> "idle"]
  /\ futureMap = {} /\ done = {} /\ cur = {} /\ runRows = <<>> /\ base = 0
  /\ todoLocal = {} /\ curRow = NoRow /\ proxyRow = NoRow
  /\ rc = 0 /\ raised = FALSE /\ exit = "none"
  /\ results = [rows |-> <<>>, torn |-> FALSE] /\ fresh = FALSE /\ starts = 0

-----------------------------------------------------------------------------
(* Starting: the part of run_suite before its main loop.                     *)

\* load_existing_results, the work lists, every cloud submission and the first
\* local one.
StartRun(resume) ==
  LET loaded == Loaded(resume)
      todo   == Keys \ CompletedKeys(loaded)
      first  == NextLocal(todo \cap LocalKeys)
  IN /\ pc \in {"idle", "end"} /\ starts < MaxStarts
     /\ resume => ~results.torn
     /\ pc' = "loop"
     /\ runRows' = loaded /\ base' = Len(loaded)
     /\ futureMap' = (todo \cap CloudKeys) \cup first
     /\ fut' = [k \in Keys |->
                  IF k \in (todo \cap CloudKeys) \cup first THEN "queued" ELSE "idle"]
     /\ todoLocal' = (todo \cap LocalKeys) \ first
     /\ done' = {} /\ cur' = {} /\ curRow' = NoRow
     /\ rc' = 0 /\ raised' = FALSE /\ exit' = "none"
     /\ fresh' = ~resume /\ starts' = starts + 1
     /\ UNCHANGED <<proxyRow, results>>

\* json.loads raises on a truncated file, before the try block.
StartFails ==
  /\ pc \in {"idle", "end"} /\ starts < MaxStarts /\ results.torn
  /\ pc' = "end" /\ exit' = "raised" /\ raised' = TRUE /\ rc' = 0
  /\ fut' = [k \in Keys |-> "idle"]
  /\ futureMap' = {} /\ done' = {} /\ cur' = {} /\ todoLocal' = {}
  /\ runRows' = <<>> /\ base' = 0 /\ curRow' = NoRow
  /\ starts' = starts + 1
  /\ UNCHANGED <<proxyRow, results, fresh>>

-----------------------------------------------------------------------------
(* The main loop.                                                            *)

\* wait(..., FIRST_COMPLETED) returns every future that is finished by then.
Wait ==
  /\ pc = "loop" /\ futureMap # {}
  /\ done' = {k \in futureMap : fut[k] \in {"ok", "err"}}
  /\ done' # {}
  /\ pc' = "batch"
  /\ UNCHANGED <<fut, futureMap, todoLocal, curRow, proxyRow, mainVars, diskVars>>

\* Pop one future of the batch and append its result, or its failure.
Pop(k) ==
  /\ pc = "batch" /\ k \in done
  /\ done' = done \ {k} /\ futureMap' = futureMap \ {k} /\ cur' = {k}
  /\ \/ /\ fut[k] = "ok"
        /\ runRows' = Append(runRows, [key |-> k, kind |-> "result"])
        /\ pc' = "write"
     \/ /\ fut[k] = "err"
        /\ runRows' = Append(runRows, [key |-> k, kind |-> "failure"])
        /\ pc' = "failWrite"
  /\ UNCHANGED <<fut, todoLocal, curRow, proxyRow, base, rc, raised, exit, diskVars>>

BatchDone ==
  /\ pc = "batch" /\ done = {}
  /\ pc' = "loop" /\ cur' = {}
  /\ UNCHANGED <<fut, futureMap, done, todoLocal, curRow, proxyRow, runRows,
                 base, rc, raised, exit, diskVars>>

LoopDone ==
  /\ pc = "loop" /\ futureMap = {}
  /\ pc' = "finally"
  /\ UNCHANGED <<fut, futureMap, done, todoLocal, curRow, proxyRow, mainVars, diskVars>>

-----------------------------------------------------------------------------
(* write_suite_artifacts: results.json is truncated, then filled.            *)

Filling == [write |-> "writing", failWrite |-> "failWriting", final |-> "finalWriting"]

BeginWrite ==
  /\ pc \in DOMAIN Filling
  /\ pc' = Filling[pc]
  /\ results' = [results EXCEPT !.torn = TRUE]
  /\ UNCHANGED <<fut, futureMap, done, todoLocal, curRow, proxyRow, mainVars, fresh, starts>>

StoreResults == results' = [rows |-> runRows, torn |-> FALSE] /\ fresh' = FALSE

\* After a result: rows written, and a local row is followed by the next one.
WriteResult ==
  LET next == IF cur \subseteq LocalKeys THEN NextLocal(todoLocal) ELSE {}
  IN /\ pc = "writing"
     /\ StoreResults
     /\ pc' = "batch"
     /\ fut' = [k \in Keys |-> IF k \in next THEN "queued" ELSE fut[k]]
     /\ futureMap' = futureMap \cup next
     /\ todoLocal' = todoLocal \ next
     /\ UNCHANGED <<done, curRow, proxyRow, mainVars, starts>>

\* Mutant: suite_rc = 1 is forgotten.
FailureKeepsRc ==
  /\ pc = "failWriting"
  /\ StoreResults
  /\ pc' = "stopCloud"
  /\ UNCHANGED <<fut, futureMap, done, todoLocal, curRow, proxyRow, mainVars, starts>>

WriteFailure ==
  /\ pc = "failWriting"
  /\ StoreResults
  /\ pc' = "stopCloud" /\ rc' = 1
  /\ UNCHANGED <<fut, futureMap, done, todoLocal, curRow, proxyRow, cur, runRows,
                 base, raised, exit, starts>>

WriteFinal ==
  /\ pc = "finalWriting"
  /\ StoreResults
  /\ pc' = "end" /\ exit' = "ok"
  /\ UNCHANGED <<fut, futureMap, done, todoLocal, curRow, proxyRow, cur, runRows,
                 base, rc, raised, starts>>

\* Writing raises (no space, say), before results.json is complete or after it.
\* Inside the try the except clause then records a failure for the same key;
\* inside the except clause, and after the finally, the exception escapes.
WriteRaises ==
  /\ "write" \in Faults
  /\ pc \in {"writing", "failWriting", "finalWriting"}
  /\ StoreResults \/ UNCHANGED <<results, fresh>>
  /\ \/ /\ pc = "writing" /\ pc' = "failWrite"
        /\ \E k \in cur : runRows' = Append(runRows, [key |-> k, kind |-> "failure"])
        /\ UNCHANGED <<raised, exit>>
     \/ /\ pc = "failWriting" /\ pc' = "finally" /\ raised' = TRUE
        /\ UNCHANGED <<runRows, exit>>
     \/ /\ pc = "finalWriting" /\ pc' = "end" /\ raised' = TRUE /\ exit' = "raised"
        /\ UNCHANGED runRows
  /\ UNCHANGED <<fut, futureMap, done, todoLocal, curRow, proxyRow, cur, base, rc, starts>>

-----------------------------------------------------------------------------
(* The except clause: shutdown(cancel_futures=True) of each executor in turn. *)

\* Mutant: shutdown without cancel_futures.
CancelsNothing(S) == S \subseteq Keys /\ fut' = fut

Cancel(S) == fut' = [k \in Keys |-> IF k \in Queued(S) THEN "cancelled" ELSE fut[k]]

StopCloud ==
  /\ pc = "stopCloud" /\ pc' = "joinCloud" /\ Cancel(CloudKeys)
  /\ UNCHANGED <<futureMap, done, todoLocal, curRow, proxyRow, mainVars, diskVars>>

StopLocal ==
  /\ pc = "joinCloud" /\ Active(CloudKeys) = {}
  /\ pc' = "joinLocal" /\ Cancel(LocalKeys)
  /\ UNCHANGED <<futureMap, done, todoLocal, curRow, proxyRow, mainVars, diskVars>>

\* Mutant: the local pool is not joined before the finally clause.
AbandonEarly ==
  /\ pc = "joinLocal"
  /\ pc' = "finally" /\ futureMap' = {} /\ done' = {}
  /\ UNCHANGED <<fut, todoLocal, curRow, proxyRow, mainVars, diskVars>>

\* Mutant: the batch in hand outlives future_map.clear().
AbandonKeepsBatch ==
  /\ pc = "joinLocal" /\ Active(LocalKeys) = {}
  /\ pc' = "finally" /\ futureMap' = {}
  /\ UNCHANGED <<fut, done, todoLocal, curRow, proxyRow, mainVars, diskVars>>

\* Mutant: the loop goes on with the futures that are left, cancelled ones too.
AbandonNothing ==
  /\ pc = "joinLocal" /\ Active(LocalKeys) = {}
  /\ pc' = "batch"
  /\ UNCHANGED <<fut, futureMap, done, todoLocal, curRow, proxyRow, mainVars, diskVars>>

\* future_map.clear(): whatever finished meanwhile is not looked at again.
Abandon ==
  /\ pc = "joinLocal" /\ Active(LocalKeys) = {}
  /\ pc' = "finally" /\ futureMap' = {} /\ done' = {}
  /\ UNCHANGED <<fut, todoLocal, curRow, proxyRow, mainVars, diskVars>>

-----------------------------------------------------------------------------
(* The finally clause and the return.                                        *)

\* Mutant: only a proxy this run has started is stopped.
StopOwnBackends ==
  /\ pc = "finally" /\ pc' = "drain"
  /\ proxyRow' = IF curRow # NoRow THEN NoRow ELSE proxyRow
  /\ UNCHANGED <<fut, futureMap, done, todoLocal, curRow, mainVars, diskVars>>

StopBackends ==
  /\ pc = "finally" /\ pc' = "drain"
  /\ proxyRow' = IF LocalRows # {} THEN NoRow ELSE proxyRow
  /\ UNCHANGED <<fut, futureMap, done, todoLocal, curRow, mainVars, diskVars>>

\* shutdown(wait=True, cancel_futures=False) waits for queued work as well.
Drained ==
  /\ pc = "drain" /\ Queued(Keys) \cup Active(Keys) = {}
  /\ \/ raised /\ pc' = "end" /\ exit' = "raised"
     \/ ~raised /\ rc = 1 /\ pc' = "end" /\ exit' = "rc1"
     \/ ~raised /\ rc = 0 /\ pc' = "final" /\ exit' = exit
  /\ UNCHANGED <<fut, futureMap, done, todoLocal, curRow, proxyRow, cur, runRows,
                 base, rc, raised, diskVars>>

TryBlock == {"loop", "batch", "write", "writing", "failWrite", "failWriting",
             "stopCloud", "joinCloud", "joinLocal"}

\* Ctrl-C, once per run: no except clause catches it, the finally clause runs.
Interrupt ==
  /\ "interrupt" \in Faults
  /\ pc \in TryBlock \cup {"final", "finalWriting"}
  /\ pc' = IF pc \in TryBlock THEN "finally" ELSE "end"
  /\ exit' = IF pc \in TryBlock THEN exit ELSE "raised"
  /\ raised' = TRUE
  /\ UNCHANGED <<fut, futureMap, done, todoLocal, curRow, proxyRow, cur, runRows,
                 base, rc, diskVars>>

\* The process is killed: the disk and the detached proxy stay.
Crash ==
  /\ "crash" \in Faults
  /\ pc \notin {"idle", "end"}
  /\ pc' = "idle" /\ fut' = [k \in Keys |-> "idle"]
  /\ futureMap' = {} /\ done' = {} /\ cur' = {} /\ todoLocal' = {}
  /\ runRows' = <<>> /\ base' = 0 /\ curRow' = NoRow
  /\ rc' = 0 /\ raised' = FALSE /\ exit' = "none"
  /\ UNCHANGED <<proxyRow, diskVars>>

Main == \/ Wait \/ BatchDone \/ LoopDone \/ BeginWrite
        \/ WriteResult \/ WriteFailure \/ WriteFinal
        \/ StopCloud \/ StopLocal \/ Abandon \/ StopBackends \/ Drained
        \/ \E k \in Keys : Pop(k)

-----------------------------------------------------------------------------
(* The pools.                                                                *)

CloudStart(k) ==
  /\ k \in Queued(CloudKeys)
  /\ \A j \in Queued(CloudKeys) : j = k \/ CloudBefore(k, j)
  /\ Cardinality(Active(CloudKeys)) < CloudWorkers
  /\ fut' = [fut EXCEPT ![k] = "running"]
  /\ UNCHANGED <<pc, futureMap, done, todoLocal, curRow, proxyRow, mainVars, diskVars>>

LocalStart(k) ==
  /\ k \in Queued(LocalKeys) /\ Active(LocalKeys) = {}
  /\ fut' = [fut EXCEPT ![k] = "preparing"]
  /\ UNCHANGED <<pc, futureMap, done, todoLocal, curRow, proxyRow, mainVars, diskVars>>

\* run_local_item before run_task_row: a proxy is started when the row's name, or
\* its profile, is not the current one.  A row of the same name and profile takes
\* over its namesake's proxy.
Prepare(k) ==
  /\ k \in LocalKeys /\ fut[k] = "preparing"
  /\ fut' = [fut EXCEPT ![k] = "running"]
  /\ \/ curRow # NoRow /\ SameName(curRow, k[2]) /\ UNCHANGED <<curRow, proxyRow>>
     \/ k[2] # curRow /\ curRow' = k[2] /\ proxyRow' = k[2]
  /\ UNCHANGED <<pc, futureMap, done, todoLocal, mainVars, diskVars>>

\* The profile cannot be read, and the old proxy goes on; or it is stopped, and
\* the new one, or the server, does not come up.
PrepareFails(k) ==
  /\ "row" \in Faults
  /\ k \in LocalKeys /\ fut[k] = "preparing" /\ k[2] # curRow
  /\ fut' = [fut EXCEPT ![k] = "err"]
  /\ \/ UNCHANGED <<curRow, proxyRow>>
     \/ proxyRow' = NoRow /\ curRow' \in {curRow, NoRow}
  /\ UNCHANGED <<pc, futureMap, done, todoLocal, mainVars, diskVars>>

\* run_task_row returns a row, or raises.
Finish(k) ==
  /\ fut[k] = "running"
  /\ \/ fut' = [fut EXCEPT ![k] = "ok"]
     \/ "row" \in Faults /\ fut' = [fut EXCEPT ![k] = "err"]
  /\ UNCHANGED <<pc, futureMap, done, todoLocal, curRow, proxyRow, mainVars, diskVars>>

Worker(k) == CloudStart(k) \/ LocalStart(k) \/ Prepare(k) \/ PrepareFails(k) \/ Finish(k)

Next == \/ \E resume \in BOOLEAN : StartRun(resume)
        \/ StartFails
        \/ Main \/ WriteRaises \/ Interrupt \/ Crash
        \/ \E k \in Keys : Worker(k)

Spec == Init /\ [][Next]_vars

\* The main thread keeps running, and every row that runs returns or raises:
\* the stage budgets bound the agents (AgentProcess says when they do not).
FairSpec == Spec /\ WF_vars(Main) /\ \A k \in Keys : WF_vars(Worker(k))

-----------------------------------------------------------------------------
(* Properties.                                                               *)

MainPC == {"idle", "final", "finalWriting", "finally", "drain", "end"} \cup TryBlock

\* Type invariant.
TypeOK ==
  /\ pc \in MainPC
  /\ fut \in [Keys -> FutureState]
  /\ futureMap \in SUBSET Keys /\ done \in SUBSET futureMap
  /\ cur \in SUBSET Keys
  /\ runRows \in Seq(Entry) /\ base \in 0..Len(runRows)
  /\ todoLocal \in SUBSET LocalKeys
  /\ curRow \in LocalRows \cup {NoRow} /\ proxyRow \in LocalRows \cup {NoRow}
  /\ rc \in {0, 1} /\ raised \in BOOLEAN
  /\ exit \in {"none", "ok", "rc1", "raised"}
  /\ results \in [rows : Seq(Entry), torn : BOOLEAN] /\ fresh \in BOOLEAN
  /\ starts \in 0..MaxStarts

\* An item is listed twice only when writing its result failed: the failure
\* follows the result directly.  Neither resuming nor two pools repeat a row.
DuplicatesOnlyFromWriteFault ==
  \A i, j \in 1..Len(runRows) :
    i < j /\ runRows[i].key = runRows[j].key =>
      j = i + 1 /\ runRows[i].kind = "result" /\ runRows[j].kind = "failure"

\* A run that exits with 0 has a row with the task id and row name of every key,
\* added no failure row, and left exactly its rows in results.json.
SuccessIsComplete ==
  exit = "ok" =>
    /\ \A k \in Keys : \E j \in KeysOf(runRows) : j[1] = k[1] /\ SameName(j[2], k[2])
    /\ \A i \in (base + 1)..Len(runRows) : runRows[i].kind = "result"
    /\ results = [rows |-> runRows, torn |-> FALSE]

\* Local rows run in strict series: while a local item is prepared or runs, no
\* other is submitted, and the rows before its row have nothing left to run.
LocalSeries ==
  \A k \in Active(LocalKeys) :
    /\ Queued(LocalKeys) = {} /\ Active(LocalKeys) = {k}
    /\ \A j \in todoLocal : RowPos[k[2]] <= RowPos[j[2]]

\* A local item runs behind the proxy of a row of its name, and the finally clause
\* never takes it away, except when an exception is passing through it.
ProxyServesActiveRow ==
  \A k \in LocalKeys :
    fut[k] = "running" /\ ~raised => proxyRow # NoRow /\ SameName(proxyRow, k[2])

\* No proxy survives a run that returns, a crashed predecessor's included.
NoOrphanProxy == pc = "end" /\ ~raised => proxyRow = NoRow

\* Suite runs stop on errors: once both pools are shut down after a failure no
\* further item starts.
NoStartAfterAbort ==
  [][rc = 1 /\ pc \in {"joinLocal", "finally", "drain", "end"} /\ ~raised =>
       \A k \in Keys : fut[k] = "queued" => fut'[k] \in {"queued", "idle"}]_vars

\* results.json is a ledger that only grows, one key at a time.
Ledger == INSTANCE ResultsLedger
            WITH ledger <- results.rows, readable <- ~results.torn, discarding <- fresh
LedgerRefinement == Ledger!LedgerSpec

\* A run that is not killed comes to its end: after a failed row, a failed write
\* or a Ctrl-C as well, when the finally clause joins pools that nobody cancelled.
Terminates == (pc = "loop") ~> (pc \in {"end", "idle"})

\* "Resume an interrupted suite run from existing results.json" (cli.py): a
\* run that was interrupted leaves a results.json that can be loaded.
InterruptedRunResumes == pc \in {"idle", "end"} => ~results.torn

=============================================================================
