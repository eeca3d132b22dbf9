# TLA+ models of Fortbench

Fortbench runs coding agents over frozen issues of Fortran projects: a *suite* is a list of tasks times a
list of rows (an agent with a model), a *row run* gives one agent up to three fresh attempts at one task,
and `results.json` collects the outcomes. This directory models the runner: what it does in which order,
what runs beside what, and what is left on disk, in processes and in logs when something fails.

## The system

| part | state it keeps | operations | modelled by |
| --- | --- | --- | --- |
| suite runner, `core.py` `run_suite` | `future_map`, `run_rows`, `next_local_index`, `current_local_row_name`, `suite_rc`, two thread pools | submit, wait, record, stop on failure, clean up, resume | `SuiteRunner` |
| results file, `write_suite_artifacts`, `load_existing_results` | `results.json` | truncate, fill, load | `SuiteRunner`, promise in `ResultsLedger` |
| task row, `run_task_row` | run directory, workspace, build trees, `stage_results`, archive, `result.json` | clone, setup, accept, stage, judge, archive, store | `TaskRow` |
| local runtime, `run_local_item`, `switch_local_model` | current profile and row, servers, proxy | compare, stop, start, preflight, clean up | `LocalRuntime` |
| request log, `litellm_proxy.py` | log file, cursor | callback appends; snapshot, drain, read, filter, truncate | `ProxyLog` |
| agent process, `adapters.py` `_run_command`, `_terminate_process` | a process group and its pipes | poll, time out, signal, join | `AgentProcess` |
| proxy process, `start_proxy`, `stop_proxy` | pid file, port, child process | start with attempts, poll, stop | `ProxyProcess`, single steps of the others |
| judges, `judges.py` | the judges of a result | ask, check the answer, ask again | `TaskRow` |
| progress page, `progress_summary.py` | none, reads `results.json` and the names of the artifact directories | count rows, guess the running items | `Progress` |
| adapters and protocol collectors, `adapters.py` | a home and configuration files per row, one file of the user | configure, launch, take the output, summarise | `AgentStage` |
| commands, `cli.py`, with `check_task`, `public_export.py` and the reports | `summary.md`, `summary.csv`, `oracle.json`, the exclusions in `results.json` | run-suite, check-task, export-public | `OutputDir` |
| task fixtures, `tasks/*/*/validate.py` | none, read the workspace | find a library and an interface, compile, run | `TaskValidators`, used by `TaskRow` |
| host inventory, `scripts/start-llamacpp.sh` | none | run external commands | not modelled |

How they interact. `run_suite` is the main thread. It hands `run_task_row` to a cloud pool and
`run_local_item`, which prepares server and proxy and then calls `run_task_row`, to a pool of one. A row
calls its adapter, which runs the agent (`_run_command`) and, for a local row, brackets it with
`snapshot_proxy_log` and `collect_proxy_log`; the summary goes through `assert_local_stage_healthy`. An
exception anywhere in a row reaches the main thread through `future.result()` and stops the suite. Shared
between threads are the two `current_local_*` variables (the pool of one writes them) and the configuration
file of Mistral Vibe; between processes, the proxy's log, the port, the run directories and `results.json`.

What is hard. Two pools finish rows while the main thread writes files or shuts down; cancellation reaches
queued rows only; the `finally` clause stops servers that a worker may use; Ctrl-C and kills hit between
any two steps, also between two entries of a directory that is being removed or between truncating a file
and filling it; scripts whose exit status nobody reads; the log is shared by a writer and a truncating reader without a lock; an agent's children
inherit its pipes; a workspace carries build products from one attempt to the next; one output directory
serves commands of different days, with exclusions that changed in between.

What makes each part correct:

* suite runner: no row twice, none lost on success, nothing started after the stop, local rows in series,
  proxy and server up while and only while they are used, an end in every case;
* results file: only grows, a key at a time, and can be loaded again;
* task row: clean start, policy of stages, a verdict about the source in the workspace, no result beside a missing archive;
* local runtime: the right server for each task, at most one, none left behind, the user's untouched where no row is managed;
* request log: the trace of a stage holds its requests and no others;
* proxy process: one at a time, and the one that answers is the one that was started;
* agent process: all output when it returns, and it returns;
* judges: an entry for each engine whatever it answers; progress page: it names what runs;
* adapters: an agent starts with the configuration of its own row, and a local row counts only with a trace;
* output directory: reports and public record score the same rows, none of them excluded, none forgotten.

## Modules

| module | what it is |
| --- | --- |
| `ResultsLedger` | abstract: the rows of `results.json` as a ledger that only grows |
| `SuiteRunner` | `run_suite`, refines `ResultsLedger` (`LedgerRefinement`) |
| `SuiteRunner_proofs` | its theorems, that it implements `ResultsLedger`, and the theorem about the progress page |
| `Progress` | the progress page beside `SuiteRunner`, with the artifact directories |
| `TaskValidators` | the twenty validators of the corpus, extended by `TaskRow` |
| `TaskRow`, `LocalRuntime`, `ProxyLog`, `ProxyProcess`, `AgentProcess`, `AgentStage`, `OutputDir` | the components named above |
| `TaskRow_proofs`, `LocalRuntime_proofs`, `ProxyLog_proofs`, `ProxyProcess_proofs`, `AgentProcess_proofs`, `AgentStage_proofs`, `OutputDir_proofs` | the theorems about each of these |
| `MC*` | the small instances TLC checks |

**SuiteRunner.** A key is a (task, row) pair and names its future: `fut[k]` goes from `queued` to
`running` (a local one through `preparing`, which is `run_local_item` before `run_task_row`) to `ok` or
`err`. `pc` follows the main thread: `loop` (before `wait`), `batch` (the inner `for`), `write`/`writing`
(before and after `results.json` is truncated), the same pair after a failure and at the end,
`stopCloud`/`joinCloud`/`joinLocal` (the two `shutdown(cancel_futures=True)`), `finally`/`drain`, `final`,
`end`. Each handler is one action: `WriteResult` also submits the next local item, as
`core.py:1219-1221` does. `PrepareFails` may fail before the old proxy is stopped (an unset variable), after,
or after `current_local_row_name` was reset. Rows are entries of the suite file and `RowName` gives their names:
`load_suite` accepts two of one name, `--resume` looks rows up by task id and name (`CompletedKeys`), and
`run_local_item` keeps a proxy by name. Task ids are taken to be distinct.
Ctrl-C passes no `except` clause, so `Interrupt` goes to `finally`. A crash keeps `results` and the
detached proxy. `base` and `fresh` record what a start loaded; they decide nothing.

**TaskRow.** The source is one of four versions, a build tree holds the version it was built from. The
setup commands write one tree; the agent may write and delete that one and another (a second compiler
profile). `TaskValidators` says of each validator where its library and the interface it is compiled against
come from: the fixed tree of the setup commands, the first match over all trees (twice, by two patterns that
may meet different trees), the sources, or a build of its own. Its `Verdict` is that of the version it links.
What its Fortran or C program checks is abstracted to `Accepts`. `conf` is the kind of row and task and never
changes. `attempt` counts clones; `RmTree` may leave the tree behind, because `shutil.rmtree` ignores errors.
The result of setup is recorded (`setupOk`) and otherwise unused, as in `core.py:906`. A row starts by removing
the directory of the run before, entry by entry in any order (`ClearEntry`, `Cleared`); a run that ends there is
`halfCleared` and leaves what is not removed yet. `Archive` packs and `Remove` deletes, `Store` truncates
`result.json` and `Fill` writes it; a kill or an exception may come between any two of these, or after half an
archive is written.
A solved row goes through `judge_engines`: `Judge` is one call of an engine and what is made of its answer;
`tries` counts the invalid answers of `run_codex_judge`, which asks twice. JSON that is no object raises
`AttributeError` in `validate_judge_result` or in the loop over the events, and the solved row fails. A judge
works in the workspace with write permission, so from its first call on the sources that are archived need not
be those that were judged.

**LocalRuntime.** Rows are records of what the code reads from a suite file. The initial state chooses the
suite, in suite order, and whether the server scripts exist. There are two threads. `pc` follows the worker
through `run_local_item`: `switch`, `start` and `poll` (stop script, start script, the poll of the port),
`preflight`, `proxy`, `task`. `main` follows `run_suite`: its loop, the join of the pools after a failed cloud row
(`abort`), the two halves of the `finally` clause (`cleanup`, `servers`), the join after it (`drain`).
`Interrupt` is Ctrl-C or a failed write of a failure: the main thread goes to the `finally` clause with the worker
where it is, which `caught` records, and the worker goes on. `server` maps an endpoint to what answers there and
to who started it; the scripts are external and modelled by their arguments (`all`, an instance). The stop script
is run with `check=False`: it may leave any of the servers up, which `unstopped` records and the code does not. The
start script may fail with its server up or not, and the poll is content with any answer on the port. `proxy` is
what `_config_yaml` writes: the model the proxy lists, the one it asks for and the endpoint; `AgentModel` is what
the agent's own configuration names. A server may die at any time, and `died` is the runner's ignorance of it
until the next preflight.

**ProxyLog.** The proxy appends; the runner snapshots, drains, reads and truncates, with the proxy free to
write between any two of these. Time is the number of traces begun, which is all the filter tells apart.
A finish record carries LiteLLM's `start_time` and a start record the callback's own clock, so the two may
fall on different sides of a trace start. A record may be lost, or written in part: `torn` remembers that a
fragment fell into the present stage. A record that is being written when the log is read is a fragment to
`_parse_proxy_log_records`, which goes on at the next line or brace. `Snapshot` takes the size of the file, which
may lie inside a record that a request left over from before is still writing: `split` holds such records, and
`WriteRest` appends the tail, which the stage reads as a fragment. Strays are requests of a process that
outlived its agent.

**AgentStage.** Every row of the instance runs `stage()` of its adapter, stage after stage, in the two pools.
`file` holds, for each row's home and for the one file of the user, which row it was last written for; `ran`
is what the agent of the present stage has read. `_set_vibe_active_model` is three steps (read, truncate,
fill), because `write_text` truncates first. `AgentText` is `_extract_text`, which goes by the first word of
the command: under `_sudo_local_command` that is `sudo` or `/bin/zsh`. Where it knows the word, OpenCode's text is
what its stdout parses to, empty or not, and the others fall back on stderr. `Summaries` are the protocol summaries
an adapter can hand to `assert_local_stage_healthy`.

**OutputDir.** `pc` follows one command; the next one starts when it has ended, and `ExportPublic` may read at
any time. `results.by` remembers the exclusions the writer of `results.json` knew. The reports are kept as
who wrote them, which tasks they score and which they name as excluded. Every file is first truncated
(`Truncate`, which leaves half a file and sets `open`) and then written (`WriteResults`, `WriteMd`, ...), and the next
one is truncated in a step of its own, so a kill may fall between any two of these. `check_task` is `CheckBase` and `CheckFixed`, which work in directories of their own: the code
interleaves their setup and acceptance in one fixed order that does not matter to either. The first three
lines of `run_suite` that can fail (an unknown exclusion, a suite that cannot be read) leave no trace in the
directory and are left out.

**ProxyProcess.** `pc` follows `start_proxy` and `stop_proxy`: `stop` and `pkill` (the two halves of
`stop_proxy`, also before another attempt and in the `finally` clause), `spawn`, `record` (between `Popen`
and the pid file), `poll` and `health` (the two questions of `_wait_for_proxy_ready`), `ready`. The half that
reads the pid file waits and sends SIGKILL, so its process is gone; the half that calls `pkill` does not
wait, so a proxy it reaches is in `termed` until it ends. A suite starts by removing the directory with the
pid file, so proxies of a killed run (`orphans`) are reached by `pkill` only. Process ids are used again
once their process is gone; that the pid file names a process of another program is not modelled.

**Progress.** The page reads `results.json` and the names under `artifacts/` while the run goes on.
`ShownActive`, `CloudActive` and `ShownDone` are what it would say of local, cloud and finished rows in the
present state; the properties compare them with what `SuiteRunner` does. `dirs` grows when a future starts to
run and is never cleared. The page takes a row without a `provider_class` for a local one while `run_suite`
takes it for a cloud row; every shipped row names its class, and the model has no row without one.

**AgentProcess.** `communicate()` returns when the agent is dead and nobody holds its pipes. `conf` says
whether the prompt goes through stdin, whom the runner may signal, who ignores SIGTERM, and whether tools
leave the process group.

## Runs

| run | instance | what it shows |
| --- | --- | --- |
| `suite_series` | 2 tasks, 2 local rows and 1 cloud row, 2 cloud workers, row failures, 2 starts | local rows are serial and row-major; the progress page names the items that run, and in the first run of a directory no others |
| `suite_faults` | 1 task, 3 local rows, two of them of one name, and 2 cloud rows, 1 worker, all faults, 2 starts, fairness | under failing writes, Ctrl-C and kills: a run that exits 0 is complete; the proxy stays with a running local row; nothing starts after the stop; duplicates only where writing a result failed; no orphan proxy after a normal end; `results.json` refines the ledger; every run ends, also when the `finally` clause joins pools nobody has cancelled |
| `suite_torn` | 2 tasks, 1 local and 1 cloud row, kills only | **violated**: a kill inside `write_json` leaves a file `--resume` cannot load |
| `row_stages` | 3 stages, all kinds of row, the 20 validators, all faults, 2 runs in one directory, fairness | clean base, stage policy, verdicts about the right source when the build worked and there is one tree, no result beside a missing or half an archive unless a run ended while it removed an old directory, every judge heard, an end |
| `local_managed` | all suites of 1 or 2 out of 11 rows and of 3 out of 5 that switch servers, 2 tasks each, failing starts, polls, preflights, stop scripts and tasks, dying servers, failing cloud rows, an interrupt at any step | right server, proxy and model for each task; one managed server as long as the stop scripts work; what the cleanup leaves after each kind of end; external servers untouched in external suites |
| `log_stages` | 3 interchangeable requests, 2 stages, strays, 1 lost or torn record, offsets inside records | traces are complete when nothing was open, a request is counted in its own stage, a stage has errors only for a record that was lost, open, or cut by its offset, a torn record is noticed |
| `proxy_restart` | 2 models, 2 attempts, 3 proxies at once, any number of suite runs, kills, dying proxies, fairness | one proxy that was not told to stop; the one that was started is the one that answers, unless an orphan is still ending; a start ends |
| `agent_budget` | budget of 3 slices, 2 tools, all configurations, fairness | all output read on return; an obedient group ends with its budget |
| `agent_stdin` | budget of 2 slices | **violated**: the second `communicate(stdin_text)` raises |
| `stage_config` | 2 rows of every pair of kinds (6 adapters, both pools), 1 or 2 workers, 2 stages, kills | each agent starts with the configuration of its own row; a Vibe row runs its model unless two can meet; no local row counts without the proxy |
| `stage_text` | the same with Codex and Claude cloud rows | **violated**: the published text of a Codex stage is the raw stdout of its command |
| `output_dir` | 2 tasks, all three commands, any exclusions, rows of an old version, kills | no excluded task is scored; the reports agree with `results.json`; exit 0 of run-suite means every task is scored, of check-task that the base failed and the fix passed |

The type invariants of `ProxyProcess` and `AgentStage` are proved and not part of a run. Each property of a
passing run comes with a mutant, listed in `PROJECT.json`: a definition that changes one
action the way a plausible bug would, with which TLC finds the property violated. They stand in the modules
directly before the definitions they change and are marked `Mutant`.

**Bounds.** The largest runs have 1.0 million distinct states (`suite_faults`), 1.5 (`row_stages`), 1.6
(`stage_config`), 4.9 (`local_managed`), 8.9 (`output_dir`) and 16 (`log_stages`). `MaxStarts = 2` because resuming is about one earlier run; `MaxRuns = 2` likewise for a run
directory. Two tasks and two local rows are what it takes for an order of local items; three local rows, two of
them of one name, for a change of proxy and for a proxy that is kept; two cloud rows and one worker for a queued
item at a failure, two workers and a local row for batches of several futures. Three stages are the default of
`stage_budget_seconds`; two stages of `AgentStage` are the first, which writes into a new home, and one that
finds its own files there. Three rows allow a server switch forth and back. Three requests over two stages
allow one that spans both stages and one inside each; `MaxLost = 1` because one missing record already makes
a trace incomplete and its absence cannot hide behind another; the requests are model values and all
invariants treat them alike, so their symmetry is sound. Two tasks in `OutputDir` are one that changes and one
that stays. Three proxies at once are an orphan,
one that is ending and a new one; with no process id left, `Spawn` waits. Two attempts are a failed one and
the last one. No other counter is bounded; `OutputDir` and `AgentStage` run any number of commands, kills
and starts.

**Fairness.** `SuiteRunner!FairSpec` lets the main thread and every future make progress: they are threads,
and a row ends because its stages do, which holds for agents that obey SIGTERM and can be signalled, as
`agent_budget` shows, and not for others. A second Ctrl-C, while the `finally` clause is at work, is not modelled. `ProgressSpec` is the same with the directories beside it. `TaskRow!FairSpec` lets the row progress: every command returns or is timed out;
`git clone` has no timeout, which is an assumption. `AgentProcess!FairSpec` schedules the runner and lets a
process die once it was sent a signal it obeys; no agent is assumed to stop by itself.
`ProxyProcess!FairSpec` lets calls go on, time pass, and a LiteLLM process end after SIGTERM, which is an
assumption about LiteLLM; a starting process need never bind its port. Ctrl-C, kills, failures and starts
are never forced.

**Deadlock** is checked in `output_dir`, where a next command is always possible. The other models end (a
suite's last start, a row's last run, a stage), and `Terminates`, `RowEnds` and `BudgetEndsStage` say that it ends where it should.

## Proofs

Each theorem holds for every value of the constants that satisfies the named `ASSUME`s of its module; the
runs show the same properties on small instances. Every invariant and every action property the passing runs
check is stated by a theorem. Each inductive invariant below was checked by TLC on the constants of the
component's run before it was proved.

### The suite runner: `SuiteRunner_proofs`

For every suite, position of tasks and rows, row names, number of workers, set of faults and number of starts.
The assumptions are those of `SuiteRunner`: tasks and rows are finite sets in an order without ties, local rows
are rows, and `None` is no row. Rows may have one name; where a theorem speaks of names it says so.

* `TypeCorrect`. `TypeOK` is inductive; its part `done \in SUBSET futureMap` is more than a type: the batch in
  hand is always waited for.
* `NoDuplicates`, and `RefinesLedger`, `Spec => LedgerRefinement`: `run_suite` implements `ResultsLedger`, with
  `results.rows` as the ledger, an untruncated file as `readable` and `fresh` as `discarding`. Starts map to
  `StartResumed` and `StartFresh`, `BeginWrite` to `Truncate`, each completed write to `Rewrite`, and every
  other step to a stutter. Neither property is inductive: nothing in it says that a popped key is new, or that
  `run_rows` and the file differ by one key only. `LedgerInv` adds both. `PlaceInv`: a key is in `futureMap`, in
  `todoLocal` or among the rows, in one of them at most. `PhaseInv`: by the place of the main thread,
  `run_rows` is what the next rewrite keeps (`Kept`), or that and the outcome of one new key. After an
  interrupt nothing is claimed of the two, because the run no longer writes.
* `LocalInSeries`, `ProxyIsServing`, `ProxyIsStopped` and `AbortIsFinal` share `PoolInv`. `SeriesInv`: at most
  one local item is waited for, none while the row of one is being written, and all that is still to be handed
  out comes after it; without its last part `LocalSeries` says nothing of the next item. `AbortInv`: what the
  shutdowns have cancelled at each place of the main thread, and that `future_map` is empty when the `finally`
  clause is reached without an exception. `RowInv`: a local item that may be followed by another finds the proxy
  of `current_local_row_name`; `Prepare` skips the start on that name alone. `StoppedInv`: after `finally` no
  proxy. `AbortIsFinal` is an action property; it follows from the part of `AbortInv` about the queues.
* `SuccessDoesAll`. `CompleteInv` says that no key is lost (`NoneLostInv`), that local items to come have one
  before them that hands out the next (`ChainInv`), and that the rows added are results (`AddedInv`), of a run
  that neither failed nor was interrupted. `ChainInv` needs that a next item exists: `NextLocalExists`, for every
  finite set of items, by the well-foundedness of strict inclusion (the items up to a given one), because an
  induction over the set is out of the prover's reach.
* `PageIsTrue`, about `ProgressSpec`: what the page says from the file and the directories is true. It compares
  cardinalities: with one row per key (`CountsInv`) a row of the suite with a task missing has fewer rows than
  tasks (`CountMissing`, the pigeonhole principle), and with all tasks recorded it has enough (`CountAll`).
  `MissingLocal` brings the order of `run_suite` into the order the page assumes. It is about suites whose
  rows differ in name, because the page counts rows by name. `HeldInv` and `DirsInv` tie running items to futures
  and directories. Its hypothesis, neither write faults nor kills, is needed, and TLC
  finds what happens otherwise: after a failed write a key has two rows in the file, and the page calls a row of
  the suite done while another item of it is to be run; after a kill the first run's directories look active.

### One row: `TaskRow_proofs`

For every number of stages and runs and every set of faults, over the twenty validators: `TypeCorrect`,
`StagesFollowPolicy`, `BaseIsClean`, `SolvedByItsSource`, `ResultIsLast`, `EveryJudgeHeard`. The invariant says
what `run_task_row` has established at each of its steps. `StageInv`: before the first stage nothing is
recorded, while stages run none has passed and one is left, a row is judged after a pass only. `BuildInv`: a
setup that succeeded has built the present source where the validator looks, which is what makes a verdict one
about the source (`RealInv`). `DiskInv` follows the workspace into the archive and the result to its place beside
it; it claims nothing of a directory that is being removed (`Clearing`), which may hold any of the entries of the
run before, and `Cleared` is where the claim starts again. `JudgeInv` counts the engines the row went through. An exception or a kill may leave any step, so nothing is claimed of what they leave but
what the next start sets again. What validators of each kind link is the lemma `ValidatorKinds`.

### Local models: `LocalRuntime_proofs`

For every set of suites whose rows have names, of any length, every server of the user and every set of faults:
`TypeCorrect`, `OneServer`, `NothingLeft`, `ServerIsRight`, `AgentMeetsModel`. The invariants speak of both threads.
`OwnerInv`: a server of the suite is up only if a managed row asked for it, and when one is started after a stop
script that worked, nothing else is up; the main thread only ever takes servers down. `CleanInv`, for
`NothingLeft`, says what the worker may still do after the `finally` clause has begun: if it was met in its task, or
without one, it starts nothing more. `StartInv`: what the preflight of a managed row looks at is what was
started for it. The heart is what the two remembered values stand for: `current_local_profile` is the profile of
some row that was preflighted since the last change (`Looked`), and `current_local_row_name` the name of some row
whose proxy runs (`ProxyInv`), until the `finally` clause stops it. From the profile of *some* row to the server
of *this* row takes `OneBackendPerProfile`, and from the name to the proxy `NamesDiffer`. The proof found both
conditions: a managed and an external row of one profile and one endpoint share a preflight as well, and
`run_local_item` compares names only (`core.py:1183`). The rows that show it are in `MCLocalRuntime`.
The conditions of the properties are needed, and TLC finds what happens otherwise: after a stop script that failed
two servers of the suite may be up, or the one of another model under the same name; after an interrupt that met
the worker before its task, a server and a proxy that nobody stops.

### The request log: `ProxyLog_proofs`

For every number of requests, stages and lost records: `TypeCorrect`, `TraceTrue`, `NeverBlamed`, `TornNoticed`.
Runner and proxy share a file and no lock, so the invariant ties three things together: how far a request has
come, which of its records lie behind the runner's offset or were lost (`StageInv`), and the stages in which it
was received and stamped (`TimeInv`). `RecordInv`: what a record says of its request is still true of it.
`LeftInv`: if nothing was open when the trace began, nothing foreign lies behind the offset. The records the
offset cuts are of requests that were open then, and their rest is written before the log is emptied
(`SplitInv`), which the file system sees to; so the fragments are theirs or those of torn records. `CountInv` carries
what was counted from the reading to the judgement, while requests go on. The lemmas about the slice
of the log behind the offset (`NewIsTail`, `ReadsRecent`) and its finite counts are stated once.

### Processes, adapters and files

* `ProxyProcess_proofs`, for every set of models and processes and number of attempts: `TypeCorrect`,
  `OneProxyAlways` and the action property `ReadyIsMineAlways`. `ProxyInv` says who can be running at each step:
  what a killed suite left, and the process the pid file names or is about to name (`KnownInv`); that the
  process being polled is recorded (`MineInv`); and that all others were sent SIGTERM (`ToldInv`). Without
  `KnownInv` the readiness poll could be answered by anybody.
* `AgentProcess_proofs`, for every budget and set of tools: `TypeCorrect` and `NothingPending`. `GroupInv`: only a
  live agent that was not told to go starts tools, so a group that was signalled never grows; the agent
  itself is in its group as long as it lives (`AgentInv`).
* `AgentStage_proofs`, for every finite set of rows, kinds and number of stages: `AgentTypeCorrect`;
  `OwnConfiguration` by `Prepared`, which adds what holds before the agent starts (the home of a row holds its
  configuration) and that only Vibe rows come to rewrite the user's file; `LocalRowsTraced` by `FirstStage`, a
  local row outside the proxy never leaves its first stage; `VibeAlone`: a pool of one runs one row
  (`OneVibeRow`, from the cardinality in `Begin`), and `UserFile` says what the user's file and the text in
  memory hold at each of the row's steps. The hypotheses of the property are needed: TLC finds the swapped
  models, and the emptied file, as soon as one is dropped.
* `OutputDir_proofs`, for every set of tasks: `OutputTypeCorrect`; `ExclusionsHold`, by `FlagsStay` (a row whose
  task the writer excluded carries its flag, and normalising keeps it); `ReportsFollowResults` and
  `NothingMissing`, both by `Reported`, which says at each step of the writes what `run_rows`, `results.json`
  and the finished reports have in common; `OracleIsTrue` by `Checked`, what `check-task` has found at each of
  its steps, and that `run-suite` replaces `summary.md` before it returns.

### Only model-checked

The liveness properties `Terminates`, `RowEnds`, `StartEnds` and `BudgetEndsStage`: fairness and `ENABLED` are out
of the prover's reach. The progress page under write faults and kills, where `ProgressIsTrue` is false. The three
runs that expect a violation are counterexamples, and TLC gives them.

## Where the documents and the code part

Three disagreements have a run and a finding: `suite_torn`, `agent_stdin` and `stage_text`. Three more came up while
modelling; the models contain the behaviour, and no run is spent on them:

* `docs/running.md:20-21`: "Fortbench never stops a server it did not start". One managed row is enough for every
  switch to it (`core.py:1064`) and for the `finally` clause (`core.py:1239`) to run the stop script for all servers
  of the host. In `LocalRuntime` a suite of a managed and an external row takes down the user's server;
  `CleansUp` claims the sentence for suites of external rows, which is what the shipped suites are.
* `docs/running.md:32-33`: "Missing variables fail before the first task". They are looked at when the first task
  of their own row begins (`core.py:1176`): `Key` of a later row fails after the tasks of the earlier ones.
* `README.md:31` of the repository, about OpenCode: "an isolated agent configuration for every stage".
  `AgentStage!Isolated` says which stages have one: every Codex stage and the OpenCode stages of local rows. A cloud
  row of OpenCode starts with the configuration of the user (`adapters.py:839`), as the other adapters do, and
  Vibe rows rewrite that configuration.

## Not modelled

* Liveness, for every value of the constants: `Terminates`, `RowEnds`, `BudgetEndsStage` and `StartEnds`
  stay with TLC, because fairness is out of the prover's reach.
* What no document promises has no property: what Ctrl-C drops, that a later local row is begun when a failed
  row of the same batch has not been popped yet, what is left of a server or a proxy when Ctrl-C meets the local
  worker before its task, what a run that is cut short while it removes an old directory leaves of it, that an
  agent that ignores SIGTERM or runs under sudo keeps its stage waiting, that an answer of a judge which is no
  object fails the row, whose requests a trace holds when a process outlived its agent.
* Conditions in the properties name what the code does not exclude: `OneBackendPerProfile`, `NamesDiffer`, `died`,
  `unstopped`, `caught`, `split`, `Clearing`, `VibeRowsAlone`, `OnlyBuild`, `Untouched`, `DistinctNames`,
  `verdict.built`. Without them TLC finds the behaviours the hazards describe.
* That two cloud rows of one name work in one run directory at the same time, and two tasks of one id in a suite.
* Pure formatting and parsing: the columns and lines of reports, host inventory, the contents of agents'
  configuration files and their flags, transcripts, the redaction of the export; YAML; argparse; the Fortran
  and C programs of the validators; `scripts/start-llamacpp.sh`, which the runner never calls.
* In the archive: which paths are skipped, and the `chmod` of unreadable ones.

## Plan

1. Two suites on one host: `pkill` by port reaches the proxy of the other, and both may hold the same server.
   `LocalRuntime` composed with `ProxyProcess`.
2. Proofs: every safety property of the runs has its theorem; what is left is what new modules will state, and
   the page under write faults, once it is known what it should say there.
3. `TaskRow` as a refinement of an abstract row (clean, judged, archived, stored) that `SuiteRunner` assumes.
