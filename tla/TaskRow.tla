------------------------------ MODULE TaskRow ------------------------------
(***************************************************************************)
(* run_task_row (fortbench/core.py): one (task, row) pair from an empty run *)
(* directory to its result.json.  Clone with retries, reject a task whose   *)
(* base already passes, up to Stages fresh agent invocations that each end  *)
(* in setup and acceptance, judges for a solved row, archive, result.       *)
(*                                                                         *)
(* The workspace is its source and the build trees under build/: a task's   *)
(* setup_commands build the source, and its validate.py (TaskValidators)    *)
(* links a program to a library it finds there, or builds one itself.  The  *)
(* exit status of the setup commands is recorded but decides nothing.       *)
(***************************************************************************)
EXTENDS Naturals, Sequences, TaskValidators

CONSTANTS
  Stages,        \* Len(stage_budget_seconds)
  Faults,        \* which of "network", "raise", "crash", "undeletable" happen
  MaxRuns        \* bound: how many times this row is run in this directory

ASSUME ConstAssumption == Stages \in Nat /\ MaxRuns \in Nat

\* A version of the source: the base, a repair the validator accepts, one that it
\* does not, one that does not compile.  Dirs are the build trees: the one the setup
\* commands use, and one of another profile the agent may have built.
Versions == {"base", "good", "bad", "broken"}
Dirs     == {"setup", "other"}
NoBuild  == "none"
Trees    == [Dirs -> {NoBuild, "base", "good", "bad"}]
Empty    == [d \in Dirs |-> NoBuild]

\* What differs from row to row and from task to task: provider_class "local",
\* judge_engines (none without run_judges), the task's validator and whether it
\* accepts the base commit.
Configs == [local : BOOLEAN, basePasses : BOOLEAN, validator : Validators,
            engines : {<<>>, <<"other", "claude", "codex">>}]

\* The engines the code knows; any other is passed over without a word.
Engines == {"claude", "codex"}

VARIABLES
  conf,       \* the row and the task
  pc,         \* the step of run_task_row that is next
  attempt,    \* of clone_workspace_at
  present,    \* the workspace directory exists
  src, built, \* the source and the build trees in it
  setupOk,    \* the last setup commands all succeeded
  verdicts,   \* stage_results: the acceptance of every stage so far
  judges,     \* the judges of the result: engine -> "ok" or "error"
  asked,      \* judge_engines that were gone through
  tries,      \* the answers of the present judge that were not valid
  status,     \* final_status of the result, or "none"
  archived,   \* row-artifacts.tar.zst: the source it holds, "half" of it, or "none"
  stored,     \* result.json: the status it holds, "torn" while it has none, or "none"
  runs        \* how often the row was run

workspace == <<present, src, built>>
judging   == <<judges, asked, tries>>
record    == <<setupOk, verdicts, status, judging>>
disk      == <<archived, stored>>
vars      == <<conf, pc, attempt, workspace, record, disk, runs>>

Accepts(v) == v = "good" \/ (v = "base" /\ conf.basePasses)

Init ==
  /\ conf \in Configs
  /\ pc = "idle" /\ attempt = 0
  /\ present = FALSE /\ src = "base" /\ built = Empty
  /\ setupOk = FALSE /\ verdicts = <<>> /\ status = "none"
  /\ judges = <<>> /\ asked = 0 /\ tries = 0
  /\ archived = "none" /\ stored = "none" /\ runs = 0

\* shutil.rmtree(ignore_errors=True): files of the benchmark user may stay, and
\* the directory with them.
RmTree == \/ present' = FALSE /\ src' = "base" /\ built' = Empty
          \/ "undeletable" \in Faults /\ present /\ UNCHANGED workspace

\* The pair is taken up, while the directory of an earlier run is still there.
Start ==
  /\ pc \in {"idle", "returned", "raised", "halfCleared"} /\ runs < MaxRuns
  /\ pc' = "clear" /\ runs' = runs + 1 /\ attempt' = 0
  /\ setupOk' = FALSE /\ verdicts' = <<>> /\ status' = "none"
  /\ judges' = <<>> /\ asked' = 0 /\ tries' = 0
  /\ UNCHANGED <<workspace, disk>>

\* _remove_path_best_effort on the old run directory: one entry after the other, as
\* the file system lists them.  A workspace that is half removed is in the way of the
\* clone like a whole one.
ClearEntry ==
  /\ pc = "clear"
  /\ \/ archived # "none" /\ archived' = "none" /\ UNCHANGED <<stored, workspace>>
     \/ stored # "none" /\ stored' = "none" /\ UNCHANGED <<archived, workspace>>
     \/ present /\ RmTree /\ UNCHANGED disk
  /\ UNCHANGED <<pc, attempt, record, runs>>

Cleared ==
  /\ pc = "clear"
  /\ archived = "none" /\ stored = "none" /\ (present => "undeletable" \in Faults)
  /\ pc' = "clone" /\ attempt' = 1
  /\ UNCHANGED <<workspace, record, disk, runs>>

\* Mutant: a workspace that is still there is used again.
CloneReuses ==
  /\ pc = "clone"
  /\ present' = TRUE /\ UNCHANGED <<src, built>>
  /\ pc' = "baseSetup"
  /\ UNCHANGED <<attempt, record, disk, runs>>

\* git clone refuses a directory that is not empty.
CloneOk ==
  /\ pc = "clone"
  /\ ~present
  /\ present' = TRUE /\ src' = "base" /\ built' = Empty
  /\ pc' = "baseSetup"
  /\ UNCHANGED <<attempt, record, disk, runs>>

\* Mutant: the last attempt is followed by another round.
CloneRetriesForever ==
  /\ pc = "clone" /\ ("network" \in Faults \/ present)
  /\ RmTree
  /\ attempt' = IF attempt < 3 THEN attempt + 1 ELSE 1
  /\ UNCHANGED <<pc, record, disk, runs>>

\* clone or checkout fails; the tree is removed and the third failure raises.
CloneFails ==
  /\ pc = "clone" /\ ("network" \in Faults \/ present)
  /\ RmTree
  /\ IF attempt < 3 THEN attempt' = attempt + 1 /\ pc' = pc
     ELSE pc' = "raised" /\ attempt' = attempt
  /\ UNCHANGED <<record, disk, runs>>

\* The trees the validator can link, of those that hold a library.
Linkable == IF conf.validator.library = "any" THEN Dirs
            ELSE {conf.validator.library} \cap Dirs

\* Mutant: a tree that was built once is not built again.
SetupOnce ==
  /\ pc \in {"baseSetup", "setup"}
  /\ pc' = IF pc = "baseSetup" THEN "baseAccept" ELSE "accept"
  /\ setupOk' = TRUE
  /\ built' = IF built["setup"] = NoBuild /\ src # "broken"
              THEN [built EXCEPT !["setup"] = src] ELSE built
  /\ UNCHANGED <<attempt, present, src, verdicts, status, judging, disk, runs>>

\* run_setup: every command is run, whatever became of the one before it.  They
\* build into their own tree when the source compiles and its dependencies can
\* be fetched; the validators that build for themselves have none that build.
Setup ==
  /\ pc \in {"baseSetup", "setup"}
  /\ pc' = IF pc = "baseSetup" THEN "baseAccept" ELSE "accept"
  /\ setupOk' \in BOOLEAN
  /\ \/ "setup" \notin Linkable /\ UNCHANGED built
     \/ "setup" \in Linkable /\ src # "broken" /\ built' = [built EXCEPT !["setup"] = src]
     \/ /\ "setup" \in Linkable /\ setupOk' = FALSE
        /\ src = "broken" \/ "network" \in Faults
        /\ UNCHANGED built
  /\ UNCHANGED <<attempt, present, src, verdicts, status, judging, disk, runs>>

\* What stands where a validator looks.
Holds == [setup  |-> {built["setup"]} \ {NoBuild},
          any    |-> {built[d] : d \in Dirs} \ {NoBuild},
          source |-> {src},
          own    |-> {src}]

Links == Holds[conf.validator.library] \X Holds[conf.validator.interface]

\* The verdicts the validator can reach: it fails without a library, and may fail
\* with an interface that is not the library's.
Verdict ==
  IF Links = {} THEN {FALSE}
  ELSE {Accepts(l[1]) : l \in Links} \cup {FALSE : l \in {k \in Links : k[1] # k[2]}}

\* A base that already passes makes the row an "error" row without any stage.
BaseAccept ==
  /\ pc = "baseAccept"
  /\ \E ok \in Verdict :
       IF ok THEN pc' = "archive" /\ status' = "error"
       ELSE /\ pc' = IF Stages = 0 THEN "raised" ELSE "stage"
            /\ UNCHANGED status
  /\ UNCHANGED <<attempt, workspace, setupOk, verdicts, judging, disk, runs>>

\* What assert_local_stage_healthy reads of a protocol summary, if there is one.
Summaries == [present : BOOLEAN, writeErrors : BOOLEAN, requests : {0, 1},
              drained : BOOLEAN, foreignStarts : {0, 1}]

Healthy(s) ==
  /\ conf.local => s.present
  /\ s.present => ~s.writeErrors
  /\ conf.local => s.requests > 0 /\ s.drained /\ s.foreignStarts = 0

\* adapter.stage: whatever the adapter, a fresh agent is run on the workspace; it
\* edits the source, builds and deletes builds as it likes.
AgentWorks ==
  /\ src' \in {src, "good", "bad", "broken"}
  /\ built' \in {b \in Trees : \A d \in Dirs :
                   b[d] \in IF d \in Linkable THEN {built[d], "good", "bad", NoBuild}
                           ELSE {built[d]}}

\* A stage: the agent, and then the protocol summary of its adapter is judged.
Stage ==
  /\ pc = "stage"
  /\ AgentWorks
  /\ \E s \in Summaries : pc' = IF Healthy(s) THEN "setup" ELSE "raised"
  /\ UNCHANGED <<attempt, present, record, disk, runs>>

\* Mutant: no early stop at the first pass.
AcceptRunsAllStages ==
  /\ pc = "accept"
  /\ \E ok \in Verdict :
       /\ verdicts' = Append(verdicts, ok)
       /\ IF Len(verdicts') < Stages THEN status' = status /\ pc' = "stage"
          ELSE status' = (IF ok THEN "solved" ELSE "failed") /\ pc' = "archive"
  /\ UNCHANGED <<attempt, workspace, setupOk, judging, disk, runs>>

\* Mutant: one stage too many.
AcceptOneMore ==
  /\ pc = "accept"
  /\ \E ok \in Verdict :
       /\ verdicts' = Append(verdicts, ok)
       /\ IF ok THEN status' = "solved" /\ pc' = "archive"
          ELSE IF Len(verdicts) = Stages THEN status' = "failed" /\ pc' = "archive"
          ELSE status' = status /\ pc' = "stage"
  /\ UNCHANGED <<attempt, workspace, setupOk, judging, disk, runs>>

\* run_acceptance closes the stage: stop at the first pass, or at the last stage.
Accept ==
  /\ pc = "accept"
  /\ \E ok \in Verdict :
       /\ verdicts' = Append(verdicts, ok)
       /\ IF ok THEN status' = "solved" /\ pc' = "judge"
          ELSE IF Len(verdicts') = Stages THEN status' = "failed" /\ pc' = "archive"
          ELSE status' = status /\ pc' = "stage"
  /\ UNCHANGED <<attempt, workspace, setupOk, judging, disk, runs>>

-----------------------------------------------------------------------------
(* The judges of a solved row: each engine in turn looks at the workspace.    *)

\* What comes back from a judge: an answer that passes validate_judge_result,
\* one that does not or is no JSON, JSON that is no object, or nothing (the
\* command fails, runs into its 300 seconds or has no last message).
Answers == {"valid", "invalid", "noObject", "nothing"}

\* run_codex_judge asks twice, and only after an answer that was not valid.
Retries(engine) == engine = "codex" /\ tries = 0

NextEngine == asked' = asked + 1 /\ tries' = 0 /\ pc' = pc

Entered(engine, outcome) ==
  [e \in DOMAIN judges \cup {engine} |-> IF e = engine THEN outcome ELSE judges[e]]

\* Mutant: a judge that gives no valid answer leaves no entry.
JudgeDropsErrors ==
  /\ pc = "judge" /\ asked < Len(conf.engines)
  /\ LET engine == conf.engines[asked + 1] IN
     \E answer \in Answers :
       IF engine \in Engines /\ answer = "valid"
       THEN judges' = Entered(engine, "ok") /\ NextEngine
       ELSE judges' = judges /\ NextEngine
  /\ UNCHANGED <<attempt, workspace, setupOk, verdicts, status, disk, runs>>

\* A judge is an agent that may write to the workspace.  The checks of its answer call
\* methods of an object: the AttributeError that JSON of another kind raises is not
\* caught, and fails the solved row.
Judge ==
  /\ pc = "judge" /\ asked < Len(conf.engines)
  /\ LET engine == conf.engines[asked + 1] IN
     \/ engine \notin Engines /\ judges' = judges /\ NextEngine /\ UNCHANGED workspace
     \/ /\ engine \in Engines /\ AgentWorks /\ UNCHANGED present
        /\ \E answer \in Answers :
             \/ answer = "valid" /\ judges' = Entered(engine, "ok") /\ NextEngine
             \/ /\ answer = "invalid" /\ Retries(engine)
                /\ tries' = tries + 1 /\ UNCHANGED <<judges, asked, pc>>
             \/ /\ answer = "nothing" \/ (answer = "invalid" /\ ~Retries(engine))
                /\ judges' = Entered(engine, "error") /\ NextEngine
             \/ answer = "noObject" /\ pc' = "raised" /\ UNCHANGED judging
  /\ UNCHANGED <<attempt, setupOk, verdicts, status, disk, runs>>

Judged ==
  /\ pc = "judge" /\ asked = Len(conf.engines)
  /\ pc' = "archive"
  /\ UNCHANGED <<attempt, workspace, record, disk, runs>>

-----------------------------------------------------------------------------
(* The archive and the result.                                               *)

\* Mutant: what the archive is to hold is deleted first.
ArchiveRemovesFirst ==
  /\ pc = "archive" /\ pc' = "remove"
  /\ RmTree
  /\ UNCHANGED <<attempt, record, disk, runs>>

\* archive_row_artifacts: tar and zstd over everything but the result, ...
Archive ==
  /\ pc = "archive" /\ pc' = "remove"
  /\ archived' = src
  /\ UNCHANGED <<attempt, workspace, record, stored, runs>>

\* ... and then what was packed is deleted, as far as that can be done.
Remove ==
  /\ pc = "remove" /\ pc' = "store"
  /\ RmTree
  /\ UNCHANGED <<attempt, record, disk, runs>>

\* write_json opens result.json, which empties it, ...
Store ==
  /\ pc = "store" /\ pc' = "fill"
  /\ stored' = "torn"
  /\ UNCHANGED <<attempt, workspace, record, archived, runs>>

\* ... and then writes it.
Fill ==
  /\ pc = "fill" /\ pc' = "returned"
  /\ stored' = status
  /\ UNCHANGED <<attempt, workspace, record, archived, runs>>

\* The archive may be there, or half of it, when its step is cut short.
CutShort == archived' \in IF pc = "archive" THEN {archived, "half", src} ELSE {archived}

\* A removal that is cut short leaves any of the entries.
Ended(step) == pc' = IF pc = "clear" THEN "halfCleared" ELSE step

\* A command runs into its 600 seconds, tar or zstd fails, the disk is full; a removal
\* under sudo runs into its 30 seconds.
Raise ==
  /\ "raise" \in Faults
  /\ pc \in {"clear", "clone", "baseSetup", "baseAccept", "stage", "setup", "accept",
             "judge", "archive", "remove", "store", "fill"}
  /\ Ended("raised") /\ CutShort
  /\ UNCHANGED <<attempt, workspace, record, stored, runs>>

\* Killed: the directory stays as it is until the row is run again.
Crash ==
  /\ "crash" \in Faults
  /\ pc \notin {"idle", "returned", "raised", "halfCleared"}
  /\ Ended("idle") /\ CutShort
  /\ UNCHANGED <<attempt, workspace, record, stored, runs>>

Step == /\ \/ ClearEntry \/ Cleared \/ CloneOk \/ CloneFails \/ Setup \/ BaseAccept \/ Stage \/ Accept
           \/ Judge \/ Judged \/ Archive \/ Remove \/ Store \/ Fill
        /\ UNCHANGED conf

Other == (Start \/ Raise \/ Crash) /\ UNCHANGED conf

Next == Step \/ Other

Spec     == Init /\ [][Next]_vars
FairSpec == Spec /\ WF_vars(Step)   \* every command returns or is timed out
-----------------------------------------------------------------------------
(* Properties.                                                               *)

\* Type invariant.
TypeOK ==
  /\ conf \in Configs
  /\ pc \in {"idle", "clear", "halfCleared", "clone", "baseSetup", "baseAccept", "stage",
             "setup", "accept", "judge", "archive", "remove", "store", "fill", "returned", "raised"}
  /\ attempt \in 0..3 /\ runs \in 0..MaxRuns
  /\ present \in BOOLEAN /\ src \in Versions /\ built \in Trees
  /\ setupOk \in BOOLEAN /\ verdicts \in Seq(BOOLEAN) /\ Len(verdicts) <= Stages
  /\ status \in {"none", "solved", "failed", "error"}
  /\ \A e \in DOMAIN judges : e \in Engines /\ judges[e] \in {"ok", "error"}
  /\ asked \in 0..Len(conf.engines) /\ tries \in {0, 1}
  /\ archived \in Versions \cup {"none", "half"}
  /\ stored \in {"none", "torn", "solved", "failed", "error"}

\* "Each run uses a clean workspace": the base is judged on the base commit and
\* its own build only, whatever a killed run or an undeletable file left behind.
CleanWorkspace ==
  pc \in {"baseSetup", "baseAccept"} =>
    src = "base" /\ \A d \in Dirs : built[d] \in {NoBuild, "base"}

\* "Stages stop early on first acceptance pass": only the last stage can have
\* passed, solved means that it did, failed that every stage was used in vain.
StagePolicy ==
  /\ \A i \in 1..Len(verdicts) : verdicts[i] => i = Len(verdicts) /\ status = "solved"
  /\ status = "solved" => Len(verdicts) > 0 /\ verdicts[Len(verdicts)]
  /\ status = "failed" => Len(verdicts) = Stages
  /\ status = "error" => verdicts = <<>> /\ pc \notin {"stage", "setup", "accept", "judge"}

\* The build the last setup commands made is the only one the validator can link:
\* they all succeeded, and the agent left no second tree.
OnlyBuild == setupOk /\ (conf.validator.library = "any" => built["other"] = NoBuild)

\* No judge has been near the workspace since the verdict.
Untouched == judges = <<>> /\ tries = 0

\* A row is not solved by a stale build: the source in the workspace is one that
\* is accepted, at once for a validator that builds for itself, and for the others
\* if there was no second build to link.
SolvedIsReal ==
  /\ pc \in {"judge", "archive"} /\ status = "solved" /\ Untouched
  /\ conf.validator.library = "own" \/ OnlyBuild
  => Accepts(src)

\* The directory holds what an earlier run has left, or some of it.
Clearing == pc \in {"clear", "halfCleared"}

\* The archive is whole.
Packed == archived \notin {"none", "half"}

\* result.json is written last: it holds the status of the row it was written for, or
\* nothing if its writing was cut short, and it never stands beside a missing or half
\* an archive.  Wherever the row is cut short, the source that was judged is in the
\* workspace or in the archive, and a row that was solved by its sources, and seen by
\* no judge, is archived with them.  Only a run that ends while it removes the
\* directory of the one before can leave its result without its archive.
ResultAfterArchive ==
  ~Clearing =>
    /\ stored # "none" => Packed /\ stored \in {"torn", status}
    /\ status # "none" => present \/ Packed
    /\ stored = "solved" /\ judges = <<>> /\ conf.validator.library = "own"
         => Accepts(archived)

\* A result is written only when every judge that was asked for is heard, and
\* only a solved row is judged.
JudgesComplete ==
  /\ judges # <<>> => status = "solved"
  /\ stored = "solved" /\ ~Clearing =>
       DOMAIN judges = Engines \cap {conf.engines[i] : i \in 1..Len(conf.engines)}

\* A row that is not killed returns or raises: neither the clone nor a judge is
\* retried without end.
RowEnds == (pc = "clear") ~> (pc \in {"returned", "raised", "halfCleared", "idle"})
=============================================================================
