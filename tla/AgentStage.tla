------------------------------ MODULE AgentStage ------------------------------
(***************************************************************************)
(* The stage() methods of the six adapters (fortbench/adapters.py), run by   *)
(* concurrent rows: the configuration file an agent starts with and who      *)
(* wrote it last, what becomes of the agent's output, and which outputs the  *)
(* health assertion of run_task_row lets pass.                               *)
(*                                                                         *)
(* The agents themselves are outside the repository: an agent reads its      *)
(* configuration when it starts and prints something.  The process is        *)
(* AgentProcess's subject, the trace of a local row ProxyLog's.              *)
(***************************************************************************)
EXTENDS Naturals, FiniteSets

CONSTANTS
  Rows,      \* the (task, row) pairs that run
  Stages,    \* Len(stage_budget_seconds)
  Kinds,     \* the kinds of rows considered
  Vibe       \* names the one file of the user: ~/.vibe/config.toml

Adapters == {"opencode", "codex", "claude", "qwen", "vibe", "aider"}

\* adapter; provider_class "local"; whether the row gives a vibe_model.
ASSUME ConstAssumption ==
  /\ Stages \in Nat \ {0} /\ Vibe \notin Rows /\ IsFiniteSet(Rows)
  /\ Rows \cap {"user", "noLine", "empty", "missing"} = {}
  /\ Kinds \subseteq [adapter : Adapters, local : BOOLEAN, names : BOOLEAN]

\* What a configuration file holds: the row it was written for, the active_model
\* line of the user, text without such a line, nothing, or it does not exist.
Contents == Rows \cup {"user", "noLine", "empty", "missing"}

\* stdout of an agent: events with an answer, events without one, text that is
\* no JSON, half a line, nothing at all.
Outputs == {"answered", "silent", "plain", "cut", "nothing"}

VARIABLES
  conf,     \* the kinds of the rows
  workers,  \* cloud_parallelism
  pc,       \* pc[r]: the step of stage() that is next
  stage,    \* stage[r]: the stage
  file,     \* file[f]: the configuration of each row's home, and of the user
  text,     \* text[r]: what read_text returned to the Vibe adapter
  ran,      \* ran[r]: the configuration the agent of the stage has read
  out,      \* out[r]: its output
  answer,   \* answer[r]: agent_text: the answer, the output, stderr, or none
  spoiled   \* a kill came while the user's file was truncated

config == <<file, text, ran, spoiled>>
vars   == <<conf, workers, pc, stage, config, out, answer>>

Idle == {"idle", "done", "raised"}

Running(pool) == {r \in pool : pc[r] \notin Idle}
LocalPool == {r \in Rows : conf[r].local}
CloudPool == Rows \ LocalPool

\* The adapters that write their agent a configuration of its own.
Isolated(r) == \/ conf[r].adapter = "codex"
               \/ conf[r].adapter = "opencode" /\ conf[r].local

\* Mutant: _benchmark_agent_home, the default when no home_dir is passed.
AgentHome(r) == CHOOSE q \in Rows : conf[q].adapter = conf[r].adapter

\* .codex-home or .opencode-home in the row's run directory, which stands for the
\* configuration directory beside it as well.
Home(r) == r

ConfigOf(r) == IF conf[r].adapter = "vibe" THEN Vibe ELSE Home(r)

Init ==
  /\ conf \in [Rows -> Kinds] /\ workers \in {1, 2}
  /\ pc = [r \in Rows |-> "idle"] /\ stage = [r \in Rows |-> 1]
  /\ \E user \in {"user", "noLine", "missing"} :
       file = [f \in Rows \cup {Vibe} |-> IF f = Vibe THEN user ELSE "missing"]
  /\ text = [r \in Rows |-> "missing"] /\ ran = [r \in Rows |-> "missing"]
  /\ out = [r \in Rows |-> "nothing"] /\ answer = [r \in Rows |-> "none"]
  /\ spoiled = FALSE

At(r, step)       == pc[r] = step
Goto(r, step)     == pc' = [pc EXCEPT ![r] = step]
WriteFile(f, new) == file' = [file EXCEPT ![f] = new]

-----------------------------------------------------------------------------
\* A worker takes the row up in a run directory that was removed before.
Begin(r) ==
  /\ At(r, "idle")
  /\ IF conf[r].local THEN Running(LocalPool) = {}
     ELSE Cardinality(Running(CloudPool)) < workers
  /\ Goto(r, "configure") /\ stage' = [stage EXCEPT ![r] = 1]
  /\ WriteFile(r, "missing")
  /\ UNCHANGED <<text, ran, spoiled, out, answer>>

\* _write_codex_benchmark_config, _write_codex_cloud_config and
\* _write_opencode_benchmark_config; the others name the model on the command line.
Configure(r) ==
  /\ At(r, "configure") /\ ~(conf[r].adapter = "vibe" /\ conf[r].names)
  /\ IF Isolated(r) THEN WriteFile(Home(r), r) ELSE UNCHANGED file
  /\ Goto(r, "launch")
  /\ UNCHANGED <<stage, text, ran, spoiled, out, answer>>

\* _set_vibe_active_model: nothing to do without a file.
VibeRead(r) ==
  /\ At(r, "configure") /\ conf[r].adapter = "vibe" /\ conf[r].names
  /\ text' = [text EXCEPT ![r] = file[Vibe]]
  /\ Goto(r, IF file[Vibe] = "missing" THEN "launch" ELSE "truncate")
  /\ UNCHANGED <<stage, file, ran, spoiled, out, answer>>

\* write_text opens the file, which empties it, before it writes.
VibeTruncate(r) ==
  /\ At(r, "truncate")
  /\ WriteFile(Vibe, "empty") /\ Goto(r, "fill")
  /\ UNCHANGED <<stage, text, ran, spoiled, out, answer>>

\* Mutant: the text is written back as it was read.
Unsubstituted(old, r) == IF old = "missing" THEN r ELSE old

\* re.sub replaces the first active_model line, and adds none.
Substituted(old, r) == IF old \in Rows \cup {"user"} THEN r ELSE old

VibeFill(r) ==
  /\ At(r, "fill")
  /\ WriteFile(Vibe, Substituted(text[r], r)) /\ Goto(r, "launch")
  /\ UNCHANGED <<stage, text, ran, spoiled, out, answer>>

\* The agent starts, and reads its configuration.
Launch(r) ==
  /\ At(r, "launch") /\ Goto(r, "agent")
  /\ ran' = [ran EXCEPT ![r] = file[ConfigOf(r)]]
  /\ UNCHANGED <<stage, file, text, spoiled, out, answer>>

\* command[0] is sudo or /bin/zsh where _sudo_local_command wraps the command.
Wrapped(r) == Isolated(r)

\* _extract_text goes by command[0]: it parses what opencode, qwen and claude print,
\* and leaves anything else as it is.  The stdout of opencode may be empty, and is
\* the text then; the others fall back on stderr.
Parsed(r) == ~Wrapped(r) /\ conf[r].adapter \in {"opencode", "qwen", "claude"}

AgentText(r, o) ==
  IF o = "answered" /\ Parsed(r) THEN "answer"
  ELSE IF o = "nothing" /\ ~(Parsed(r) /\ conf[r].adapter = "opencode") THEN "stderr"
  ELSE "stdout"

\* _run_command returns: the agent is done, or was stopped in the middle of a line.
Agent(r) ==
  /\ At(r, "agent") /\ Goto(r, "judge")
  /\ \E o \in Outputs : /\ out' = [out EXCEPT ![r] = o]
                        /\ answer' = [answer EXCEPT ![r] = AgentText(r, o)]
  /\ UNCHANGED <<stage, config>>

\* Lines (codex) or the whole of stdout (claude) that json.loads refuses.
ParseErrors(o) == o \in {"plain", "cut"}

\* The protocol summaries a stage can end with: a set of them, none for an
\* adapter that makes no summary.
Traces == [kind : {"proxy"}, writeErrors : BOOLEAN, requests : {0, 1}]
Summaries(r) ==
  IF Isolated(r) /\ conf[r].local THEN Traces
  ELSE IF conf[r].adapter \in {"codex", "claude"}
  THEN {[kind |-> "cli", writeErrors |-> ParseErrors(out[r]), requests |-> 0]}
  ELSE {}

\* Mutant: a local stage is only checked for its log.
HealthyLog(r, s) == conf[r].local => ~s.writeErrors

\* assert_local_stage_healthy; the other defects of a trace are ProxyLog's.
HealthyStage(r, s) ==
  /\ ~s.writeErrors
  /\ conf[r].local => s.requests > 0

Unsummarised(r) == Summaries(r) = {} /\ ~conf[r].local

StagesLeft(r) == stage[r] < Stages

\* The collector, _write_stage_files and the assertion; a stage that passes is
\* the last one if its acceptance is.
Judge(r) ==
  /\ At(r, "judge")
  /\ \/ /\ Unsummarised(r) \/ \E s \in Summaries(r) : HealthyStage(r, s)
        /\ \/ Goto(r, "done") /\ stage' = stage
           \/ StagesLeft(r) /\ Goto(r, "configure") /\ stage' = [stage EXCEPT ![r] = @ + 1]
     \/ /\ ~Unsummarised(r)
        /\ Summaries(r) = {} \/ \E s \in Summaries(r) : ~HealthyStage(r, s)
        /\ Goto(r, "raised") /\ stage' = stage
  /\ UNCHANGED <<config, out, answer>>

\* The runner is killed; the rows are taken up again by a resumed run.
Kill ==
  /\ \E r \in Rows : pc[r] # "idle"
  /\ spoiled' = (spoiled \/ \E r \in Rows : pc[r] = "fill")
  /\ pc' = [r \in Rows |-> "idle"] /\ stage' = [r \in Rows |-> 1]
  /\ text' = [r \in Rows |-> "missing"] /\ ran' = [r \in Rows |-> "missing"]
  /\ out' = [r \in Rows |-> "nothing"] /\ answer' = [r \in Rows |-> "none"]
  /\ UNCHANGED file

Step(r) == \/ Begin(r) \/ Configure(r) \/ VibeRead(r) \/ VibeTruncate(r) \/ VibeFill(r)
           \/ Launch(r) \/ Agent(r) \/ Judge(r)

Next == (Kill \/ \E r \in Rows : Step(r)) /\ UNCHANGED <<conf, workers>>

Spec == Init /\ [][Next]_vars
-----------------------------------------------------------------------------
(* Properties.                                                               *)

\* Type invariant.
TypeOK ==
  /\ conf \in [Rows -> Kinds] /\ workers \in {1, 2}
  /\ pc \in [Rows -> Idle \cup {"configure", "truncate", "fill", "launch", "agent", "judge"}]
  /\ stage \in [Rows -> 1..Stages]
  /\ file \in [Rows \cup {Vibe} -> Contents]
  /\ text \in [Rows -> Contents] /\ ran \in [Rows -> Contents]
  /\ out \in [Rows -> Outputs]
  /\ answer \in [Rows -> {"none", "answer", "stdout", "stderr"}]
  /\ spoiled \in BOOLEAN

\* Cloud rows run in parallel and share nothing but the host: an agent that gets
\* a configuration of its own runs with the one written for its own row.
OwnConfigIsUsed ==
  \A r \in Rows : Isolated(r) /\ pc[r] \in {"agent", "judge"} => ran[r] = r

\* The Vibe rows cannot meet: they are in one pool, and it has one worker.
VibeRows == {r \in Rows : conf[r].adapter = "vibe"}
VibeRowsAlone ==
  \/ VibeRows \subseteq LocalPool
  \/ VibeRows \subseteq CloudPool /\ workers = 1

\* A Vibe row that names a model runs with it, if the user's file has a line for
\* it, no kill has ever met the file half written, and Vibe rows cannot meet.
\* Two Vibe rows that do meet may swap their models, and lose the line for good.
VibeAloneIsRight ==
  VibeRowsAlone /\ ~spoiled /\ file[Vibe] \notin {"noLine", "missing"} =>
    \A r \in VibeRows : conf[r].names /\ pc[r] \in {"agent", "judge"} => ran[r] = r

\* A local row counts only if its agent went through the proxy; the adapters that
\* keep the provider of the user never pass as local.
LocalRowsUseTheProxy ==
  \A r \in Rows : conf[r].local /\ (pc[r] = "done" \/ stage[r] > 1) => Isolated(r)

\* "The exporter retains model output ... but drops raw logs" (docs/publishing.md):
\* _public_stage publishes agent_text as model_output, so it is not the output of
\* the agent's command where the agent gave an answer.
PublishedIsNoLog ==
  \A r \in Rows : pc[r] = "done" /\ out[r] = "answered" => answer[r] # "stdout"
=============================================================================
