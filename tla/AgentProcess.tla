---------------------------- MODULE AgentProcess ----------------------------
(***************************************************************************)
(* _run_command and _terminate_process (fortbench/adapters.py): one agent   *)
(* command in a session of its own, polled in slices of communicate() until *)
(* its budget is used up, then sent SIGTERM.  The agent may start tools     *)
(* that inherit its pipes.   communicate() returns once the agent is dead   *)
(* and no process holds the pipes any more.                                 *)
(***************************************************************************)
EXTENDS Naturals

CONSTANTS
  Budget,     \* timeout_seconds, in slices of 5 seconds
  Tools       \* the processes an agent may start

Agent == "agent"
Procs == {Agent} \cup Tools

ASSUME ConstAssumption ==
  /\ Agent \notin Tools
  /\ Budget \in Nat \ {0}

\* stdin: the prompt goes through stdin_text, as the Claude adapter does.
\* permission: whom the runner may signal; "none" under sudo.
\* deaf: the processes that survive SIGTERM.
\* escape: a tool may leave the process group.
Configs == [stdin : BOOLEAN, permission : {"group", "leader", "none"},
            deaf : SUBSET Procs, escape : BOOLEAN]

VARIABLES
  conf,      \* the command and the agent
  pc,        \* the runner: "poll", "fallback", "join", "returned", "raised"
  elapsed,   \* slices waited
  begun,     \* communicate() was called before: _communication_started
  timedOut,  \* returncode 124
  alive,     \* the processes that run
  pipes,     \* those of them that hold stdout or stderr
  group,     \* those of them in the process group of the agent
  signalled  \* those that were sent SIGTERM and obey it, or SIGKILL

world == <<alive, pipes, group, signalled>>
vars  == <<conf, pc, elapsed, begun, timedOut, world>>

Init ==
  /\ conf \in Configs
  /\ pc = "poll" /\ elapsed = 0 /\ begun = FALSE /\ timedOut = FALSE
  /\ alive = {Agent} /\ pipes = {Agent} /\ group = {Agent} /\ signalled = {}

-----------------------------------------------------------------------------
(* The agent and its tools.                                                  *)

StartTool(t) ==
  /\ Agent \in alive /\ Agent \notin signalled /\ t \notin alive
  /\ alive' = alive \cup {t}
  /\ pipes' \in {pipes, pipes \cup {t}}
  /\ group' = group \cup {t}
  /\ UNCHANGED <<pc, elapsed, begun, timedOut, signalled>>

Escape(t) ==
  /\ conf.escape /\ t \in group /\ t \notin signalled
  /\ group' = group \ {t}
  /\ UNCHANGED <<pc, elapsed, begun, timedOut, alive, pipes, signalled>>

Die(p) ==
  /\ p \in alive
  /\ alive' = alive \ {p} /\ pipes' = pipes \ {p}
  /\ group' = group \ {p} /\ signalled' = signalled \ {p}
  /\ UNCHANGED <<pc, elapsed, begun, timedOut>>

-----------------------------------------------------------------------------
(* _run_command.                                                             *)

Eof == Agent \notin alive /\ pipes = {}

\* communicate(input) refuses an input once a call of it has timed out.
Refused == conf.stdin /\ begun

\* Mutant: one slice too many.
PollingPastBudget == pc = "poll" /\ elapsed <= Budget

Polling == pc = "poll" /\ elapsed < Budget

Finished ==
  /\ Polling /\ ~Refused /\ Eof
  /\ pc' = "returned"
  /\ UNCHANGED <<elapsed, begun, timedOut, world>>

\* TimeoutExpired is caught and the loop goes round again.
Slice ==
  /\ Polling /\ ~Refused
  /\ elapsed' = elapsed + 1 /\ begun' = TRUE
  /\ UNCHANGED <<pc, timedOut, world>>

\* ValueError is not caught: the exception leaves the stage, the agent stays.
Refuse ==
  /\ Refused /\ (Polling \/ pc = "join")
  /\ pc' = "raised"
  /\ UNCHANGED <<elapsed, begun, timedOut, world>>

\* Mutant: the process group is not signalled.
TerminateNothing ==
  /\ pc = "poll" /\ elapsed = Budget
  /\ timedOut' = TRUE /\ pc' = "join"
  /\ UNCHANGED <<elapsed, begun, world>>

\* killpg(SIGTERM) of the session; when that is not permitted, terminate().
Terminate ==
  /\ pc = "poll" /\ elapsed = Budget
  /\ timedOut' = TRUE
  /\ IF conf.permission = "group" \/ group = {}
     THEN pc' = "join" /\ signalled' = signalled \cup (group \ conf.deaf)
     ELSE /\ pc' = "fallback"
          /\ signalled' = IF conf.permission = "leader"
                          THEN signalled \cup ((alive \cap {Agent}) \ conf.deaf)
                          ELSE signalled
  /\ UNCHANGED <<elapsed, begun, alive, pipes, group>>

\* proc.wait(5), and proc.kill() if the agent is still there.
Fallback ==
  /\ pc = "fallback" /\ pc' = "join"
  /\ signalled' = IF conf.permission = "leader" THEN signalled \cup (alive \cap {Agent})
                  ELSE signalled
  /\ UNCHANGED <<elapsed, begun, timedOut, alive, pipes, group>>

\* Mutant: the output is not waited for after the signal.
JoinAtOnce ==
  /\ pc = "join" /\ ~Refused
  /\ pc' = "returned"
  /\ UNCHANGED <<elapsed, begun, timedOut, world>>

\* communicate() without a timeout.
Join ==
  /\ pc = "join" /\ ~Refused /\ Eof
  /\ pc' = "returned"
  /\ UNCHANGED <<elapsed, begun, timedOut, world>>

Runner == /\ Finished \/ Slice \/ Refuse \/ Terminate \/ Fallback \/ Join
          /\ UNCHANGED conf

World == /\ \/ \E t \in Tools : StartTool(t) \/ Escape(t)
            \/ \E p \in Procs : Die(p)
         /\ UNCHANGED conf

Next == Runner \/ World

Spec == Init /\ [][Next]_vars

\* The runner is scheduled, and a process that was told to go, goes.  Nothing
\* makes an agent stop by itself.
FairSpec == /\ Spec /\ WF_vars(Runner)
            /\ \A p \in Procs : WF_vars(p \in signalled /\ Die(p) /\ UNCHANGED conf)
-----------------------------------------------------------------------------
(* Properties.                                                               *)

\* Type invariant.
TypeOK ==
  /\ conf \in Configs
  /\ pc \in {"poll", "fallback", "join", "returned", "raised"}
  /\ elapsed \in 0..Budget /\ begun \in BOOLEAN /\ timedOut \in BOOLEAN
  /\ alive \subseteq Procs /\ pipes \subseteq alive /\ group \subseteq alive
  /\ signalled \subseteq alive

\* A stage that has returned has all the output of its agent, and what still
\* runs is no part of a timed-out group that obeys SIGTERM.
NothingPendingAfterReturn ==
  pc = "returned" =>
    /\ Agent \notin alive /\ pipes = {}
    /\ timedOut /\ conf.permission = "group" /\ Agent \notin conf.deaf
         => group \subseteq signalled \cup conf.deaf

\* "timed out after {timeout_seconds} seconds" (adapters.py): when the budget is
\* used up the stage comes to its end, if the runner may signal the group, all
\* of it obeys SIGTERM and none of it leaves.
BudgetEndsStage ==
  (elapsed = Budget /\ conf.permission = "group" /\ conf.deaf = {} /\ ~conf.escape)
    ~> (pc \in {"returned", "raised"})

\* "except subprocess.TimeoutExpired: continue" (adapters.py): a slice that runs
\* out is no error, so a command returns a response and never raises.
SliceTimeoutIsNoError == pc # "raised"
=============================================================================
