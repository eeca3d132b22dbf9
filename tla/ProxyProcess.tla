---------------------------- MODULE ProxyProcess ----------------------------
(***************************************************************************)
(* start_proxy and stop_proxy (fortbench/litellm_proxy.py): the LiteLLM      *)
(* processes of one port and one output directory, through killed suites    *)
(* and their restarts.  A suite starts with prepare_proxy_root, which        *)
(* removes the directory with the pid file in it; from then on only pkill,   *)
(* which sends SIGTERM and does not wait, reaches the proxy of a dead run.    *)
(***************************************************************************)
EXTENDS Naturals, FiniteSets

CONSTANTS
  Models,    \* the names a proxy can be configured to serve
  Attempts,  \* proxy_start_attempts()
  Procs,     \* bound: the process ids, so at most as many proxies live at once
  Faults     \* which of "crash", "exit" happen: the suite is killed, a proxy ends

ASSUME AttemptsAssumption == Attempts \in Nat \ {0}
ASSUME ProcsAssumption    == Procs \subseteq Nat \ {0} /\ IsFiniteSet(Procs)

NoPid == 0

VARIABLES
  pc,        \* the suite's step, or "down" when no suite runs
  model,     \* what the proxy that is being started should serve
  attempt,   \* of the loop in start_proxy
  pidfile,   \* litellm.pid, or NoPid
  mine,      \* proc, the Popen object of this attempt, or NoPid
  late,      \* the sixty seconds of _wait_for_proxy_ready are over
  proc,      \* pid -> "gone", "starting" or "up"
  termed,    \* the pids that were sent SIGTERM and have not ended
  serves,    \* pid -> the model it was configured with
  orphans    \* the proxies that ran when a suite was last killed

suite   == <<pc, model, attempt, mine, late>>
proxies == <<proc, termed, serves, orphans>>
vars    == <<suite, pidfile, proxies>>

Alive == {p \in Procs : proc[p] \in {"starting", "up"}}

\* Only one process can listen on the port.
Listener == {p \in Procs : proc[p] = "up"}

Init ==
  /\ pc = "down" /\ model \in Models /\ attempt = 0
  /\ pidfile = NoPid /\ mine = NoPid /\ late = FALSE
  /\ proc = [p \in Procs |-> "gone"] /\ termed = {} /\ orphans = {}
  /\ serves = [p \in Procs |-> model]

-----------------------------------------------------------------------------
(* The suite.                                                                *)

\* prepare_proxy_root removes the directory, pid file included; then a row
\* asks for a proxy.
SuiteStarts ==
  /\ pc = "down"
  /\ pidfile' = NoPid
  /\ pc' = "stop" /\ model' \in Models /\ attempt' = 0 /\ mine' = NoPid
  /\ UNCHANGED <<late, proxies>>

\* The row is done: the next row asks for a proxy of its own, or the finally
\* clause of the suite stops the last one.
RowDone ==
  /\ pc = "ready"
  /\ \/ pc' = "stop" /\ model' \in Models
     \/ pc' = "lastStop" /\ model' = model
  /\ attempt' = 0 /\ mine' = NoPid
  /\ UNCHANGED <<late, pidfile, proxies>>

Stops     == {"stop", "retryStop", "lastStop"}
PkillOf   == [stop |-> "pkill", retryStop |-> "retryPkill", lastStop |-> "lastPkill"]
Pkills    == {"pkill", "retryPkill", "lastPkill"}

\* Mutant: SIGTERM is not followed by SIGKILL.
TermPid ==
  /\ pc \in Stops
  /\ termed' = termed \cup (Alive \cap {pidfile})
  /\ pc' = PkillOf[pc]
  /\ UNCHANGED <<model, attempt, mine, late, pidfile, proc, serves, orphans>>

\* stop_proxy, first half: SIGTERM, five seconds and SIGKILL for the group in
\* the pid file.  Nothing of it is left after that.
KillPid ==
  /\ pc \in Stops
  /\ proc' = [p \in Procs |-> IF p = pidfile THEN "gone" ELSE proc[p]]
  /\ termed' = termed \ {pidfile}
  /\ pc' = PkillOf[pc]
  /\ UNCHANGED <<model, attempt, mine, late, pidfile, serves, orphans>>

\* Where stop_proxy returns to: the loop of start_proxy, or, after its last
\* attempt, the finally clause of run_suite, which stops once more.
AfterStop ==
  [pkill |-> "spawn", lastPkill |-> "down",
   retryPkill |-> IF attempt < Attempts THEN "spawn" ELSE "lastStop"]

\* Mutant: only the recorded process is stopped.
ForgetPid ==
  /\ pc \in Pkills
  /\ pidfile' = NoPid
  /\ pc' = AfterStop[pc]
  /\ attempt' = IF pc' = "spawn" THEN attempt + 1 ELSE 0
  /\ UNCHANGED <<model, mine, late, proxies>>

\* stop_proxy, second half: pkill sends SIGTERM to every proxy of the port and
\* waits for none; the pid file is removed.
Pkill ==
  /\ pc \in Pkills
  /\ termed' = termed \cup Alive
  /\ pidfile' = NoPid
  /\ pc' = AfterStop[pc]
  /\ attempt' = IF pc' = "spawn" THEN attempt + 1 ELSE 0
  /\ UNCHANGED <<model, mine, late, proc, serves, orphans>>

\* _config_yaml: the file a new process reads names one model.
Configure(p) == serves' = [serves EXCEPT ![p] = model]

\* Popen, with the configuration file that was written for this row.
Spawn ==
  /\ pc = "spawn"
  /\ \E p \in Procs \ Alive :
       /\ \A q \in Procs \ Alive : p <= q
       /\ proc' = [proc EXCEPT ![p] = "starting"]
       /\ Configure(p)
       /\ orphans' = orphans \ {p}
       /\ mine' = p
  /\ pc' = "record" /\ late' = FALSE
  /\ UNCHANGED <<model, attempt, pidfile, termed>>

\* The configuration needs an unset variable, or the program is not installed:
\* start_proxy raises, and the finally clause of run_suite comes next.
SpawnFails ==
  /\ "exit" \in Faults
  /\ pc = "spawn" /\ pc' = "lastStop" /\ attempt' = 0
  /\ UNCHANGED <<model, mine, late, pidfile, proxies>>

Record ==
  /\ pc = "record"
  /\ pidfile' = mine /\ pc' = "poll"
  /\ UNCHANGED <<model, attempt, mine, late, proxies>>

\* Mutant: the deadline is not looked at.
PollForEver ==
  /\ pc = "poll"
  /\ pc' = IF mine \in Alive THEN "health" ELSE "retryStop"
  /\ UNCHANGED <<model, attempt, mine, late, pidfile, proxies>>

\* _wait_for_proxy_ready: the deadline, proc.poll(), ...
Poll ==
  /\ pc = "poll"
  /\ pc' = IF ~late /\ mine \in Alive THEN "health" ELSE "retryStop"
  /\ UNCHANGED <<model, attempt, mine, late, pidfile, proxies>>

\* ... then GET /v1/models of whoever listens on the port.
Health ==
  /\ pc = "health"
  /\ pc' = IF \E p \in Listener : serves[p] = model THEN "ready" ELSE "poll"
  /\ UNCHANGED <<model, attempt, mine, late, pidfile, proxies>>

Deadline ==
  /\ pc \in {"poll", "health"} /\ ~late
  /\ late' = TRUE
  /\ UNCHANGED <<pc, model, attempt, mine, pidfile, proxies>>

\* The suite is killed; its proxies are in sessions of their own.
SuiteKilled ==
  /\ "crash" \in Faults /\ pc # "down"
  /\ pc' = "down" /\ attempt' = 0 /\ mine' = NoPid
  /\ orphans' = Alive
  /\ UNCHANGED <<model, late, pidfile, proc, termed, serves>>

-----------------------------------------------------------------------------
(* The proxies.                                                              *)

\* Binding the port: a second listener exits with an error.
Bind(p) ==
  /\ proc[p] = "starting"
  /\ \/ Listener = {} /\ proc' = [proc EXCEPT ![p] = "up"] /\ termed' = termed
     \/ Listener # {} /\ proc' = [proc EXCEPT ![p] = "gone"] /\ termed' = termed \ {p}
  /\ UNCHANGED <<suite, pidfile, serves, orphans>>

\* A process that was told to end does so when its open requests are answered;
\* another ends only by a fault.
Exit(p) ==
  /\ p \in Alive /\ (p \in termed \/ "exit" \in Faults)
  /\ proc' = [proc EXCEPT ![p] = "gone"] /\ termed' = termed \ {p}
  /\ UNCHANGED <<suite, pidfile, serves, orphans>>

StopProxy == KillPid \/ Pkill
Wait      == Poll \/ Health

Next == \/ SuiteStarts \/ RowDone \/ SuiteKilled
        \/ StopProxy \/ Spawn \/ SpawnFails \/ Record \/ Wait \/ Deadline
        \/ \E p \in Procs : Bind(p) \/ Exit(p)

Spec == Init /\ [][Next]_vars

\* A call of start_proxy or stop_proxy runs on, time passes, and a process that
\* was told to end does so.  Nothing makes a starting proxy bind its port: it may
\* hang, which is what the sixty seconds are for.
FairSpec == /\ Spec
            /\ WF_vars(StopProxy) /\ WF_vars(Spawn) /\ WF_vars(Record)
            /\ WF_vars(Wait) /\ WF_vars(Deadline)
            /\ \A p \in Procs : WF_vars(p \in termed /\ Exit(p))
-----------------------------------------------------------------------------
(* Properties.                                                               *)

\* Type invariant.
TypeOK ==
  /\ pc \in {"down", "spawn", "record", "poll", "health", "ready"} \cup Stops \cup Pkills
  /\ model \in Models /\ attempt \in 0..Attempts /\ late \in BOOLEAN
  /\ pidfile \in Procs \cup {NoPid} /\ mine \in Procs \cup {NoPid}
  /\ proc \in [Procs -> {"gone", "starting", "up"}]
  /\ termed \in SUBSET Alive /\ orphans \in SUBSET Procs
  /\ serves \in [Procs -> Models]

\* However often the suite is killed, in the window between Popen and the pid
\* file too: at most one proxy runs that was not told to stop.
OneProxy == Cardinality(Alive \ termed) <= 1

\* When start_proxy returns, the proxy that answered is the process it has
\* started and recorded, unless one that a killed run left is still ending: the
\* readiness poll asks the port, not the process.
ReadyIsMine ==
  [][pc = "health" /\ pc' = "ready" /\ orphans \cap Alive = {} =>
       proc[mine] = "up" /\ serves[mine] = model /\ pidfile = mine /\ mine \notin termed]_vars

\* start_proxy comes back: with a proxy, or with an error after its attempts.
StartEnds == pc = "stop" ~> pc \in {"ready", "lastStop", "down"}
=============================================================================
