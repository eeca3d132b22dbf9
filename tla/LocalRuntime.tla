---------------------------- MODULE LocalRuntime ----------------------------
(***************************************************************************)
(* run_local_item (fortbench/core.py) over the local rows of a suite: which *)
(* llama.cpp server and which proxy are up when a task runs, who started    *)
(* them, which model the row's agent asks for and which one it is sent on   *)
(* to, and what the finally clause of run_suite stops.  There are two       *)
(* threads: the worker of the local pool, and the main thread, which hands  *)
(* out the items and may leave its loop at any moment while the worker is   *)
(* in the middle of a switch.                                               *)
(*                                                                         *)
(* The server scripts live in FORTBENCH_SCRIPTS_DIR, outside the            *)
(* repository: "stop all" takes every llama.cpp server of the host down, or *)
(* fails without the runner noticing; "start" brings one up on the port of  *)
(* the instance.                                                            *)
(***************************************************************************)
EXTENDS Naturals, Sequences, FiniteSets

CONSTANTS
  Suites,      \* the suites considered: sequences of local row records
  TaskCount,   \* how many tasks each row still has to run
  UserServers, \* url -> model, for the servers that ran before the suite
  Faults       \* which of "start" (a start, poll or preflight fails), "stop" (the stop
               \* script does), "task", "die" (a server), "cloud" (a cloud row fails)
               \* and "interrupt" (Ctrl-C, or a failed write of a failure) happen

\* name; adapter; model; local_lifecycle # "external"; local_model_alias;
\* local_instance; local_served_model_name, or "$" if it names an unset variable;
\* the endpoint, which the model list and the requests share.
RowFields == {"name", "adapter", "model", "managed", "alias", "instance", "served", "url"}

ASSUME RowAssumption ==
  /\ \A s \in Suites :
       /\ Len(s) \in Nat \ {0}
       /\ \A i \in 1..Len(s) :
            DOMAIN s[i] = RowFields /\ s[i].name # "" /\ s[i].managed \in BOOLEAN
  /\ TaskCount \in Nat \ {0}

Urls == (UNION {{s[i].url : i \in 1..Len(s)} : s \in Suites})
          \cup DOMAIN UserServers \cup {"8080", "8081"}

VARIABLES
  localRows,   \* the local rows of the suite, in suite order
  scripts,     \* FORTBENCH_SCRIPTS_DIR is set and holds the server scripts
  main,        \* the main thread: "loop", "abort" (it joins the pools after a failed
               \* cloud row), "cleanup" and "servers" (the two halves of the finally
               \* clause), "drain" (it joins the pools) or "end"
  pc,          \* the worker: the step of run_local_item, "done" or "failed"
  caught,      \* where the worker was when the main thread left its loop
  row, task,   \* the item: index of its row, and how many of its tasks ran
  profile,     \* current_local_profile, or <<>> for None
  curRow,      \* current_local_row_name, or "" for None
  proxy,       \* the running proxy, or NoProxy
  server,      \* url -> the running server, or Down
  killedUser,  \* a server the suite did not start was stopped
  unstopped,   \* a stop script has left a server up
  died         \* a server died since the last preflight

item    == <<row, task>>
memory  == <<profile, curRow>>
stopped == <<killedUser, unstopped>>
vars    == <<localRows, scripts, main, pc, caught, item, memory, proxy, server, stopped, died>>

Down == [model |-> "", alias |-> "", owner |-> "nobody"]
NoProxy == [row |-> "", serves |-> "", model |-> "", url |-> ""]

Row == localRows[row]

\* Mutant: rows of one instance share a profile whatever their model.
InstanceKey(r) == <<IF r.instance = "" THEN "local" ELSE r.instance, r.served>>

\* local_profile_key: neither the endpoint nor the lifecycle is part of it.
ProfileKey(r) ==
  <<IF r.instance = "" THEN "local" ELSE r.instance, r.alias, r.served>>

\* The port switch_local_model polls.
InstanceUrl(r) == IF r.instance = "fast" THEN "8081" ELSE "8080"

\* os.path.expandvars, with one variable that is set.
Expand(m) == IF m = "$M" THEN "m" ELSE m

\* Mutant: the proxy lists the name its upstream serves.
UpstreamName(r) == r.served

\* _proxy_model_name
ProxyModelName(r) == IF r.adapter = "opencode" THEN r.served ELSE Expand(r.model)

\* _config_yaml: the upstream is asked for the model it serves.
ProxyFor(r) ==
  [row |-> r.name, serves |-> ProxyModelName(r), model |-> r.served, url |-> r.url]

\* The model in the configuration of the row's agent; the variables of a Codex
\* row's model are not expanded.
AgentModel(r) == IF r.adapter = "opencode" THEN r.served ELSE r.model

\* The adapters that send their agent to the proxy; the proxy answers for the one
\* model it lists, and logs no request for another.
Reaches(r) == r.adapter \in {"opencode", "codex"} /\ AgentModel(r) = proxy.serves

Init ==
  /\ localRows \in Suites /\ scripts \in BOOLEAN
  /\ main = "loop" /\ pc = "item" /\ caught = ""
  /\ row = 1 /\ task = 0
  /\ profile = <<>> /\ curRow = "" /\ proxy = NoProxy
  /\ server = [u \in Urls |->
                 IF u \in DOMAIN UserServers
                 THEN [model |-> UserServers[u], alias |-> "", owner |-> "user"]
                 ELSE Down]
  /\ killedUser = FALSE /\ unstopped = FALSE /\ died = FALSE

-----------------------------------------------------------------------------
(* The worker: the switch of the profile.                                    *)

\* local_served_model_name raises on an unset variable before anything else.
Key ==
  /\ pc = "item"
  /\ IF Row.served = "$" THEN pc' = "failed" /\ UNCHANGED proxy
     ELSE IF ProfileKey(Row) # profile THEN pc' = "switch" /\ proxy' = NoProxy
     ELSE pc' = "proxy" /\ UNCHANGED proxy
  /\ UNCHANGED <<main, caught, item, memory, server, stopped, died>>

NeedsServer(r) == r.managed /\ r.alias # ""

\* server_stop_llamacpp.sh all, with check=False: a failure stays unnoticed, and
\* leaves some of the servers up.
StopAll ==
  \E left \in SUBSET {u \in Urls : server[u] # Down} :
    /\ left # {} => "stop" \in Faults
    /\ server' = [u \in Urls |-> IF u \in left THEN server[u] ELSE Down]
    /\ killedUser' = (killedUser \/ \E u \in Urls \ left : server[u].owner = "user")
    /\ unstopped' = (unstopped \/ left # {})

\* Mutant: the server that runs is left to the start script.
SwitchWithoutStop ==
  /\ pc = "switch"
  /\ pc' = IF NeedsServer(Row) THEN "start" ELSE "preflight"
  /\ UNCHANGED <<main, caught, item, memory, proxy, server, stopped, died>>

\* switch_local_model, up to the stop script.
SwitchStop ==
  /\ pc = "switch"
  /\ \/ NeedsServer(Row) /\ scripts /\ StopAll /\ pc' = "start"
     \/ NeedsServer(Row) /\ ~scripts /\ pc' = "failed" /\ UNCHANGED <<server, stopped>>
     \/ ~NeedsServer(Row) /\ pc' = "preflight" /\ UNCHANGED <<server, stopped>>
  /\ UNCHANGED <<main, caught, item, memory, proxy, died>>

\* What the start script brings up for a row; a port that is taken stays as it is.
Started(r) == [model |-> r.served, alias |-> r.alias, owner |-> "suite"]
Launch(r)  == server' = IF server[InstanceUrl(r)] = Down
                        THEN [server EXCEPT ![InstanceUrl(r)] = Started(r)] ELSE server

\* The start script, which may fail before or after its server is up, or because
\* the port is taken.
SwitchStart ==
  /\ pc = "start"
  /\ \/ pc' = "poll" /\ Launch(Row)
     \/ /\ "start" \in Faults \/ server[InstanceUrl(Row)] # Down
        /\ pc' = "failed" /\ (Launch(Row) \/ UNCHANGED server)
  /\ UNCHANGED <<main, caught, item, memory, proxy, stopped, died>>

\* Anything that answers on the port will do; after 1800 s without, it raises.
Poll ==
  /\ pc = "poll"
  /\ \/ pc' = "preflight" /\ server[InstanceUrl(Row)] # Down
     \/ pc' = "failed" /\ ("start" \in Faults \/ server[InstanceUrl(Row)] = Down)
  /\ UNCHANGED <<main, caught, item, memory, proxy, server, stopped, died>>

\* The server answers with the model the row expects.
Serves(r) == server[r.url] # Down /\ server[r.url].model = r.served

\* assert_local_server_model: also fails on an unset key or no answer in 5 s.
Preflight ==
  /\ pc = "preflight"
  /\ \/ /\ Serves(Row)
        /\ pc' = "proxy" /\ profile' = ProfileKey(Row) /\ curRow' = "" /\ died' = FALSE
     \/ /\ ~Serves(Row) \/ "start" \in Faults
        /\ pc' = "failed" /\ UNCHANGED <<memory, died>>
  /\ UNCHANGED <<main, caught, item, proxy, server, stopped>>

\* stop_proxy; start_proxy(row) when the row changes.
Proxy ==
  /\ pc = "proxy"
  /\ IF Row.name = curRow THEN UNCHANGED <<curRow, proxy>> /\ pc' = "task"
     ELSE \/ curRow' = Row.name /\ proxy' = ProxyFor(Row) /\ pc' = "task"
          \/ "start" \in Faults /\ pc' = "failed" /\ proxy' = NoProxy /\ curRow' = curRow
  /\ UNCHANGED <<main, caught, item, profile, server, stopped, died>>

\* run_task_row: without a logged request the first stage raises.  A server that
\* is down makes requests fail, which are logged, and the task scores as failed.
Task ==
  /\ pc = "task"
  /\ \/ Reaches(Row) /\ pc' = "done"
     \/ ("task" \in Faults \/ ~Reaches(Row)) /\ pc' = "failed"
  /\ UNCHANGED <<main, caught, item, memory, proxy, server, stopped, died>>

-----------------------------------------------------------------------------
(* The main thread: items in model-major order, and the ways out of its loop. *)

\* Mutant: one task too many.
NextItemPastLast ==
  /\ main = "loop" /\ pc = "done" /\ task < TaskCount
  /\ task' = task + 1 /\ row' = row /\ pc' = "item"
  /\ UNCHANGED <<main, caught, memory, proxy, server, stopped, died>>

\* submit_next_local, after a result is written.
NextItem ==
  /\ main = "loop" /\ pc = "done" /\ pc' = "item"
  /\ \/ task + 1 < TaskCount /\ task' = task + 1 /\ row' = row
     \/ task + 1 = TaskCount /\ row < Len(localRows) /\ task' = 0 /\ row' = row + 1
  /\ UNCHANGED <<main, caught, memory, proxy, server, stopped, died>>

LastItem == task + 1 = TaskCount /\ row = Len(localRows)

\* A cloud row failed: the pools are joined before the finally clause.
CloudFails ==
  /\ "cloud" \in Faults /\ main = "loop" /\ main' = "abort"
  /\ UNCHANGED <<pc, caught, item, memory, proxy, server, stopped, died>>

\* The finally clause with the worker at rest: the last item is done, one has failed,
\* or the pool is joined, which cancels an item that has not begun.
Leave ==
  /\ \/ main = "loop" /\ (pc = "failed" \/ (pc = "done" /\ LastItem))
     \/ main = "abort" /\ pc \in {"item", "done", "failed"}
  /\ main' = "cleanup" /\ caught' = "done" /\ pc' = IF pc = "item" THEN "done" ELSE pc
  /\ UNCHANGED <<item, memory, proxy, server, stopped, died>>

\* Ctrl-C, or writing the failure of a row fails: nobody cancels or joins the local
\* pool before the finally clause.
Interrupt ==
  /\ "interrupt" \in Faults /\ main \in {"loop", "abort"}
  /\ main' = "cleanup" /\ caught' = pc
  /\ UNCHANGED <<pc, item, memory, proxy, server, stopped, died>>

CleanProxy ==
  /\ main = "cleanup" /\ main' = "servers"
  /\ proxy' = NoProxy
  /\ UNCHANGED <<pc, caught, item, memory, server, stopped, died>>

\* Mutant: the servers are stopped only if every row is managed.
AllManaged == \A i \in 1..Len(localRows) : localRows[i].managed

\* The servers are stopped if any row is managed.
AnyManaged == \E i \in 1..Len(localRows) : localRows[i].managed

CleanServers ==
  /\ main = "servers" /\ main' = "drain"
  /\ IF AnyManaged /\ scripts THEN StopAll ELSE UNCHANGED <<server, stopped>>
  /\ UNCHANGED <<pc, caught, item, memory, proxy, died>>

\* shutdown(wait=True) waits for an item that was begun, and for one that was queued.
Joined ==
  /\ main = "drain" /\ pc \in {"done", "failed"} /\ main' = "end"
  /\ UNCHANGED <<pc, caught, item, memory, proxy, server, stopped, died>>

-----------------------------------------------------------------------------
\* A server ends while the suite runs: nobody looks before the next preflight.
ServerDies(u) ==
  /\ "die" \in Faults /\ main # "end"
  /\ server[u] # Down /\ server' = [server EXCEPT ![u] = Down]
  /\ died' = TRUE
  /\ UNCHANGED <<main, pc, caught, item, memory, proxy, stopped>>

Worker == Key \/ SwitchStop \/ SwitchStart \/ Poll \/ Preflight \/ Proxy \/ Task
Main   == NextItem \/ CloudFails \/ Leave \/ Interrupt \/ CleanProxy \/ CleanServers \/ Joined

Next == /\ Worker \/ Main \/ \E u \in Urls : ServerDies(u)
        /\ UNCHANGED <<localRows, scripts>>

Spec == Init /\ [][Next]_vars
-----------------------------------------------------------------------------
(* Properties.                                                               *)

\* Type invariant.
TypeOK ==
  /\ main \in {"loop", "abort", "cleanup", "servers", "drain", "end"}
  /\ pc \in {"item", "switch", "start", "poll", "preflight", "proxy", "task", "done", "failed"}
  /\ localRows \in Suites /\ scripts \in BOOLEAN /\ row \in 1..Len(localRows) /\ task \in 0..(TaskCount - 1)
  /\ DOMAIN server = Urls /\ \A u \in Urls : server[u].owner \in {"nobody", "user", "suite"}
  /\ killedUser \in BOOLEAN /\ unstopped \in BOOLEAN /\ died \in BOOLEAN

\* local_profile_key leaves the endpoint and the lifecycle out: rows that differ
\* in nothing else share the preflight of the first of them.
OneBackendPerProfile ==
  \A i, j \in 1..Len(localRows) :
    /\ "$" \notin {localRows[i].served, localRows[j].served}
    /\ ProfileKey(localRows[i]) = ProfileKey(localRows[j])
    => localRows[i].url = localRows[j].url /\ localRows[i].managed = localRows[j].managed

\* Nothing keeps two rows of a suite from having one name, which is all that
\* run_local_item compares before it keeps a proxy.
NamesDiffer ==
  \A i, j \in 1..Len(localRows) : localRows[i].name = localRows[j].name => i = j

\* The finally clause has stopped nothing yet.
Undisturbed == main \in {"loop", "abort", "cleanup"}

\* A task runs against the model of its own row: the proxy was configured for it and
\* its server serves the expected name, unless a server died since the preflight,
\* which nobody notices before the profile changes.  All managed servers may serve one
\* name: that the model behind it is the row's own takes stop scripts that worked.
RightServer ==
  pc = "task" /\ Undisturbed =>
    /\ proxy.row = Row.name
    /\ OneBackendPerProfile /\ ~died =>
         /\ Serves(Row)
         /\ NeedsServer(Row) /\ ~unstopped => server[Row.url].alias = Row.alias

\* The agent of a Codex or OpenCode row asks for the model the proxy lists, and is
\* sent to the endpoint and the model the preflight has looked at; a Codex row
\* must not have a variable in its model.
AgentMeetsItsModel ==
  /\ pc = "task" /\ Undisturbed
  /\ Row.adapter \in {"opencode", "codex"} /\ Expand(Row.model) = Row.model /\ NamesDiffer
  => /\ Reaches(Row)
     /\ OneBackendPerProfile /\ ~died => server[proxy.url].model = proxy.model

\* "Local rows run in strict series so GPU and inference-server contention does
\* not skew" (docs/protocol.md): at most one server of the suite's is up, whatever
\* start or poll failed and wherever the suite was interrupted, unless a stop script
\* has failed, which the runner does not look at.
OneManagedServer ==
  ~unstopped =>
    \A u, v \in Urls : server[u].owner = "suite" /\ server[v].owner = "suite" => u = v

\* Once the suite has returned there is neither a proxy nor a server of its own:
\* after any failure of a row, a start, a poll or a task, and after an interrupt
\* that met the worker in a task or between two items.  An interrupt that meets it
\* before its task lets it start both behind the back of the finally clause, and a stop
\* script may fail.  The servers of the user survive in suites of external rows; one
\* managed row is enough for the stop script to run, which stops theirs as well.
CleansUp ==
  /\ main = "end" /\ caught \in {"task", "done", "failed"} =>
       /\ proxy = NoProxy
       /\ ~unstopped => \A u \in Urls : server[u].owner # "suite"
  /\ (\A i \in 1..Len(localRows) : ~localRows[i].managed) => ~killedUser
=============================================================================
