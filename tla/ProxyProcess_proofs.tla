------------------------ MODULE ProxyProcess_proofs ------------------------
(***************************************************************************)
(* At most one proxy runs that was not told to stop, and the proxy that      *)
(* start_proxy returns is its own: for every number of models, attempts,     *)
(* processes and kills.                                                      *)
(*                                                                         *)
(* The argument: whatever runs was either left by a killed suite, or is the   *)
(* one process that the pid file names or is about to name; and everything   *)
(* that runs when a process is spawned was sent SIGTERM by pkill before.      *)
(***************************************************************************)
EXTENDS ProxyProcess, FiniteSetTheorems, TLAPS

\* Who can be running, by the place of the suite.
KnownInv ==
  /\ pc \in Pkills \cup {"spawn", "down"} => Alive \subseteq orphans
  /\ pc \in Stops => Alive \subseteq orphans \cup {pidfile}
  /\ pc \in {"record", "poll", "health", "ready"} => Alive \subseteq orphans \cup {mine}

\* The pid file names the process that is polled, and pkill came before it.
MineInv ==
  /\ pc \in {"record", "poll", "health", "ready"} => mine \in Procs /\ mine \notin termed
  /\ pc \in {"poll", "health", "ready"} => pidfile = mine

\* Who was not told to stop.
ToldInv ==
  /\ pc = "spawn" => Alive \subseteq termed
  /\ pc \in {"record", "poll", "health", "ready"} => Alive \subseteq termed \cup {mine}
  /\ \E p \in Procs \cup {NoPid} : Alive \subseteq termed \cup {p}

ProxyInv == KnownInv /\ MineInv /\ ToldInv
-----------------------------------------------------------------------------
\* The first attempt is counted from zero, so no attempt is past Attempts.
CountInv == TypeOK /\ (pc \in {"stop", "pkill"} => attempt = 0)

\* Every step keeps the type invariant.
LEMMA TypeInductive == CountInv /\ [Next]_vars => CountInv'
<1> SUFFICES ASSUME CountInv, [Next]_vars PROVE CountInv'
  OBVIOUS
<1> USE AttemptsAssumption, ProcsAssumption
    DEF CountInv, TypeOK, Stops, Pkills, Alive, NoPid, suite, proxies
<1>1. CASE SuiteStarts
  BY <1>1 DEF SuiteStarts
<1>2. CASE RowDone
  BY <1>2 DEF RowDone
<1>3. CASE SuiteKilled
  BY <1>3 DEF SuiteKilled
<1>4. CASE KillPid
  <2>1. pc' \in Pkills /\ (pc' = "pkill" => pc = "stop")
    BY <1>4 DEF KillPid, PkillOf
  <2> QED
    BY <1>4, <2>1 DEF KillPid
<1>5. CASE Pkill
  <2>1. /\ pc' \in {"spawn", "down", "lastStop"}
        /\ pc' = "spawn" => pc = "pkill" \/ attempt < Attempts
    BY <1>5 DEF Pkill, AfterStop
  <2>2. attempt' = IF pc' = "spawn" THEN attempt + 1 ELSE 0
    BY <1>5 DEF Pkill
  <2>3. attempt' \in 0..Attempts
    BY <2>1, <2>2
  <2> QED
    BY <1>5, <2>1, <2>3 DEF Pkill
<1>6. CASE Spawn
  <2>1. PICK p \in Procs \ Alive :
          /\ proc' = [proc EXCEPT ![p] = "starting"]
          /\ serves' = [serves EXCEPT ![p] = model]
          /\ orphans' = orphans \ {p} /\ mine' = p
    BY <1>6 DEF Spawn, Configure
  <2>2. /\ pc' = "record" /\ late' = FALSE
        /\ UNCHANGED <<model, attempt, pidfile, termed>>
    BY <1>6 DEF Spawn
  <2>3. proc' \in [Procs -> {"gone", "starting", "up"}] /\ Alive \subseteq Alive'
    BY <2>1
  <2>4. serves' \in [Procs -> Models]
    BY <2>1
  <2> QED
    BY <2>1, <2>2, <2>3, <2>4
<1>7. CASE SpawnFails
  BY <1>7 DEF SpawnFails
<1>8. CASE Record
  BY <1>8 DEF Record
<1>9. CASE Wait \/ Deadline
  BY <1>9 DEF Wait, Poll, Health, Deadline
<1>10. ASSUME NEW p \in Procs, Bind(p) PROVE CountInv'
  BY <1>10 DEF Bind, Listener
<1>11. ASSUME NEW p \in Procs, Exit(p) PROVE CountInv'
  BY <1>11 DEF Exit
<1>12. CASE UNCHANGED vars
  BY <1>12 DEF vars
<1> QED
  BY <1>1, <1>2, <1>3, <1>4, <1>5, <1>6, <1>7, <1>8, <1>9, <1>10, <1>11, <1>12
  DEF Next, StopProxy

\* The variables of the proxy module always have their types; in particular no
\* start goes past its attempts.
THEOREM TypeCorrect == Spec => []TypeOK
<1>1. Init => CountInv
  <2> SUFFICES ASSUME Init PROVE CountInv
    OBVIOUS
  <2>1. proc \in [Procs -> {"gone", "starting", "up"}] /\ serves \in [Procs -> Models]
    BY DEF Init
  <2>2. termed \in SUBSET Alive /\ orphans \in SUBSET Procs
    BY DEF Init
  <2>3. /\ pc = "down" /\ model \in Models /\ attempt = 0 /\ late = FALSE
        /\ pidfile = NoPid /\ mine = NoPid
    BY DEF Init
  <2>4. attempt \in 0..Attempts
    BY <2>3, AttemptsAssumption
  <2> QED
    BY <2>1, <2>2, <2>3, <2>4 DEF CountInv, TypeOK
<1>2. Spec => []CountInv
  BY <1>1, TypeInductive, PTL DEF Spec
<1> QED
  BY <1>2, PTL DEF CountInv

\* Every step keeps the invariant.
LEMMA ProxyInductive == TypeOK /\ ProxyInv /\ [Next]_vars => ProxyInv'
<1> SUFFICES ASSUME TypeOK, ProxyInv, [Next]_vars PROVE ProxyInv'
  OBVIOUS
<1> USE ProcsAssumption
    DEF ProxyInv, KnownInv, MineInv, ToldInv, TypeOK, Stops, Pkills, Alive, suite, proxies
<1>1. CASE SuiteStarts
  BY <1>1 DEF SuiteStarts
<1>2. CASE RowDone
  BY <1>2 DEF RowDone
<1>3. CASE SuiteKilled
  BY <1>3 DEF SuiteKilled
<1>4. CASE KillPid
  <2>1. pc \in Stops /\ pc' \in Pkills
    BY <1>4 DEF KillPid, PkillOf
  <2>2. Alive' = Alive \ {pidfile} /\ termed' = termed \ {pidfile} /\ orphans' = orphans
    BY <1>4 DEF KillPid
  <2> QED
    BY <2>1, <2>2
<1>5. CASE Pkill
  <2>1. pc \in Pkills /\ pc' \in {"spawn", "down", "lastStop"}
    BY <1>5 DEF Pkill, AfterStop
  <2>2. Alive' = Alive /\ Alive \subseteq termed' /\ orphans' = orphans
    BY <1>5 DEF Pkill
  <2>3. \E p \in Procs \cup {NoPid} : Alive' \subseteq termed' \cup {p}
    BY <2>2
  <2> QED
    BY <2>1, <2>2, <2>3
<1>6. CASE Spawn
  <2>1. PICK p \in Procs \ Alive :
          /\ proc' = [proc EXCEPT ![p] = "starting"]
          /\ orphans' = orphans \ {p} /\ mine' = p
    BY <1>6 DEF Spawn
  <2>2. pc = "spawn" /\ pc' = "record" /\ termed' = termed
    BY <1>6 DEF Spawn
  <2>3. Alive' = Alive \cup {p}
    BY <2>1
  <2>4. KnownInv' /\ MineInv'
    BY <2>1, <2>2, <2>3
  <2>5. Alive' \subseteq termed' \cup {p}
    BY <2>2, <2>3
  <2> QED
    BY <2>1, <2>2, <2>4, <2>5
<1>7. CASE SpawnFails
  BY <1>7 DEF SpawnFails
<1>8. CASE Record
  BY <1>8 DEF Record
<1>9. CASE Wait \/ Deadline
  BY <1>9 DEF Wait, Poll, Health, Deadline
<1>10. ASSUME NEW p \in Procs, Bind(p) \/ Exit(p) PROVE ProxyInv'
  <2>1. UNCHANGED <<pc, mine, pidfile, orphans>>
    BY <1>10 DEF Bind, Exit
  <2>2. /\ Alive' \subseteq Alive /\ termed' \subseteq termed
        /\ Alive' \cap termed \subseteq termed'
    BY <1>10 DEF Bind, Exit
  <2>3. \E q \in Procs \cup {NoPid} : Alive' \subseteq termed' \cup {q}
    BY <2>2
  <2> QED
    BY <2>1, <2>2, <2>3
<1>11. CASE UNCHANGED vars
  BY <1>11 DEF vars
<1> QED
  BY <1>1, <1>2, <1>3, <1>4, <1>5, <1>6, <1>7, <1>8, <1>9, <1>10, <1>11 DEF Next, StopProxy

\* The invariant holds in every state of every run.
THEOREM ProxyInvariant == Spec => []ProxyInv
<1>1. Init => ProxyInv
  <2> SUFFICES ASSUME Init PROVE ProxyInv
    OBVIOUS
  <2>1. Alive = {} /\ pc = "down"
    BY DEF Init, Alive
  <2>2. \E p \in Procs \cup {NoPid} : Alive \subseteq termed \cup {p}
    BY <2>1
  <2> QED
    BY <2>1, <2>2 DEF ProxyInv, KnownInv, MineInv, ToldInv, Stops, Pkills
<1> QED
  BY <1>1, TypeCorrect, ProxyInductive, PTL DEF Spec

\* However often the suite is killed, in the window before the pid file is
\* written too, at most one proxy runs that was not told to stop.
THEOREM OneProxyAlways == Spec => []OneProxy
<1>1. ToldInv => OneProxy
  <2> SUFFICES ASSUME ToldInv PROVE OneProxy
    OBVIOUS
  <2>1. PICK p \in Procs \cup {NoPid} : Alive \ termed \subseteq {p}
    BY DEF ToldInv
  <2>2. Alive \ termed = {} \/ Alive \ termed = {p}
    BY <2>1
  <2>3. Cardinality({}) = 0 /\ Cardinality({p}) = 1
    BY FS_EmptySet, FS_Singleton
  <2> QED
    BY <2>2, <2>3 DEF OneProxy
<1> QED
  BY <1>1, ProxyInvariant, PTL DEF ProxyInv

\* start_proxy returns only when the process it has started and recorded serves
\* the row's model, unless a proxy of a killed run is still ending.
THEOREM ReadyIsMineAlways == Spec => ReadyIsMine
<1>1. TypeOK /\ ProxyInv /\ [Next]_vars =>
        [pc = "health" /\ pc' = "ready" /\ orphans \cap Alive = {} =>
           proc[mine] = "up" /\ serves[mine] = model /\ pidfile = mine /\ mine \notin termed]_vars
  <2> SUFFICES ASSUME TypeOK, ProxyInv, [Next]_vars,
                      pc = "health", pc' = "ready", orphans \cap Alive = {}
               PROVE  /\ proc[mine] = "up" /\ serves[mine] = model
                      /\ pidfile = mine /\ mine \notin termed
    OBVIOUS
  <2>1. \E p \in Listener : serves[p] = model
    <3>1. Health
      BY DEF Next, StopProxy, Wait, vars, suite, SuiteStarts, RowDone, SuiteKilled, KillPid,
             Pkill, Spawn, SpawnFails, Record, Poll, Deadline, Bind, Exit, Stops, Pkills
    <3> QED
      BY <3>1 DEF Health
  <2>2. Alive \subseteq {mine} /\ pidfile = mine /\ mine \notin termed
    BY DEF ProxyInv, KnownInv, MineInv
  <2>3. Listener \subseteq Alive /\ \A p \in Listener : proc[p] = "up"
    BY DEF Listener, Alive
  <2> QED
    BY <2>1, <2>2, <2>3
<1> QED
  BY <1>1, TypeCorrect, ProxyInvariant, PTL DEF Spec, ReadyIsMine
=============================================================================
