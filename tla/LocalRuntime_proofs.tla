------------------------- MODULE LocalRuntime_proofs -------------------------
(***************************************************************************)
(* The local rows of a suite, for every suite, every server of the user and  *)
(* every fault, an interrupt at any step of the worker among them: each task *)
(* meets the server and the proxy of its own row, what the suite may leave   *)
(* behind, and when more than one server can be its own.                     *)
(*                                                                         *)
(* The runner looks at a server once per profile and configures a proxy once *)
(* per row.  The invariant says what current_local_profile and               *)
(* current_local_row_name stand for between these moments: some row of the   *)
(* suite was preflighted, or got its proxy, and nothing was changed since.   *)
(***************************************************************************)
EXTENDS LocalRuntime, TLAPS

Indices == 1..Len(localRows)

Whole == main \in {"loop", "abort", "cleanup", "servers"}   \* the servers were not cleaned up

\* The served name of the row of the item is set, but before it is looked at.
NameInv == pc \in {"switch", "start", "poll", "preflight", "proxy", "task"} => Row.served # "$"

\* A server of the suite is up only if a managed row asked for it, and nothing is up
\* when one is started, if the stop scripts have worked.
OwnerInv ==
  /\ pc = "start" => scripts /\ NeedsServer(Row) /\ (~unstopped => \A u \in Urls : server[u] = Down)
  /\ (\E u \in Urls : server[u].owner = "suite") => AnyManaged /\ scripts
  /\ killedUser => AnyManaged

\* A worker that was met in its task, or at rest, starts nothing any more: what the
\* finally clause has stopped stays stopped.
CleanInv ==
  main \notin {"loop", "abort"} /\ caught \in {"task", "done", "failed"} =>
    /\ pc \in {"task", "done", "failed"}
    /\ main # "cleanup" => proxy = NoProxy
    /\ main \in {"drain", "end"} /\ ~unstopped => \A u \in Urls : server[u].owner # "suite"

\* What the poll and the preflight of a managed row look at is what was started for it.
StartInv ==
  pc \in {"poll", "preflight"} /\ NeedsServer(Row) /\ ~unstopped =>
    \A u \in Urls : server[u] \in {Down, Started(Row)}

\* Row i was preflighted, and its server is as it was then.
Looked(i) ==
  /\ localRows[i].served # "$" /\ ProfileKey(localRows[i]) = profile
  /\ ~died => /\ Serves(localRows[i])
              /\ NeedsServer(localRows[i]) /\ ~unstopped =>
                   server[localRows[i].url].alias = localRows[i].alias

\* The current profile is that of a row that was preflighted, and of the row of the
\* item once that is known; the current row name is that of a row whose proxy runs.
ProfileInv ==
  /\ Whole /\ pc \in {"item", "proxy", "task", "done"} /\ profile # <<>> =>
       \E i \in Indices : Looked(i)
  /\ pc \in {"proxy", "task"} => profile = ProfileKey(Row)

ProxyInv ==
  /\ Undisturbed /\ pc \in {"item", "proxy", "task", "done"} /\ curRow # "" =>
       \E i \in Indices : localRows[i].name = curRow /\ proxy = ProxyFor(localRows[i])
  /\ pc = "task" => curRow = Row.name

-----------------------------------------------------------------------------
(* Types.                                                                    *)

\* The item is a row of the suite, whose number of rows is known.
LEMMA SuiteFacts ==
  ASSUME localRows \in Suites, row \in 1..Len(localRows)
  PROVE  /\ Len(localRows) \in Nat \ {0} /\ row \in Nat /\ row \in Indices
         /\ Row = localRows[row] /\ Row.name # "" /\ Row.url \in Urls
         /\ InstanceUrl(Row) \in Urls
<1>1. Len(localRows) \in Nat \ {0} /\ Row = localRows[row]
  BY RowAssumption DEF Row
<1>2. row \in Nat /\ row \in Indices
  BY <1>1 DEF Indices
<1>3. Row.name # ""
  BY <1>1, RowAssumption
<1>4. Row.url \in {localRows[i].url : i \in 1..Len(localRows)}
  BY <1>1
<1>5. Row.url \in UNION {{s[i].url : i \in 1..Len(s)} : s \in Suites}
  BY <1>4
<1>6. Row.url \in Urls
  BY <1>5 DEF Urls
<1>7. InstanceUrl(Row) \in {"8080", "8081"}
  BY DEF InstanceUrl
<1>8. {"8080", "8081"} \subseteq Urls
  BY DEF Urls
<1>9. InstanceUrl(Row) \in Urls
  BY <1>7, <1>8
<1> QED
  BY <1>1, <1>2, <1>3, <1>6, <1>9

\* What a server that is down, or one the suite has started, has for an owner.
LEMMA Owners == Down.owner = "nobody" /\ \A r : Started(r).owner = "suite" /\ Started(r) # Down
BY DEF Down, Started

\* The stop script leaves some servers up, or none if it works.
LEMMA StopFacts ==
  ASSUME TypeOK, StopAll
  PROVE  /\ DOMAIN server' = Urls /\ \A u \in Urls : server'[u] \in {Down, server[u]}
         /\ ~unstopped' => ~unstopped /\ \A u \in Urls : server'[u] = Down
         /\ killedUser' \in BOOLEAN /\ unstopped' \in BOOLEAN
<1>1. PICK left \in SUBSET {u \in Urls : server[u] # Down} :
        /\ server' = [u \in Urls |-> IF u \in left THEN server[u] ELSE Down]
        /\ killedUser' = (killedUser \/ \E u \in Urls \ left : server[u].owner = "user")
        /\ unstopped' = (unstopped \/ left # {})
  BY DEF StopAll
<1>2. killedUser' \in BOOLEAN /\ unstopped' \in BOOLEAN
  BY <1>1 DEF TypeOK
<1>3. ~unstopped' => ~unstopped /\ left = {}
  BY <1>1
<1> QED
  BY <1>1, <1>2, <1>3

\* The start script brings one server up, if its port is free.
LEMMA LaunchFacts ==
  ASSUME TypeOK, Launch(Row)
  PROVE  /\ DOMAIN server' = Urls
         /\ \A u \in Urls : server'[u] = IF u = InstanceUrl(Row) /\ server[u] = Down
                                         THEN Started(Row) ELSE server[u]
BY DEF Launch, TypeOK

\* A server that dies is down, the others stay.
LEMMA OneLess ==
  ASSUME TypeOK, NEW u \in Urls, ServerDies(u)
  PROVE  DOMAIN server' = Urls /\ \A v \in Urls : server'[v] = IF v = u THEN Down ELSE server[v]
BY DEF ServerDies, TypeOK

\* The steps that leave the servers alone, those of the main thread that leave the
\* worker and its memory alone, and those of the worker, which leave the main thread alone.
Calm  == Key \/ Poll \/ Preflight \/ Proxy \/ Task \/ NextItem \/ CloudFails \/ Leave
           \/ Interrupt \/ CleanProxy \/ Joined

LEMMA ServersStay == Calm => UNCHANGED <<server, stopped>>
BY DEF Calm, Key, Poll, Preflight, Proxy, Task, NextItem, CloudFails, Leave, Interrupt,
       CleanProxy, Joined, stopped

LEMMA WorkerOnly == Worker => UNCHANGED <<main, caught, item>>
BY DEF Worker, Key, SwitchStop, SwitchStart, Poll, Preflight, Proxy, Task, item

\* Every step is one of these.
LEMMA Steps ==
  ASSUME [Next]_vars
  PROVE  \/ UNCHANGED vars
         \/ UNCHANGED <<localRows, scripts>> /\ (Calm \/ SwitchStop \/ SwitchStart \/ CleanServers)
         \/ UNCHANGED <<localRows, scripts>> /\ \E u \in Urls : ServerDies(u)
BY DEF Next, Worker, Main, Calm

\* The next item is one of the suite's.
LEMMA NextItemIn ==
  ASSUME localRows \in Suites, row \in 1..Len(localRows), task \in 0..(TaskCount - 1), NextItem
  PROVE  row' \in 1..Len(localRows) /\ task' \in 0..(TaskCount - 1)
<1> DEFINE n == Len(localRows)
<1>1. n \in Nat \ {0} /\ TaskCount \in Nat \ {0} /\ row \in 1..n
  BY RowAssumption
<1>2. \/ task + 1 < TaskCount /\ task' = task + 1 /\ row' = row
      \/ row < n /\ task' = 0 /\ row' = row + 1
  BY DEF NextItem
<1> HIDE DEF n
<1>3. row' \in 1..n /\ task' \in 0..(TaskCount - 1)
  BY <1>1, <1>2
<1> QED
  BY <1>3 DEF n

LEMMA TypesStep == TypeOK /\ [Next]_vars => TypeOK'
<1> SUFFICES ASSUME TypeOK, [Next]_vars PROVE TypeOK'
  OBVIOUS
<1>1. CASE UNCHANGED vars
  BY <1>1 DEF vars, item, stopped, TypeOK
<1>2. CASE Calm /\ UNCHANGED <<localRows, scripts>>
  <2>1. DOMAIN server' = Urls /\ \A u \in Urls : server'[u].owner \in {"nobody", "user", "suite"}
    BY <1>2, ServersStay DEF TypeOK
  <2>2. killedUser' \in BOOLEAN /\ unstopped' \in BOOLEAN
    BY <1>2, ServersStay DEF stopped, TypeOK
  <2>3. died' \in BOOLEAN
    BY <1>2 DEF Calm, Key, Poll, Preflight, Proxy, Task, NextItem, CloudFails, Leave, Interrupt,
                CleanProxy, Joined, TypeOK
  <2>4. row' \in 1..Len(localRows) /\ task' \in 0..(TaskCount - 1)
    BY <1>2, NextItemIn DEF Calm, Key, Poll, Preflight, Proxy, Task, CloudFails, Leave, Interrupt,
                CleanProxy, Joined, TypeOK, item
  <2>5. /\ main' \in {"loop", "abort", "cleanup", "servers", "drain", "end"}
        /\ pc' \in {"item", "switch", "start", "poll", "preflight", "proxy", "task", "done", "failed"}
    BY <1>2 DEF Calm, Key, Poll, Preflight, Proxy, Task, NextItem, CloudFails, Leave, Interrupt,
                CleanProxy, Joined, TypeOK
  <2> QED
    BY <1>2, <2>1, <2>2, <2>3, <2>4, <2>5 DEF TypeOK
<1>3. CASE (SwitchStop \/ CleanServers) /\ UNCHANGED <<localRows, scripts>>
  <2>1. UNCHANGED <<row, task, died>> /\ main' \in {main, "drain"} /\ pc' \in {pc, "start", "failed", "preflight"}
    BY <1>3 DEF SwitchStop, CleanServers, item
  <2>2. StopAll \/ UNCHANGED <<server, stopped>>
    BY <1>3 DEF SwitchStop, CleanServers
  <2>3. /\ DOMAIN server' = Urls /\ \A u \in Urls : server'[u].owner \in {"nobody", "user", "suite"}
        /\ killedUser' \in BOOLEAN /\ unstopped' \in BOOLEAN
    BY <2>2, StopFacts, Owners DEF TypeOK, stopped
  <2> QED
    BY <1>3, <2>1, <2>3 DEF TypeOK
<1>4. CASE SwitchStart /\ UNCHANGED <<localRows, scripts>>
  <2>1. UNCHANGED <<main, row, task, died, killedUser, unstopped>> /\ pc' \in {"poll", "failed"}
    BY <1>4 DEF SwitchStart, item, stopped
  <2>2. Launch(Row) \/ UNCHANGED server
    BY <1>4 DEF SwitchStart
  <2>3. DOMAIN server' = Urls /\ \A u \in Urls : server'[u].owner \in {"nobody", "user", "suite"}
    BY <2>2, LaunchFacts, Owners DEF TypeOK
  <2> QED
    BY <1>4, <2>1, <2>3 DEF TypeOK
<1>5. ASSUME NEW u \in Urls, ServerDies(u), UNCHANGED <<localRows, scripts>> PROVE TypeOK'
  <2>1. DOMAIN server' = Urls /\ \A v \in Urls : server'[v].owner \in {"nobody", "user", "suite"}
    BY <1>5, OneLess, Owners DEF TypeOK
  <2>2. UNCHANGED <<main, pc, row, task, killedUser, unstopped>> /\ died' = TRUE
    BY <1>5 DEF ServerDies, item, stopped
  <2> QED
    BY <1>5, <2>1, <2>2 DEF TypeOK
<1> QED
  BY <1>1, <1>2, <1>3, <1>4, <1>5, Steps

LEMMA TypesInit == Init => TypeOK
<1> SUFFICES ASSUME Init PROVE TypeOK
  OBVIOUS
<1>1. DOMAIN server = Urls /\ \A u \in Urls : server[u].owner \in {"nobody", "user", "suite"}
  BY Owners DEF Init
<1>2. /\ killedUser \in BOOLEAN /\ unstopped \in BOOLEAN /\ died \in BOOLEAN
      /\ scripts \in BOOLEAN /\ localRows \in Suites
  BY DEF Init
<1>3. Len(localRows) \in Nat \ {0} /\ TaskCount \in Nat \ {0} /\ row = 1 /\ task = 0
  BY RowAssumption DEF Init
<1>4. pc = "item" /\ main = "loop"
  BY DEF Init
<1> QED
  BY <1>1, <1>2, <1>3, <1>4 DEF TypeOK

\* Type correctness: in particular the item is always one of the suite's.
THEOREM TypeCorrect == Spec => []TypeOK
BY TypesInit, TypesStep, PTL DEF Spec

-----------------------------------------------------------------------------
(* Servers and who started them.                                             *)

LEMMA OwnerStep == TypeOK /\ OwnerInv /\ [Next]_vars => OwnerInv'
<1> SUFFICES ASSUME TypeOK, OwnerInv, [Next]_vars PROVE OwnerInv'
  OBVIOUS
<1> USE DEF OwnerInv
<1>0. UNCHANGED localRows => AnyManaged' = AnyManaged
  BY DEF AnyManaged
<1>m. NeedsServer(Row) => AnyManaged
  BY SuiteFacts DEF TypeOK, NeedsServer, AnyManaged, Indices
<1>1. CASE UNCHANGED vars
  BY <1>0, <1>1 DEF vars, item, stopped, Row
<1>2. CASE Calm /\ UNCHANGED <<localRows, scripts>>
  <2>1. pc' # "start" \/ (pc = "start" /\ Row' = Row)
    BY <1>2 DEF Calm, Key, Poll, Preflight, Proxy, Task, NextItem, CloudFails, Leave, Interrupt,
                CleanProxy, Joined, item, Row
  <2>2. UNCHANGED <<server, killedUser, unstopped>>
    BY <1>2, ServersStay DEF stopped
  <2> QED
    BY <1>0, <1>2, <2>1, <2>2 DEF NeedsServer
<1>3. CASE SwitchStop /\ UNCHANGED <<localRows, scripts>>
  <2>1. Row' = Row
    BY <1>3 DEF SwitchStop, Row, item
  <2>2. CASE NeedsServer(Row) /\ scripts /\ StopAll /\ pc' = "start"
    <3>1. \A u \in Urls : server'[u].owner = "suite" => server[u].owner = "suite"
      BY <2>2, StopFacts, Owners
    <3> QED
      BY <1>0, <1>3, <1>m, <2>1, <2>2, <3>1, StopFacts DEF NeedsServer
  <2>3. CASE UNCHANGED <<server, stopped>> /\ pc' # "start"
    BY <1>0, <1>3, <2>3 DEF stopped
  <2> QED
    BY <1>3, <2>2, <2>3 DEF SwitchStop
<1>4. CASE SwitchStart /\ UNCHANGED <<localRows, scripts>>
  <2>1. AnyManaged' /\ scripts' /\ pc' # "start" /\ UNCHANGED killedUser
    BY <1>0, <1>4, <1>m DEF SwitchStart, stopped
  <2> QED
    BY <2>1
<1>5. CASE CleanServers /\ UNCHANGED <<localRows, scripts>>
  <2>1. UNCHANGED <<pc, row>> /\ Row' = Row
    BY <1>5 DEF CleanServers, item, Row
  <2>2. CASE AnyManaged /\ scripts /\ StopAll
    <3>1. \A u \in Urls : server'[u].owner = "suite" => server[u].owner = "suite"
      BY <2>2, StopFacts, Owners
    <3> QED
      BY <1>0, <1>5, <2>1, <2>2, <3>1, StopFacts DEF NeedsServer
  <2>3. CASE UNCHANGED <<server, stopped>>
    BY <1>0, <1>5, <2>1, <2>3 DEF stopped, NeedsServer
  <2> QED
    BY <1>5, <2>2, <2>3 DEF CleanServers
<1>6. ASSUME NEW u \in Urls, ServerDies(u), UNCHANGED <<localRows, scripts>> PROVE OwnerInv'
  <2>1. \A v \in Urls : server'[v] = server[v] \/ server'[v] = Down
    BY <1>6, OneLess
  <2>2. UNCHANGED <<pc, row, killedUser, unstopped>> /\ Row' = Row
    BY <1>6 DEF ServerDies, Row, item, stopped
  <2> QED
    BY <1>0, <1>6, <2>1, <2>2, Owners DEF NeedsServer
<1> QED
  BY <1>1, <1>2, <1>3, <1>4, <1>5, <1>6, Steps

LEMMA OwnerInit == Init => OwnerInv
<1> SUFFICES ASSUME Init PROVE OwnerInv
  OBVIOUS
<1>1. \A u \in Urls : server[u].owner # "suite"
  BY Owners DEF Init
<1> QED
  BY <1>1 DEF Init, OwnerInv

LEMMA CleanStep == TypeOK /\ OwnerInv /\ CleanInv /\ [Next]_vars => CleanInv'
<1> SUFFICES ASSUME TypeOK, OwnerInv, CleanInv, [Next]_vars PROVE CleanInv'
  OBVIOUS
<1> USE DEF CleanInv
<1>1. CASE UNCHANGED vars
  BY <1>1 DEF vars, stopped
<1>2. CASE Calm
  <2>1. UNCHANGED <<server, unstopped>>
    BY <1>2, ServersStay DEF stopped
  <2>2. CASE Leave \/ Interrupt \/ NextItem \/ CloudFails
    BY <2>1, <2>2 DEF Leave, Interrupt, NextItem, CloudFails
  <2>3. CASE CleanProxy \/ Joined
    BY <2>1, <2>3 DEF CleanProxy, Joined
  <2>4. CASE Key \/ Poll \/ Preflight \/ Proxy
    <3>1. pc \notin {"task", "done", "failed"} /\ UNCHANGED <<main, caught>>
      BY <2>4 DEF Key, Poll, Preflight, Proxy
    <3> QED
      BY <3>1
  <2>5. CASE Task
    BY <2>1, <2>5 DEF Task
  <2> QED
    BY <1>2, <2>2, <2>3, <2>4, <2>5 DEF Calm
<1>3. CASE SwitchStop \/ SwitchStart
  <2>1. pc \notin {"task", "done", "failed"} /\ UNCHANGED <<main, caught>>
    BY <1>3 DEF SwitchStop, SwitchStart
  <2> QED
    BY <2>1
<1>4. CASE CleanServers
  <2>1. main = "servers" /\ main' = "drain" /\ UNCHANGED <<pc, caught, proxy>>
    BY <1>4 DEF CleanServers
  <2>2. CASE AnyManaged /\ scripts
    <3>1. StopAll
      BY <1>4, <2>2 DEF CleanServers
    <3>2. ~unstopped' => \A u \in Urls : server'[u].owner # "suite"
      BY <3>1, StopFacts, Owners
    <3> QED
      BY <2>1, <3>2
  <2>3. CASE ~(AnyManaged /\ scripts)
    <3>1. \A u \in Urls : server'[u].owner # "suite"
      BY <1>4, <2>3 DEF CleanServers, OwnerInv
    <3> QED
      BY <2>1, <3>1
  <2> QED
    BY <2>2, <2>3
<1>5. ASSUME NEW u \in Urls, ServerDies(u) PROVE CleanInv'
  <2>1. \A v \in Urls : server'[v] = server[v] \/ server'[v] = Down
    BY <1>5, OneLess
  <2>2. UNCHANGED <<main, pc, caught, proxy, unstopped>>
    BY <1>5 DEF ServerDies, stopped
  <2> QED
    BY <2>1, <2>2, Owners
<1> QED
  BY <1>1, <1>2, <1>3, <1>4, <1>5, Steps

LEMMA OneServerStep == TypeOK /\ OwnerInv /\ OneManagedServer /\ [Next]_vars => OneManagedServer'
<1> SUFFICES ASSUME TypeOK, OwnerInv, OneManagedServer, [Next]_vars, ~unstopped' PROVE OneManagedServer'
  BY DEF OneManagedServer
<1> USE DEF OneManagedServer
<1>1. CASE UNCHANGED <<server, unstopped>>
  BY <1>1
<1>2. CASE StopAll
  BY <1>2, StopFacts, Owners
<1>3. CASE SwitchStart /\ Launch(Row)
  <2>1. \A u \in Urls : server[u] = Down
    BY <1>3 DEF SwitchStart, OwnerInv, stopped
  <2> QED
    BY <1>3, <2>1, LaunchFacts, Owners
<1>4. ASSUME NEW u \in Urls, ServerDies(u) PROVE OneManagedServer'
  <2>1. UNCHANGED unstopped
    BY <1>4 DEF ServerDies, stopped
  <2> QED
    BY <1>4, <2>1, OneLess, Owners
<1>5. SwitchStop \/ CleanServers => StopAll \/ UNCHANGED <<server, unstopped>>
  BY DEF SwitchStop, CleanServers, stopped
<1>6. SwitchStart => Launch(Row) \/ UNCHANGED <<server, unstopped>>
  BY DEF SwitchStart, stopped
<1>7. Calm \/ UNCHANGED vars => UNCHANGED <<server, unstopped>>
  BY ServersStay DEF vars, stopped
<1> QED
  BY <1>1, <1>2, <1>3, <1>4, <1>5, <1>6, <1>7, Steps

\* At most one server of the suite's is up at any time, through failing starts and polls
\* and an interrupt at any step; a stop script that fails voids it.
THEOREM OneServer == Spec => []OneManagedServer
<1>1. Init => OneManagedServer
  <2> SUFFICES ASSUME Init PROVE OneManagedServer
    OBVIOUS
  <2>1. \A u \in Urls : server[u].owner # "suite"
    BY Owners DEF Init
  <2> QED
    BY <2>1 DEF OneManagedServer
<1> QED
  BY <1>1, TypesInit, TypesStep, OwnerInit, OwnerStep, OneServerStep, PTL DEF Spec

\* The suite leaves nothing of its own, but after an interrupt before a task or a failed
\* stop script, and what is not its own only to a managed row.
THEOREM NothingLeft == Spec => []CleansUp
<1>1. OwnerInv /\ CleanInv => CleansUp
  BY DEF OwnerInv, CleanInv, CleansUp, AnyManaged
<1>2. Init => CleanInv
  BY DEF Init, CleanInv
<1> QED
  BY <1>1, <1>2, TypesInit, TypesStep, OwnerInit, OwnerStep, CleanStep, PTL DEF Spec

-----------------------------------------------------------------------------
(* The server and the proxy of the row of the item.                          *)

LEMMA NameStep == TypeOK /\ NameInv /\ [Next]_vars => NameInv'
<1> SUFFICES ASSUME TypeOK, NameInv, [Next]_vars PROVE NameInv'
  OBVIOUS
<1> USE DEF NameInv, Row, item
<1>1. CASE UNCHANGED vars
  BY <1>1 DEF vars
<1>2. CASE Calm /\ UNCHANGED localRows
  <2>1. CASE Key \/ Poll \/ Preflight \/ Proxy \/ Task
    BY <1>2, <2>1 DEF Key, Poll, Preflight, Proxy, Task
  <2>2. CASE NextItem \/ CloudFails \/ Leave \/ Interrupt \/ CleanProxy \/ Joined
    BY <1>2, <2>2 DEF NextItem, CloudFails, Leave, Interrupt, CleanProxy, Joined
  <2> QED
    BY <1>2, <2>1, <2>2 DEF Calm
<1>3. CASE (SwitchStop \/ SwitchStart \/ CleanServers) /\ UNCHANGED localRows
  BY <1>3 DEF SwitchStop, SwitchStart, CleanServers
<1>4. ASSUME NEW u \in Urls, ServerDies(u), UNCHANGED localRows PROVE NameInv'
  BY <1>4 DEF ServerDies
<1> QED
  BY <1>1, <1>2, <1>3, <1>4, Steps

\* Only the start script, a cleanup and a failure touch a server on the way to the preflight.
LEMMA StartStep == TypeOK /\ OwnerInv /\ StartInv /\ [Next]_vars => StartInv'
<1> SUFFICES ASSUME TypeOK, OwnerInv, StartInv, [Next]_vars PROVE StartInv'
  OBVIOUS
<1> USE DEF StartInv, NeedsServer
<1>1. CASE UNCHANGED vars
  BY <1>1 DEF vars, Row, item, stopped
<1>2. CASE Calm /\ UNCHANGED localRows
  <2>1. \/ pc' \notin {"poll", "preflight"}
        \/ pc \in {"poll", "preflight"} /\ Row' = Row
    BY <1>2 DEF Calm, Key, Poll, Preflight, Proxy, Task, NextItem, CloudFails, Leave, Interrupt,
                CleanProxy, Joined, item, Row
  <2>2. UNCHANGED <<server, unstopped>>
    BY <1>2, ServersStay DEF stopped
  <2> QED
    BY <2>1, <2>2
<1>3. CASE SwitchStop /\ UNCHANGED localRows
  BY <1>3 DEF SwitchStop, Row, item
<1>4. CASE SwitchStart /\ UNCHANGED localRows
  <2>1. Row' = Row /\ UNCHANGED unstopped
    BY <1>4 DEF SwitchStart, Row, item, stopped
  <2>2. ~unstopped => \A u \in Urls : server[u] = Down
    BY <1>4 DEF SwitchStart, OwnerInv
  <2>3. pc' = "failed" \/ Launch(Row)
    BY <1>4 DEF SwitchStart
  <2> QED
    BY <2>1, <2>2, <2>3, LaunchFacts
<1>5. CASE CleanServers /\ UNCHANGED localRows
  <2>1. Row' = Row /\ UNCHANGED pc
    BY <1>5 DEF CleanServers, Row, item
  <2>2. StopAll \/ UNCHANGED <<server, unstopped>>
    BY <1>5 DEF CleanServers, stopped
  <2> QED
    BY <2>1, <2>2, StopFacts
<1>6. ASSUME NEW u \in Urls, ServerDies(u), UNCHANGED localRows PROVE StartInv'
  <2>1. Row' = Row /\ UNCHANGED <<pc, unstopped>>
    BY <1>6 DEF ServerDies, Row, item, stopped
  <2> QED
    BY <1>6, <2>1, OneLess
<1> QED
  BY <1>1, <1>2, <1>3, <1>4, <1>5, <1>6, Steps

\* Looked is about the profile, the servers, their deaths and the stop scripts only.
LEMMA LookedStays ==
  ASSUME NEW i \in Indices, UNCHANGED <<localRows, profile, server, died, unstopped>>
  PROVE  Looked(i)' = Looked(i)
BY DEF Looked, Serves, NeedsServer, ProfileKey

\* A preflight that succeeds has looked at the row of the item.
LEMMA PreflightLooks ==
  ASSUME TypeOK, NameInv, StartInv, Preflight, pc' = "proxy", UNCHANGED localRows
  PROVE  Looked(row)' /\ profile' = ProfileKey(Row) /\ curRow' = "" /\ UNCHANGED row
<1>1. /\ pc = "preflight" /\ Serves(Row) /\ profile' = ProfileKey(Row) /\ curRow' = ""
      /\ UNCHANGED <<row, server, unstopped>>
  BY DEF Preflight, item, stopped
<1>2. Row.served # "$"
  BY <1>1 DEF NameInv
<1>3. ASSUME NeedsServer(Row), ~unstopped PROVE server[Row.url].alias = Row.alias
  <2>1. server[Row.url] \in {Down, Started(Row)}
    BY <1>1, <1>3, SuiteFacts DEF StartInv, TypeOK
  <2>2. server[Row.url] = Started(Row)
    BY <1>1, <2>1 DEF Serves
  <2> QED
    BY <2>2 DEF Started
<1> QED
  BY <1>1, <1>2, <1>3 DEF Looked, Serves, NeedsServer, ProfileKey, Row

LEMMA ProfileStep ==
  TypeOK /\ NameInv /\ StartInv /\ ProfileInv /\ [Next]_vars => ProfileInv'
<1> SUFFICES ASSUME TypeOK, NameInv, StartInv, ProfileInv, [Next]_vars PROVE ProfileInv'
  OBVIOUS
<1> DEFINE Known == Whole /\ pc \in {"item", "proxy", "task", "done"}
<1>0. UNCHANGED localRows => Indices' = Indices
  BY DEF Indices
<1>s. ASSUME UNCHANGED <<localRows, profile, server, died, unstopped, row>>,
             Known' => Known \/ (pc = "item" /\ Whole),
             pc' \in {"proxy", "task"} => pc \in {"proxy", "task"} \/ profile = ProfileKey(Row)
      PROVE  ProfileInv'
  <2>1. ProfileKey(Row)' = ProfileKey(Row)
    BY <1>s DEF Row, ProfileKey
  <2> QED
    BY <1>0, <1>s, <2>1, LookedStays DEF ProfileInv
<1>1. CASE UNCHANGED vars
  BY <1>1, <1>s DEF vars, item, memory, stopped, Whole
<1>2. CASE (Key \/ Proxy \/ Task) /\ UNCHANGED localRows
  <2>1. UNCHANGED <<main, localRows, profile, server, died, unstopped, row>>
    BY <1>2 DEF Key, Proxy, Task, item, memory, stopped
  <2>2. pc \in {"item", "proxy", "task"}
    BY <1>2 DEF Key, Proxy, Task
  <2>3. pc' \in {"proxy", "task"} => pc \in {"proxy", "task"} \/ profile = ProfileKey(Row)
    BY <1>2 DEF Key, Proxy, Task
  <2> QED
    BY <1>s, <2>1, <2>2, <2>3 DEF Whole
<1>3. CASE SwitchStop \/ SwitchStart \/ Poll
  BY <1>3 DEF SwitchStop, SwitchStart, Poll, ProfileInv
<1>4. CASE Preflight /\ UNCHANGED localRows
  <2>1. CASE pc' = "proxy"
    <3>1. Looked(row)' /\ profile' = ProfileKey(Row) /\ row' = row /\ row \in Indices
      BY <1>4, <2>1, PreflightLooks, SuiteFacts DEF TypeOK
    <3>2. ProfileKey(Row)' = ProfileKey(Row)
      BY <1>4, <3>1 DEF Row, ProfileKey
    <3> QED
      BY <1>0, <1>4, <3>1, <3>2 DEF ProfileInv
  <2>2. CASE pc' = "failed"
    BY <2>2 DEF ProfileInv
  <2> QED
    BY <1>4, <2>1, <2>2 DEF Preflight
<1>5. CASE NextItem /\ UNCHANGED localRows
  <2>1. UNCHANGED <<main, localRows, profile, server, died, unstopped>> /\ pc = "done" /\ pc' = "item"
    BY <1>5 DEF NextItem, memory, stopped
  <2> QED
    BY <1>0, <2>1, LookedStays DEF ProfileInv, Whole
<1>6. CASE (CloudFails \/ Leave \/ Interrupt \/ CleanProxy \/ Joined) /\ UNCHANGED localRows
  <2>1. UNCHANGED <<localRows, profile, server, died, unstopped, row>>
    BY <1>6 DEF CloudFails, Leave, Interrupt, CleanProxy, Joined, item, memory, stopped
  <2>2. Whole' => Whole
    BY <1>6 DEF CloudFails, Leave, Interrupt, CleanProxy, Joined, Whole
  <2>3. pc' = pc \/ (pc = "item" /\ pc' = "done")
    BY <1>6 DEF CloudFails, Leave, Interrupt, CleanProxy, Joined
  <2> QED
    BY <1>s, <2>1, <2>2, <2>3
<1>7. CASE CleanServers /\ UNCHANGED localRows
  <2>1. ~Whole' /\ UNCHANGED <<pc, row, profile>>
    BY <1>7 DEF CleanServers, Whole, item, memory
  <2>2. ProfileKey(Row)' = ProfileKey(Row)
    BY <1>7, <2>1 DEF Row, ProfileKey
  <2> QED
    BY <2>1, <2>2 DEF ProfileInv
<1>8. ASSUME NEW u \in Urls, ServerDies(u), UNCHANGED localRows PROVE ProfileInv'
  <2>1. UNCHANGED <<main, localRows, profile, pc, row>> /\ died'
    BY <1>8 DEF ServerDies, item, memory
  <2>2. \A i \in Indices : Looked(i) => Looked(i)'
    BY <2>1 DEF Looked, ProfileKey
  <2>3. ProfileKey(Row)' = ProfileKey(Row)
    BY <2>1 DEF Row, ProfileKey
  <2> QED
    BY <1>0, <2>1, <2>2, <2>3 DEF ProfileInv, Whole
<1> QED
  BY <1>1, <1>2, <1>3, <1>4, <1>5, <1>6, <1>7, <1>8, Steps DEF Calm

LEMMA ProxyStep == TypeOK /\ ProxyInv /\ [Next]_vars => ProxyInv'
<1> SUFFICES ASSUME TypeOK, ProxyInv, [Next]_vars PROVE ProxyInv'
  OBVIOUS
<1> USE DEF ProxyInv, Indices, ProxyFor, ProxyModelName, Undisturbed
<1>1. CASE UNCHANGED vars
  BY <1>1 DEF vars, Row, item, memory
<1>2. CASE Key /\ UNCHANGED localRows
  BY <1>2 DEF Key, memory
<1>3. CASE SwitchStop \/ SwitchStart \/ Poll
  BY <1>3 DEF SwitchStop, SwitchStart, Poll
<1>4. CASE Preflight /\ UNCHANGED localRows
  BY <1>4 DEF Preflight
<1>5. CASE Proxy /\ UNCHANGED localRows
  <2>1. CASE pc' = "task" /\ proxy' = ProxyFor(Row) /\ curRow' = Row.name
    BY <1>5, <2>1, SuiteFacts DEF Proxy, TypeOK, Row, item
  <2>2. CASE pc' = "task" /\ Row.name = curRow /\ UNCHANGED <<curRow, proxy>>
    BY <1>5, <2>2 DEF Proxy, Row, item
  <2>3. CASE pc' = "failed"
    BY <2>3
  <2> QED
    BY <1>5, <2>1, <2>2, <2>3 DEF Proxy
<1>6. CASE (Task \/ NextItem) /\ UNCHANGED localRows
  BY <1>6 DEF Task, NextItem, memory
<1>7. CASE (CloudFails \/ Leave \/ Interrupt \/ Joined) /\ UNCHANGED localRows
  BY <1>7 DEF CloudFails, Leave, Interrupt, Joined, memory, item, Row
<1>8. CASE (CleanProxy \/ CleanServers) /\ UNCHANGED localRows
  BY <1>8 DEF CleanProxy, CleanServers, memory, item, Row
<1>9. ASSUME NEW u \in Urls, ServerDies(u), UNCHANGED localRows PROVE ProxyInv'
  BY <1>9 DEF ServerDies, Row, item, memory
<1> QED
  BY <1>1, <1>2, <1>3, <1>4, <1>5, <1>6, <1>7, <1>8, <1>9, Steps DEF Calm

LookInv == OwnerInv /\ NameInv /\ StartInv /\ ProfileInv /\ ProxyInv

LEMMA LookInit == Init => LookInv
<1>1. Init => NameInv /\ StartInv /\ ProfileInv /\ ProxyInv
  BY DEF Init, NameInv, StartInv, ProfileInv, ProxyInv
<1> QED
  BY <1>1, OwnerInit DEF LookInv

LEMMA LookStep == TypeOK /\ LookInv /\ [Next]_vars => LookInv'
BY OwnerStep, NameStep, StartStep, ProfileStep, ProxyStep DEF LookInv

LEMMA Looking == Spec => [](TypeOK /\ LookInv)
BY TypesInit, TypesStep, LookInit, LookStep, PTL DEF Spec

\* While a task runs, the row whose proxy it is has the name of the task's row; if
\* one backend goes with a profile, the row that was looked at shares its server.
LEMMA TaskMeets ==
  ASSUME TypeOK, LookInv, pc = "task", Undisturbed
  PROVE  /\ \E i \in Indices : localRows[i].name = Row.name /\ proxy = ProxyFor(localRows[i])
         /\ OneBackendPerProfile /\ ~died =>
              /\ Serves(Row)
              /\ NeedsServer(Row) /\ ~unstopped => server[Row.url].alias = Row.alias
<1>1. Row.name # "" /\ row \in Indices /\ Row = localRows[row] /\ Row.served # "$"
  BY SuiteFacts DEF TypeOK, LookInv, NameInv
<1>2. \E i \in Indices : localRows[i].name = Row.name /\ proxy = ProxyFor(localRows[i])
  BY <1>1 DEF LookInv, ProxyInv
<1>3. ASSUME OneBackendPerProfile, ~died
      PROVE  Serves(Row) /\ (NeedsServer(Row) /\ ~unstopped => server[Row.url].alias = Row.alias)
  <2>1. profile = ProfileKey(Row) /\ profile # <<>>
    <3>1. \A a, b, c : <<a, b, c>> # <<>>
      OBVIOUS
    <3> QED
      BY <3>1 DEF LookInv, ProfileInv, ProfileKey
  <2>2. PICK i \in Indices : Looked(i)
    BY <2>1 DEF LookInv, ProfileInv, Whole, Undisturbed
  <2>3. /\ localRows[i].served # "$" /\ ProfileKey(localRows[i]) = ProfileKey(Row)
        /\ Serves(localRows[i])
        /\ NeedsServer(localRows[i]) /\ ~unstopped =>
             server[localRows[i].url].alias = localRows[i].alias
    BY <1>3, <2>1, <2>2 DEF Looked
  <2>4. localRows[i].url = Row.url /\ localRows[i].managed = Row.managed
    BY <1>1, <1>3, <2>3 DEF OneBackendPerProfile, Indices
  <2>5. localRows[i].alias = Row.alias /\ localRows[i].served = Row.served
    BY <2>3 DEF ProfileKey
  <2> QED
    BY <2>3, <2>4, <2>5 DEF Serves, NeedsServer
<1> QED
  BY <1>2, <1>3

\* A task runs behind the proxy of a row of its name, in front of the server of its
\* own row.
THEOREM ServerIsRight == Spec => []RightServer
<1>1. TypeOK /\ LookInv => RightServer
  BY TaskMeets DEF RightServer, ProxyFor
<1> QED
  BY <1>1, Looking, PTL

\* The agent's model is the one its proxy lists, and the proxy's the one that is served.
THEOREM AgentMeetsModel == Spec => []AgentMeetsItsModel
<1>1. TypeOK /\ LookInv => AgentMeetsItsModel
  <2> SUFFICES ASSUME TypeOK, LookInv, pc = "task", Undisturbed, Row.adapter \in {"opencode", "codex"},
                      Expand(Row.model) = Row.model, NamesDiffer
               PROVE  /\ Reaches(Row)
                      /\ OneBackendPerProfile /\ ~died => server[proxy.url].model = proxy.model
    BY DEF AgentMeetsItsModel
  <2>1. PICK i \in Indices : localRows[i].name = Row.name /\ proxy = ProxyFor(localRows[i])
    BY TaskMeets
  <2>2. row \in Indices /\ Row = localRows[row]
    BY SuiteFacts DEF TypeOK
  <2>3. proxy = ProxyFor(Row)
    BY <2>1, <2>2 DEF NamesDiffer, Indices
  <2>4. Reaches(Row)
    BY <2>3 DEF Reaches, AgentModel, ProxyFor, ProxyModelName
  <2>5. OneBackendPerProfile /\ ~died => server[proxy.url].model = proxy.model
    BY <2>3, TaskMeets DEF Serves, ProxyFor
  <2> QED
    BY <2>4, <2>5
<1> QED
  BY <1>1, Looking, PTL

=============================================================================
