------------------------- MODULE SuiteRunner_proofs -------------------------
(***************************************************************************)
(* Theorems about SuiteRunner and the progress page beside it, for every    *)
(* suite, pool size, set of faults and number of starts.                    *)
(*                                                                         *)
(* - The variables have their types.                                        *)
(* - run_suite never repeats a row, and results.json is the ledger that     *)
(*   ResultsLedger describes: what run_rows holds beyond the rows the file  *)
(*   keeps is at most the outcome of one key, and a key is in only one      *)
(*   place at a time, still to be handed out, waited for, or among the rows. *)
(* - The local items run in series behind the proxy of their row, which is  *)
(*   stopped at the end, and nothing starts once a failed row has shut the  *)
(*   pools down: at most one local item is waited for, and what is still to *)
(*   be handed out comes after it.                                          *)
(* - A run that succeeds has run everything: no key is lost between those   *)
(*   places, and local items to come have one before them that hands out    *)
(*   the next.                                                              *)
(* - The progress page tells what run_suite does: the local items without a *)
(*   row are the one that runs and those that come after it, and while      *)
(*   nothing repeats a row, counting rows is counting keys.                 *)
(***************************************************************************)
EXTENDS Progress, FiniteSetTheorems, TLAPS

-----------------------------------------------------------------------------
(* The type invariant.                                                       *)

\* Every step of run_suite keeps the type invariant.
LEMMA TypeInductive == TypeOK /\ [Next]_vars => TypeOK'
<1> SUFFICES ASSUME TypeOK, [Next]_vars PROVE TypeOK'
  OBVIOUS
<1> USE DEF TypeOK, mainVars, diskVars
<1>1. ASSUME NEW resume \in BOOLEAN, StartRun(resume) PROVE TypeOK'
  <2> DEFINE loaded == Loaded(resume)
             todo == Keys \ CompletedKeys(loaded)
             first == NextLocal(todo \cap LocalKeys)
  <2>1. loaded \in Seq(Entry)
    BY DEF Loaded
  <2>2. first \subseteq Keys
    BY DEF NextLocal
  <2>3. todo \cap CloudKeys \subseteq Keys
    OBVIOUS
  <2> HIDE DEF loaded, todo, first
  <2>4. /\ runRows' = loaded /\ base' = Len(loaded)
        /\ futureMap' = (todo \cap CloudKeys) \cup first
        /\ fut' = [k \in Keys |->
                     IF k \in (todo \cap CloudKeys) \cup first THEN "queued" ELSE "idle"]
        /\ todoLocal' = (todo \cap LocalKeys) \ first
    BY <1>1 DEF StartRun, loaded, todo, first
  <2>5. /\ pc' = "loop" /\ done' = {} /\ cur' = {} /\ curRow' = NoRow
        /\ rc' = 0 /\ raised' = FALSE /\ exit' = "none"
        /\ fresh' = ~resume /\ starts < MaxStarts /\ starts' = starts + 1
        /\ UNCHANGED <<proxyRow, results>>
    BY <1>1 DEF StartRun
  <2>6. fut' \in [Keys -> FutureState]
    BY <2>4 DEF FutureState
  <2>9. futureMap' \in SUBSET Keys
    BY <2>2, <2>3, <2>4
  <2>7. runRows' \in Seq(Entry) /\ base' \in 0..Len(runRows')
    BY <2>1, <2>4
  <2>8. todoLocal' \in SUBSET LocalKeys /\ starts' \in 0..MaxStarts
    BY <2>4, <2>5, CountAssumption
  <2> QED
    BY <2>5, <2>6, <2>7, <2>8, <2>9 DEF MainPC, TryBlock
<1>2. CASE StartFails
  BY <1>2, CountAssumption DEF StartFails, MainPC, TryBlock, FutureState
<1>3. CASE Wait
  BY <1>3 DEF Wait, MainPC, TryBlock
<1>4. ASSUME NEW k \in Keys, Pop(k) PROVE TypeOK'
  <2>1. /\ runRows' \in Seq(Entry) /\ Len(runRows') = Len(runRows) + 1
        /\ pc' \in {"write", "failWrite"}
    <3>1. \A x \in {"result", "failure"} : [key |-> k, kind |-> x] \in Entry
      BY DEF Entry
    <3>2. \A e \in Entry : /\ Append(runRows, e) \in Seq(Entry)
                          /\ Len(Append(runRows, e)) = Len(runRows) + 1
      OBVIOUS
    <3>3. \E x \in {"result", "failure"} :
            runRows' = Append(runRows, [key |-> k, kind |-> x])
      BY <1>4 DEF Pop
    <3>4. pc' \in {"write", "failWrite"}
      BY <1>4 DEF Pop
    <3> QED
      BY <3>1, <3>2, <3>3, <3>4
  <2>2. base' \in 0..Len(runRows')
    BY <1>4, <2>1 DEF Pop
  <2> QED
    BY <1>4, <2>1, <2>2 DEF Pop, MainPC, TryBlock
<1>5. CASE BatchDone
  BY <1>5 DEF BatchDone, MainPC, TryBlock
<1>6. CASE LoopDone
  BY <1>6 DEF LoopDone, MainPC, TryBlock
<1>7. CASE BeginWrite
  <2>1. Filling[pc] \in MainPC
    BY <1>7 DEF BeginWrite, Filling, MainPC, TryBlock
  <2> QED
    BY <1>7, <2>1 DEF BeginWrite
<1>8. CASE WriteResult
  <2> DEFINE next == IF cur \subseteq LocalKeys THEN NextLocal(todoLocal) ELSE {}
  <2>1. next \subseteq todoLocal /\ todoLocal \subseteq Keys
    BY OrderAssumption, RowsAssumption DEF NextLocal, LocalKeys, Keys
  <2> HIDE DEF next
  <2>2. /\ StoreResults /\ pc' = "batch"
        /\ fut' = [k \in Keys |-> IF k \in next THEN "queued" ELSE fut[k]]
        /\ futureMap' = futureMap \cup next
        /\ todoLocal' = todoLocal \ next
        /\ UNCHANGED <<done, curRow, proxyRow, mainVars, starts>>
    BY <1>8 DEF WriteResult, next
  <2> QED
    BY <2>1, <2>2 DEF StoreResults, MainPC, TryBlock, FutureState
<1>9. CASE WriteFailure
  BY <1>9 DEF WriteFailure, StoreResults, MainPC, TryBlock
<1>10. CASE WriteFinal
  BY <1>10 DEF WriteFinal, StoreResults, MainPC, TryBlock
<1>11. CASE WriteRaises
  <2>1. results' \in [rows : Seq(Entry), torn : BOOLEAN] /\ fresh' \in BOOLEAN
    <3>1. StoreResults \/ UNCHANGED <<results, fresh>>
      BY <1>11 DEF WriteRaises
    <3>2. CASE StoreResults
      BY <3>2 DEF StoreResults
    <3>3. CASE UNCHANGED <<results, fresh>>
      BY <3>3
    <3> QED
      BY <3>1, <3>2, <3>3
  <2>2. runRows' \in Seq(Entry) /\ base' \in 0..Len(runRows')
    <3>1. \/ UNCHANGED runRows
          \/ \E k \in cur : runRows' = Append(runRows, [key |-> k, kind |-> "failure"])
      BY <1>11 DEF WriteRaises
    <3>2. base' = base
      BY <1>11 DEF WriteRaises
    <3>3. CASE UNCHANGED runRows
      BY <3>2, <3>3
    <3>4. ASSUME NEW k \in cur,
                 runRows' = Append(runRows, [key |-> k, kind |-> "failure"])
          PROVE  runRows' \in Seq(Entry) /\ base' \in 0..Len(runRows')
      <4>1. [key |-> k, kind |-> "failure"] \in Entry
        BY DEF Entry
      <4> QED
        BY <3>2, <3>4, <4>1
    <3> QED
      BY <3>1, <3>3, <3>4
  <2>3. /\ pc' \in {"failWrite", "finally", "end"} /\ raised' \in BOOLEAN
        /\ exit' \in {"none", "ok", "rc1", "raised"}
        /\ UNCHANGED <<fut, futureMap, done, todoLocal, curRow, proxyRow, cur, rc, starts>>
    BY <1>11 DEF WriteRaises
  <2> QED
    BY <2>1, <2>2, <2>3 DEF MainPC, TryBlock
<1>12. CASE StopCloud
  BY <1>12 DEF StopCloud, Cancel, MainPC, TryBlock, FutureState
<1>13. CASE StopLocal
  BY <1>13 DEF StopLocal, Cancel, MainPC, TryBlock, FutureState
<1>14. CASE Abandon
  BY <1>14 DEF Abandon, MainPC, TryBlock
<1>15. CASE StopBackends
  BY <1>15 DEF StopBackends, MainPC, TryBlock
<1>16. CASE Drained
  BY <1>16 DEF Drained, MainPC, TryBlock
<1>17. CASE Interrupt
  BY <1>17 DEF Interrupt, MainPC, TryBlock
<1>18. CASE Crash
  <2>1. fut' \in [Keys -> FutureState]
    BY <1>18 DEF Crash, FutureState
  <2>2. runRows' \in Seq(Entry) /\ base' \in 0..Len(runRows')
    BY <1>18 DEF Crash
  <2> QED
    BY <1>18, <2>1, <2>2 DEF Crash, MainPC
<1>19. ASSUME NEW k \in Keys, Worker(k) PROVE TypeOK'
  <2>1. CASE CloudStart(k)
    BY <1>19, <2>1 DEF CloudStart, FutureState
  <2>2. CASE LocalStart(k)
    BY <1>19, <2>2 DEF LocalStart, FutureState
  <2>3. CASE Prepare(k)
    BY <1>19, <2>3 DEF Prepare, FutureState, LocalKeys
  <2>4. CASE PrepareFails(k)
    BY <1>19, <2>4 DEF PrepareFails, FutureState
  <2>5. CASE Finish(k)
    BY <1>19, <2>5 DEF Finish, FutureState
  <2> QED
    BY <1>19, <2>1, <2>2, <2>3, <2>4, <2>5 DEF Worker
<1>20. CASE UNCHANGED vars
  BY <1>20 DEF vars
<1> QED
  BY <1>1, <1>2, <1>3, <1>4, <1>5, <1>6, <1>7, <1>8, <1>9, <1>10, <1>11, <1>12,
     <1>13, <1>14, <1>15, <1>16, <1>17, <1>18, <1>19, <1>20 DEF Next, Main

LEMMA TypesInit == Init => TypeOK
<1> SUFFICES ASSUME Init PROVE TypeOK
  OBVIOUS
<1>1. fut \in [Keys -> FutureState] /\ runRows \in Seq(Entry) /\ base \in 0..Len(runRows)
  BY DEF Init, FutureState
<1>2. results \in [rows : Seq(Entry), torn : BOOLEAN]
  BY DEF Init
<1>3. pc \in MainPC /\ starts \in 0..MaxStarts
  BY CountAssumption DEF Init, MainPC
<1>4. /\ futureMap \in SUBSET Keys /\ done \in SUBSET futureMap
      /\ cur \in SUBSET Keys /\ todoLocal \in SUBSET LocalKeys
  BY DEF Init
<1> QED
  BY <1>1, <1>2, <1>3, <1>4 DEF Init, TypeOK

\* The variables of run_suite always have the types SuiteRunner gives them.
THEOREM TypeCorrect == Spec => []TypeOK
BY TypesInit, TypeInductive, PTL DEF Spec

-----------------------------------------------------------------------------
(* results.json and its rows.                                                *)

Result(k)  == [key |-> k, kind |-> "result"]
Failure(k) == [key |-> k, kind |-> "failure"]

\* The rows of results.json that the next rewrite keeps.
Kept == IF fresh THEN <<>> ELSE results.rows

\* DuplicatesOnlyFromWriteFault, of any rows.
NoRepeats(rows) ==
  \A i, j \in 1..Len(rows) :
    i < j /\ rows[i].key = rows[j].key =>
      j = i + 1 /\ rows[i].kind = "result" /\ rows[j].kind = "failure"

RowsInv == NoRepeats(runRows) /\ NoRepeats(results.rows)

\* A key that is waited for, or still to be handed out, has no row yet.
PlaceInv ==
  /\ futureMap \cap todoLocal = {}
  /\ futureMap \cap KeysOf(runRows) = {}
  /\ todoLocal \cap KeysOf(runRows) = {}

\* The three ways in which a failure row comes to run_rows.
FailureAppended ==
  \E k \in Keys :
    \/ k \notin KeysOf(Kept) /\ runRows = Append(Kept, Failure(k))
    \/ k \notin KeysOf(Kept) /\ runRows = Append(Append(Kept, Result(k)), Failure(k))
    \/ Kept # <<>> /\ Kept[Len(Kept)] = Result(k) /\ runRows = Append(Kept, Failure(k))

\* How run_rows and the file are related, by the place of the main thread.
PhaseInv ==
  /\ pc \in {"loop", "batch", "stopCloud", "joinCloud", "joinLocal", "final", "finalWriting"}
       => runRows = Kept
  /\ pc \in {"finally", "drain"} /\ ~raised => runRows = Kept
  /\ pc \in {"write", "writing"} =>
       \E k \in Keys : cur = {k} /\ k \notin KeysOf(Kept) /\ runRows = Append(Kept, Result(k))
  /\ pc \in {"failWrite", "failWriting"} => FailureAppended

LedgerInv == RowsInv /\ PlaceInv /\ PhaseInv

-----------------------------------------------------------------------------
(* Rows and their keys.                                                      *)

\* A row adds its key.
LEMMA KeysOfAppend ==
  ASSUME NEW rows \in Seq(Entry), NEW e \in Entry
  PROVE  KeysOf(Append(rows, e)) = KeysOf(rows) \cup {e.key}
<1> DEFINE new == Append(rows, e)
<1>1. /\ Len(new) = Len(rows) + 1 /\ Len(rows) \in Nat
      /\ \A i \in 1..Len(rows) : new[i] = rows[i]
      /\ new[Len(rows) + 1] = e
  OBVIOUS
<1> HIDE DEF new
<1>2. 1..(Len(rows) + 1) = (1..Len(rows)) \cup {Len(rows) + 1}
  BY <1>1
<1>3. {new[i].key : i \in 1..Len(new)} = {rows[i].key : i \in 1..Len(rows)} \cup {e.key}
  BY <1>1, <1>2
<1> QED
  BY <1>3 DEF KeysOf, new

\* A row of a new key repeats nothing.
LEMMA NewKeyNoRepeats ==
  ASSUME NEW rows \in Seq(Entry), NEW e \in Entry, NoRepeats(rows), e.key \notin KeysOf(rows)
  PROVE  NoRepeats(Append(rows, e))
<1> DEFINE new == Append(rows, e)
<1>1. /\ Len(new) = Len(rows) + 1 /\ Len(rows) \in Nat
      /\ \A i \in 1..Len(rows) : new[i] = rows[i]
      /\ new[Len(rows) + 1] = e
  OBVIOUS
<1>2. \A i \in 1..Len(rows) : rows[i].key # e.key
  BY DEF KeysOf
<1> HIDE DEF new
<1>3. ASSUME NEW i \in 1..Len(new), NEW j \in 1..Len(new), i < j, new[i].key = new[j].key
      PROVE  j = i + 1 /\ new[i].kind = "result" /\ new[j].kind = "failure"
  <2>1. i \in 1..Len(rows) /\ new[i] = rows[i]
    BY <1>1, <1>3
  <2>2. CASE j \in 1..Len(rows)
    <3>1. new[j] = rows[j]
      BY <1>1, <2>2
    <3> QED
      BY <1>3, <2>1, <2>2, <3>1 DEF NoRepeats
  <2>3. CASE j = Len(rows) + 1
    BY <1>1, <1>2, <1>3, <2>1, <2>3
  <2> QED
    BY <1>1, <2>2, <2>3
<1> QED
  BY <1>3 DEF NoRepeats, new

\* Nor does the failure to write the result that was appended just before.
LEMMA WriteFaultNoRepeats ==
  ASSUME NEW rows \in Seq(Entry), NEW k \in Keys, NoRepeats(rows), k \notin KeysOf(rows)
  PROVE  NoRepeats(Append(Append(rows, Result(k)), Failure(k)))
<1> DEFINE mid == Append(rows, Result(k))
           new == Append(mid, Failure(k))
<1>0. Result(k) \in Entry /\ Failure(k) \in Entry
  BY DEF Result, Failure, Entry
<1>1. mid \in Seq(Entry) /\ NoRepeats(mid)
  <2>1. Result(k).key = k
    BY DEF Result
  <2> QED
    BY <1>0, <2>1, NewKeyNoRepeats
<1>2. /\ Len(mid) = Len(rows) + 1 /\ Len(rows) \in Nat
      /\ \A i \in 1..Len(rows) : mid[i] = rows[i]
      /\ mid[Len(rows) + 1] = Result(k)
  BY <1>0
<1> HIDE DEF mid
<1>3. /\ Len(new) = Len(mid) + 1
      /\ \A i \in 1..Len(mid) : new[i] = mid[i]
      /\ new[Len(mid) + 1] = Failure(k)
  BY <1>0, <1>1
<1>4. \A i \in 1..Len(rows) : rows[i].key # k
  BY DEF KeysOf
<1> HIDE DEF new
<1>5. ASSUME NEW i \in 1..Len(new), NEW j \in 1..Len(new), i < j, new[i].key = new[j].key
      PROVE  j = i + 1 /\ new[i].kind = "result" /\ new[j].kind = "failure"
  <2>1. i \in 1..Len(mid) /\ new[i] = mid[i]
    BY <1>2, <1>3, <1>5
  <2>2. CASE j \in 1..Len(mid)
    <3>1. new[j] = mid[j]
      BY <1>3, <2>2
    <3> QED
      BY <1>1, <1>5, <2>1, <2>2, <3>1 DEF NoRepeats
  <2>3. CASE j = Len(mid) + 1
    <3>1. new[j].key = k /\ new[j].kind = "failure"
      BY <1>3, <2>3 DEF Failure
    <3>2. i \notin 1..Len(rows)
      BY <1>2, <1>4, <1>5, <2>1, <3>1
    <3>3. i = Len(rows) + 1
      BY <1>2, <2>1, <3>2
    <3>4. new[i].kind = "result"
      BY <1>2, <2>1, <3>3 DEF Result
    <3> QED
      BY <1>2, <2>3, <3>1, <3>3, <3>4
  <2> QED
    BY <1>2, <1>3, <2>2, <2>3
<1> QED
  BY <1>5 DEF NoRepeats, new, mid

-----------------------------------------------------------------------------
(* What the steps of run_suite do to the rows.                               *)

\* What NextLocal picks is one of the items it is given.
\* A key that has a row is done, and so is a key whose row's namesake has one.
LEMMA RowsComplete ==
  ASSUME NEW rows \in Seq(Entry)
  PROVE  /\ KeysOf(rows) \subseteq CompletedKeys(rows) /\ CompletedKeys(rows) \subseteq Keys
         /\ DistinctNames => CompletedKeys(rows) = KeysOf(rows)
<1>1. KeysOf(rows) \subseteq Keys
  <2>1. \A i \in 1..Len(rows) : rows[i] \in Entry
    OBVIOUS
  <2>2. \A e \in Entry : e.key \in Keys
    BY DEF Entry
  <2> HIDE DEF Keys, Entry
  <2> QED
    BY <2>1, <2>2 DEF KeysOf
<1>2. KeysOf(rows) \subseteq CompletedKeys(rows)
  BY <1>1 DEF CompletedKeys, SameName
<1>3. CompletedKeys(rows) \subseteq Keys
  BY DEF CompletedKeys
<1>4. ASSUME DistinctNames, NEW k \in CompletedKeys(rows) PROVE k \in KeysOf(rows)
  <2>1. PICK j \in KeysOf(rows) : j[1] = k[1] /\ SameName(j[2], k[2])
    BY DEF CompletedKeys
  <2>2. j \in Keys /\ k \in Keys
    BY <1>1, <1>3, <2>1
  <2>3. j[2] \in Rows /\ k[2] \in Rows /\ j = <<j[1], j[2]>> /\ k = <<k[1], k[2]>>
    BY <2>2 DEF Keys
  <2>4. j[2] = k[2]
    BY <1>4, <2>1, <2>3 DEF DistinctNames
  <2> QED
    BY <2>1, <2>3, <2>4
<1> QED
  BY <1>2, <1>3, <1>4

\* Rows that are added take nothing back.
LEMMA CompletedGrows ==
  ASSUME NEW old, NEW new, KeysOf(old) \subseteq KeysOf(new)
  PROVE  CompletedKeys(old) \subseteq CompletedKeys(new)
BY DEF CompletedKeys

LEMMA NextLocalPicks == \A S : NextLocal(S) \subseteq S
BY DEF NextLocal

\* Most steps touch neither the rows nor the file: for them, only the place of
\* the main thread and the futures waited for matter.
LEMMA QuietStep ==
  ASSUME LedgerInv,
         UNCHANGED <<runRows, results, fresh, todoLocal>>,
         futureMap' \subseteq futureMap,
         PhaseInv'
  PROVE  LedgerInv'
BY DEF LedgerInv, RowsInv, PlaceInv, KeysOf, NoRepeats

\* A quiet step may also leave the place and the key in hand alone.
LEMMA SamePhase ==
  ASSUME LedgerInv,
         UNCHANGED <<pc, cur, raised, runRows, results, fresh, futureMap, todoLocal>>
  PROVE  LedgerInv'
<1>1. Kept' = Kept
  BY DEF Kept
<1>2. PhaseInv'
  BY <1>1 DEF LedgerInv, PhaseInv, FailureAppended, KeysOf
<1> QED
  BY <1>2, QuietStep

\* A start takes the rows of the file, or none, and plans what has no row.
LEMMA StartLedger ==
  ASSUME TypeOK, LedgerInv, NEW resume \in BOOLEAN, StartRun(resume)
  PROVE  LedgerInv'
<1> DEFINE loaded == Loaded(resume)
           todo == Keys \ CompletedKeys(loaded)
           first == NextLocal(todo \cap LocalKeys)
<1>0. todo \cap KeysOf(loaded) = {}
  <2>1. loaded \in Seq(Entry)
    BY DEF Loaded, TypeOK
  <2> HIDE DEF loaded
  <2> QED
    BY <2>1, RowsComplete
<1>1. first \subseteq todo \cap LocalKeys
  BY NextLocalPicks
<1>2. NoRepeats(loaded)
  BY DEF Loaded, LedgerInv, RowsInv, NoRepeats
<1>3. /\ runRows' = loaded /\ results' = results /\ fresh' = ~resume /\ pc' = "loop"
      /\ futureMap' = (todo \cap CloudKeys) \cup first
      /\ todoLocal' = (todo \cap LocalKeys) \ first
  BY DEF StartRun
<1>4. runRows' = Kept'
  BY <1>3 DEF Loaded, Kept
<1> HIDE DEF loaded, first, todo
<1>5. RowsInv'
  BY <1>2, <1>3 DEF LedgerInv, RowsInv
<1>6. PlaceInv'
  <2>1. first \subseteq todo /\ KeysOf(runRows)' = KeysOf(loaded)
    BY <1>1, <1>3 DEF KeysOf
  <2>2. futureMap' \subseteq todo /\ todoLocal' \subseteq todo /\ futureMap' \cap todoLocal' = {}
    BY <1>1, <1>3 DEF CloudKeys
  <2> QED
    BY <1>0, <2>1, <2>2 DEF PlaceInv
<1>7. PhaseInv'
  BY <1>3, <1>4 DEF PhaseInv
<1> QED
  BY <1>5, <1>6, <1>7 DEF LedgerInv

\* A kill, or a start that cannot read the file, leaves nothing in memory.
LEMMA EmptyLedger ==
  ASSUME LedgerInv, runRows' = <<>>, futureMap' = {}, todoLocal' = {},
         results' = results, pc' \in {"idle", "end"}
  PROVE  LedgerInv'
<1>1. RowsInv'
  BY DEF LedgerInv, RowsInv, NoRepeats
<1>2. PlaceInv'
  BY DEF PlaceInv
<1>3. PhaseInv'
  BY DEF PhaseInv
<1> QED
  BY <1>1, <1>2, <1>3 DEF LedgerInv

\* The row of a popped future has a new key.
LEMMA PopLedger ==
  ASSUME TypeOK, LedgerInv, NEW k \in Keys, Pop(k)
  PROVE  LedgerInv'
<1>1. /\ pc = "batch" /\ k \in futureMap /\ futureMap' = futureMap \ {k} /\ cur' = {k}
      /\ UNCHANGED <<todoLocal, results, fresh>>
  BY DEF Pop, TypeOK, diskVars
<1>2. runRows \in Seq(Entry) /\ runRows = Kept /\ Kept' = Kept
  BY <1>1 DEF TypeOK, LedgerInv, PhaseInv, Kept
<1>3. k \notin KeysOf(runRows) /\ k \notin todoLocal
  BY <1>1 DEF LedgerInv, PlaceInv
<1>4. /\ Result(k) \in Entry /\ Result(k).key = k
      /\ Failure(k) \in Entry /\ Failure(k).key = k
  BY DEF Result, Failure, Entry
<1>5. \/ pc' = "write" /\ runRows' = Append(runRows, Result(k))
      \/ pc' = "failWrite" /\ runRows' = Append(runRows, Failure(k))
  BY DEF Pop, Result, Failure
<1>6. NoRepeats(runRows') /\ KeysOf(runRows') = KeysOf(runRows) \cup {k}
  <2>1. NoRepeats(runRows)
    BY DEF LedgerInv, RowsInv
  <2>2. ASSUME NEW e \in Entry, e.key = k, runRows' = Append(runRows, e)
        PROVE  NoRepeats(runRows') /\ KeysOf(runRows') = KeysOf(runRows) \cup {k}
    BY <1>2, <1>3, <2>1, <2>2, NewKeyNoRepeats, KeysOfAppend
  <2> QED
    BY <1>4, <1>5, <2>2
<1>7. RowsInv'
  BY <1>1, <1>6 DEF LedgerInv, RowsInv
<1>8. PlaceInv'
  <2>1. futureMap' \cap (KeysOf(runRows) \cup {k}) = {} /\ todoLocal' \cap (KeysOf(runRows) \cup {k}) = {}
    BY <1>1, <1>3 DEF LedgerInv, PlaceInv
  <2>2. futureMap' \cap todoLocal' = {}
    BY <1>1 DEF LedgerInv, PlaceInv
  <2>3. KeysOf(runRows)' = KeysOf(runRows) \cup {k}
    BY <1>6 DEF KeysOf
  <2> QED
    BY <2>1, <2>2, <2>3 DEF PlaceInv, KeysOf
<1>9. PhaseInv'
  <2>1. KeysOf(Kept)' = KeysOf(runRows)
    BY <1>2 DEF KeysOf
  <2>2. CASE pc' = "write" /\ runRows' = Append(runRows, Result(k))
    <3>1. /\ cur' = {k} /\ k \notin KeysOf(Kept)' /\ runRows' = Append(Kept', Result(k))
      BY <1>1, <1>2, <1>3, <2>1, <2>2
    <3> QED
      BY <2>2, <3>1 DEF PhaseInv
  <2>3. CASE pc' = "failWrite" /\ runRows' = Append(runRows, Failure(k))
    <3>1. k \notin KeysOf(Kept)' /\ runRows' = Append(Kept', Failure(k))
      BY <1>2, <1>3, <2>1, <2>3
    <3>2. FailureAppended'
      BY <3>1 DEF FailureAppended
    <3> QED
      BY <2>3, <3>2 DEF PhaseInv
  <2> QED
    BY <1>5, <2>2, <2>3
<1> QED
  BY <1>7, <1>8, <1>9 DEF LedgerInv

\* A row is written out: the file holds what run_rows holds.
LEMMA StoredRows ==
  ASSUME LedgerInv, StoreResults
  PROVE  Kept' = runRows /\ NoRepeats(results'.rows)
BY DEF StoreResults, Kept, LedgerInv, RowsInv

\* A rewrite that succeeds, and hands out the local items in next.
LEMMA WriteLedger ==
  ASSUME TypeOK, LedgerInv, StoreResults, NEW next \in SUBSET todoLocal,
         futureMap' = futureMap \cup next, todoLocal' = todoLocal \ next,
         runRows' = runRows, pc' \in {"batch", "stopCloud", "end"}
  PROVE  LedgerInv'
<1>1. Kept' = runRows /\ NoRepeats(results'.rows)
  BY StoredRows
<1>2. RowsInv'
  BY <1>1 DEF LedgerInv, RowsInv
<1>3. PlaceInv'
  BY DEF LedgerInv, PlaceInv
<1>4. PhaseInv'
  BY <1>1 DEF PhaseInv
<1> QED
  BY <1>2, <1>3, <1>4 DEF LedgerInv

\* A rewrite that raises while a result is written puts the failure of the same
\* key after the result, in run_rows and perhaps also in the file.
LEMMA ResultRaisesLedger ==
  ASSUME TypeOK, LedgerInv, WriteRaises, pc = "writing"
  PROVE  LedgerInv'
<1>1. PICK k \in Keys : /\ cur = {k} /\ k \notin KeysOf(Kept)
                        /\ runRows = Append(Kept, Result(k))
  BY DEF LedgerInv, PhaseInv
<1>2. /\ pc' = "failWrite" /\ runRows' = Append(runRows, Failure(k))
      /\ UNCHANGED <<futureMap, todoLocal>>
  BY <1>1 DEF WriteRaises, Failure
<1>3. Kept \in Seq(Entry) /\ runRows \in Seq(Entry)
  BY DEF TypeOK, Kept
<1>4. /\ Result(k) \in Entry /\ Result(k).key = k
      /\ Failure(k) \in Entry /\ Failure(k).key = k
  BY DEF Result, Failure, Entry
<1>5. NoRepeats(Kept)
  BY DEF LedgerInv, RowsInv, Kept, NoRepeats
<1>6. NoRepeats(runRows')
  BY <1>1, <1>2, <1>3, <1>5, WriteFaultNoRepeats
<1>7. KeysOf(runRows') = KeysOf(runRows)
  <2>1. KeysOf(runRows) = KeysOf(Kept) \cup {k}
    BY <1>1, <1>3, <1>4, KeysOfAppend
  <2>2. KeysOf(runRows') = KeysOf(runRows) \cup {k}
    BY <1>2, <1>3, <1>4, KeysOfAppend
  <2> QED
    BY <2>1, <2>2
<1>8. PlaceInv'
  <2>1. KeysOf(runRows)' = KeysOf(runRows)
    BY <1>7 DEF KeysOf
  <2> QED
    BY <1>2, <2>1 DEF LedgerInv, PlaceInv
<1>9. CASE StoreResults
  <2>1. Kept' = runRows /\ NoRepeats(results'.rows)
    BY <1>9, StoredRows
  <2>2. runRows # <<>> /\ runRows[Len(runRows)] = Result(k)
    BY <1>1, <1>3, <1>4
  <2>3. FailureAppended'
    BY <1>2, <2>1, <2>2 DEF FailureAppended
  <2> QED
    BY <1>2, <1>6, <1>8, <2>1, <2>3 DEF LedgerInv, RowsInv, PhaseInv
<1>10. CASE UNCHANGED <<results, fresh>>
  <2>1. Kept' = Kept
    BY <1>10 DEF Kept
  <2>2. k \notin KeysOf(Kept)'
    BY <1>1, <2>1 DEF KeysOf
  <2>3. runRows' = Append(Append(Kept', Result(k)), Failure(k))
    BY <1>1, <1>2, <2>1
  <2>4. FailureAppended'
    BY <2>2, <2>3 DEF FailureAppended
  <2> QED
    BY <1>2, <1>6, <1>8, <1>10, <2>4 DEF LedgerInv, RowsInv, PhaseInv
<1> QED
  BY <1>9, <1>10 DEF WriteRaises

\* Any other rewrite that raises ends the run, or the wait for its futures.
LEMMA OtherRaisesLedger ==
  ASSUME TypeOK, LedgerInv, WriteRaises, pc # "writing"
  PROVE  LedgerInv'
<1>1. /\ UNCHANGED <<runRows, futureMap, todoLocal>>
      /\ pc' = "end" \/ (pc' = "finally" /\ raised' = TRUE)
  BY DEF WriteRaises
<1>2. NoRepeats(results'.rows)
  BY StoredRows DEF WriteRaises, LedgerInv, RowsInv
<1>3. RowsInv'
  BY <1>1, <1>2 DEF LedgerInv, RowsInv
<1>4. PlaceInv'
  BY <1>1 DEF LedgerInv, PlaceInv, KeysOf
<1>5. PhaseInv'
  BY <1>1 DEF PhaseInv
<1> QED
  BY <1>3, <1>4, <1>5 DEF LedgerInv

\* Truncating the file forgets no row that the rewrite keeps.
LEMMA BeginWriteLedger ==
  ASSUME TypeOK, LedgerInv, BeginWrite
  PROVE  LedgerInv'
<1>1. /\ pc \in {"write", "failWrite", "final"} /\ pc' = Filling[pc]
      /\ results' = [results EXCEPT !.torn = TRUE]
      /\ UNCHANGED <<runRows, futureMap, todoLocal, cur, raised, fresh>>
  BY DEF BeginWrite, Filling, mainVars
<1>2. results'.rows = results.rows
  BY <1>1 DEF TypeOK
<1>3. Kept' = Kept
  BY <1>1, <1>2 DEF Kept
<1>4. RowsInv'
  BY <1>1, <1>2 DEF LedgerInv, RowsInv, NoRepeats
<1>5. PlaceInv'
  BY <1>1 DEF LedgerInv, PlaceInv, KeysOf
<1>6. PhaseInv'
  <2>1. KeysOf(Kept)' = KeysOf(Kept)
    BY <1>3 DEF KeysOf
  <2>2. CASE pc = "write"
    <3>1. pc' = "writing"
      BY <1>1, <2>2 DEF Filling
    <3> QED
      BY <1>1, <1>3, <2>1, <2>2, <3>1 DEF LedgerInv, PhaseInv
  <2>3. CASE pc = "failWrite"
    <3>1. pc' = "failWriting"
      BY <1>1, <2>3 DEF Filling
    <3>2. FailureAppended'
      BY <1>1, <1>3, <2>1, <2>3 DEF LedgerInv, PhaseInv, FailureAppended
    <3> QED
      BY <3>1, <3>2 DEF PhaseInv
  <2>4. CASE pc = "final"
    <3>1. pc' = "finalWriting"
      BY <1>1, <2>4 DEF Filling
    <3> QED
      BY <1>1, <1>3, <2>4, <3>1 DEF LedgerInv, PhaseInv
  <2> QED
    BY <1>1, <2>2, <2>3, <2>4
<1> QED
  BY <1>4, <1>5, <1>6 DEF LedgerInv

\* Every step of run_suite keeps the invariant.
LEMMA LedgerInductive == TypeOK /\ LedgerInv /\ [Next]_vars => LedgerInv'
<1> SUFFICES ASSUME TypeOK, LedgerInv, [Next]_vars PROVE LedgerInv'
  OBVIOUS
<1> USE DEF mainVars, diskVars
<1>1. ASSUME NEW resume \in BOOLEAN, StartRun(resume) PROVE LedgerInv'
  BY <1>1, StartLedger
<1>2. CASE StartFails
  BY <1>2, EmptyLedger DEF StartFails
<1>3. CASE Wait
  <2>1. PhaseInv'
    BY <1>3 DEF Wait, LedgerInv, PhaseInv, Kept
  <2> QED
    BY <1>3, <2>1, QuietStep DEF Wait
<1>4. ASSUME NEW k \in Keys, Pop(k) PROVE LedgerInv'
  BY <1>4, PopLedger
<1>5. CASE BatchDone
  <2>1. PhaseInv'
    BY <1>5 DEF BatchDone, LedgerInv, PhaseInv, Kept
  <2> QED
    BY <1>5, <2>1, QuietStep DEF BatchDone
<1>6. CASE LoopDone
  <2>1. PhaseInv'
    BY <1>6 DEF LoopDone, LedgerInv, PhaseInv, Kept
  <2> QED
    BY <1>6, <2>1, QuietStep DEF LoopDone
<1>7. CASE BeginWrite
  BY <1>7, BeginWriteLedger
<1>8. CASE WriteResult
  <2> DEFINE next == IF cur \subseteq LocalKeys THEN NextLocal(todoLocal) ELSE {}
  <2>1. next \in SUBSET todoLocal
    BY NextLocalPicks
  <2>2. /\ StoreResults /\ pc' = "batch" /\ runRows' = runRows
        /\ futureMap' = futureMap \cup next /\ todoLocal' = todoLocal \ next
    BY <1>8 DEF WriteResult
  <2> HIDE DEF next
  <2> QED
    BY <2>1, <2>2, WriteLedger
<1>9. CASE WriteFailure \/ WriteFinal
  <2>1. /\ StoreResults /\ pc' \in {"stopCloud", "end"} /\ runRows' = runRows
        /\ futureMap' = futureMap \cup {} /\ todoLocal' = todoLocal \ {}
    BY <1>9 DEF WriteFailure, WriteFinal
  <2> QED
    BY <2>1, WriteLedger
<1>10. CASE WriteRaises
  BY <1>10, ResultRaisesLedger, OtherRaisesLedger
<1>11. CASE StopCloud \/ StopLocal
  <2>1. PhaseInv'
    BY <1>11 DEF StopCloud, StopLocal, LedgerInv, PhaseInv, Kept
  <2> QED
    BY <1>11, <2>1, QuietStep DEF StopCloud, StopLocal
<1>12. CASE Abandon
  <2>1. PhaseInv'
    BY <1>12 DEF Abandon, LedgerInv, PhaseInv, Kept
  <2> QED
    BY <1>12, <2>1, QuietStep DEF Abandon
<1>13. CASE StopBackends
  <2>1. PhaseInv'
    BY <1>13 DEF StopBackends, LedgerInv, PhaseInv, Kept
  <2> QED
    BY <1>13, <2>1, QuietStep DEF StopBackends
<1>14. CASE Drained
  <2>1. PhaseInv'
    BY <1>14 DEF Drained, LedgerInv, PhaseInv, Kept
  <2> QED
    BY <1>14, <2>1, QuietStep DEF Drained
<1>15. CASE Interrupt
  <2>1. PhaseInv'
    BY <1>15 DEF Interrupt, PhaseInv
  <2> QED
    BY <1>15, <2>1, QuietStep DEF Interrupt
<1>16. CASE Crash
  BY <1>16, EmptyLedger DEF Crash
<1>17. ASSUME NEW k \in Keys, Worker(k) PROVE LedgerInv'
  BY <1>17, SamePhase DEF Worker, CloudStart, LocalStart, Prepare, PrepareFails, Finish
<1>18. CASE UNCHANGED vars
  BY <1>18, SamePhase DEF vars
<1> QED
  BY <1>1, <1>2, <1>3, <1>4, <1>5, <1>6, <1>7, <1>8, <1>9, <1>10, <1>11, <1>12, <1>13,
     <1>14, <1>15, <1>16, <1>17, <1>18 DEF Next, Main

\* The ledger invariant holds in every state of every run.
THEOREM LedgerInvariant == Spec => []LedgerInv
<1>1. Init => LedgerInv
  BY DEF Init, LedgerInv, RowsInv, NoRepeats, PlaceInv, PhaseInv
<1> QED
  BY <1>1, TypeCorrect, LedgerInductive, PTL DEF Spec

\* A (task, row) key is listed twice only as a result followed by the failure
\* to write it: neither --resume nor the two pools ever run a row again.
THEOREM NoDuplicates == Spec => []DuplicatesOnlyFromWriteFault
<1>1. LedgerInv => DuplicatesOnlyFromWriteFault
  BY DEF LedgerInv, RowsInv, NoRepeats, DuplicatesOnlyFromWriteFault
<1> QED
  BY <1>1, LedgerInvariant, PTL

-----------------------------------------------------------------------------
(* The refinement of ResultsLedger.                                          *)

\* One appended row, and two, as the concatenations that Additions speaks of.
LEMMA AppendIsConcat ==
  ASSUME NEW rows \in Seq(Entry), NEW d \in Entry, NEW e \in Entry
  PROVE  /\ Append(rows, e) = rows \o <<e>>
         /\ Append(Append(rows, d), e) = rows \o <<d, e>>
         /\ rows = rows \o <<>>
OBVIOUS

\* What a rewrite is about to store are rows that the ledger may gain.
LEMMA RowsAreAddition ==
  ASSUME TypeOK, LedgerInv, pc \in {"writing", "failWriting", "finalWriting"}
  PROVE  \E new \in Ledger!Additions(Kept) : runRows = Kept \o new
<1>1. Kept \in Seq(Entry)
  BY DEF TypeOK, Kept
<1>2. \A k \in Keys : /\ Result(k) \in Entry /\ Failure(k) \in Entry
                      /\ Result(k).key = k /\ Failure(k).key = k
                      /\ Result(k).kind = "result"
  BY DEF Result, Failure, Entry
<1>3. Ledger!Entries = Entry /\ Ledger!KeysIn(Kept) = KeysOf(Kept)
  BY DEF Ledger!Entries, Entry, Ledger!KeysIn, KeysOf
<1>4. CASE pc = "finalWriting"
  <2>1. runRows = Kept
    BY <1>4 DEF LedgerInv, PhaseInv
  <2>2. <<>> \in Ledger!Additions(Kept)
    BY DEF Ledger!Additions
  <2> QED
    BY <1>1, <2>1, <2>2
<1>5. ASSUME NEW e \in Entry, e.key \notin KeysOf(Kept), runRows = Append(Kept, e)
      PROVE  \E new \in Ledger!Additions(Kept) : runRows = Kept \o new
  <2>1. <<e>> \in Ledger!Additions(Kept)
    BY <1>3, <1>5 DEF Ledger!Additions
  <2>2. runRows = Kept \o <<e>>
    BY <1>1, <1>5, AppendIsConcat
  <2> QED
    BY <2>1, <2>2
<1>6. CASE pc = "writing"
  BY <1>2, <1>5, <1>6 DEF LedgerInv, PhaseInv
<1>7. CASE pc = "failWriting"
  <2>1. PICK k \in Keys :
          \/ k \notin KeysOf(Kept) /\ runRows = Append(Kept, Failure(k))
          \/ k \notin KeysOf(Kept) /\ runRows = Append(Append(Kept, Result(k)), Failure(k))
          \/ Kept # <<>> /\ Kept[Len(Kept)] = Result(k) /\ runRows = Append(Kept, Failure(k))
    BY <1>7 DEF LedgerInv, PhaseInv, FailureAppended
  <2>2. CASE k \notin KeysOf(Kept) /\ runRows = Append(Kept, Failure(k))
    BY <1>2, <1>5, <2>2
  <2>3. CASE k \notin KeysOf(Kept) /\ runRows = Append(Append(Kept, Result(k)), Failure(k))
    <3>1. <<Result(k), Failure(k)>> \in Ledger!Additions(Kept)
      BY <1>3, <2>3 DEF Ledger!Additions, Result, Failure
    <3>2. runRows = Kept \o <<Result(k), Failure(k)>>
      BY <1>1, <1>2, <2>3, AppendIsConcat
    <3> QED
      BY <3>1, <3>2
  <2>4. CASE Kept # <<>> /\ Kept[Len(Kept)] = Result(k) /\ runRows = Append(Kept, Failure(k))
    <3>1. Len(Kept) \in 1..Len(Kept)
      BY <1>1, <2>4
    <3>2. Result(k) \in {Kept[i] : i \in {j \in 1..Len(Kept) : /\ j = Len(Kept)
                                                              /\ Kept[j].kind = "result"}}
      BY <1>2, <2>4, <3>1
    <3>3. <<Failure(k)>> \in Ledger!Additions(Kept)
      BY <1>2, <3>2 DEF Ledger!Additions, Failure
    <3>4. runRows = Kept \o <<Failure(k)>>
      BY <1>1, <1>2, <2>4, AppendIsConcat
    <3> QED
      BY <3>3, <3>4
  <2> QED
    BY <2>1, <2>2, <2>3, <2>4
<1> QED
  BY <1>4, <1>6, <1>7

\* A rewrite that is stored is a Rewrite of the ledger.
LEMMA StoreIsRewrite ==
  ASSUME TypeOK, LedgerInv, pc \in {"writing", "failWriting", "finalWriting"}, StoreResults
  PROVE  Ledger!Rewrite
<1>1. PICK new \in Ledger!Additions(Kept) : runRows = Kept \o new
  BY RowsAreAddition
<1>2. results'.rows = runRows /\ (~results.torn)' = TRUE /\ fresh' = FALSE
  BY DEF StoreResults
<1> QED
  BY <1>1, <1>2 DEF Ledger!Rewrite, Kept

\* Every step of run_suite is a step of the ledger, or leaves it alone.
LEMMA LedgerStep ==
  TypeOK /\ LedgerInv /\ [Next]_vars => [Ledger!LedgerNext]_(Ledger!ledgerVars)
<1> SUFFICES ASSUME TypeOK, LedgerInv, [Next]_vars
             PROVE  [Ledger!LedgerNext]_(Ledger!ledgerVars)
  OBVIOUS
<1> USE DEF diskVars
<1>1. ASSUME UNCHANGED <<results, fresh>> PROVE UNCHANGED Ledger!ledgerVars
  BY <1>1 DEF Ledger!ledgerVars
<1>2. ASSUME NEW resume \in BOOLEAN, StartRun(resume) PROVE Ledger!LedgerNext
  <2>1. results' = results /\ fresh' = ~resume /\ (resume => ~results.torn)
    BY <1>2 DEF StartRun
  <2>2. CASE resume
    BY <2>1, <2>2 DEF Ledger!LedgerNext, Ledger!StartResumed
  <2>3. CASE ~resume
    BY <2>1, <2>3 DEF Ledger!LedgerNext, Ledger!StartFresh
  <2> QED
    BY <2>2, <2>3
<1>3. CASE BeginWrite
  <2>1. results'.rows = results.rows /\ results'.torn = TRUE /\ fresh' = fresh
    BY <1>3 DEF BeginWrite, TypeOK
  <2> QED
    BY <2>1 DEF Ledger!LedgerNext, Ledger!Truncate
<1>4. CASE WriteResult \/ WriteFailure \/ WriteFinal
  BY <1>4, StoreIsRewrite DEF WriteResult, WriteFailure, WriteFinal, Ledger!LedgerNext
<1>5. CASE WriteRaises
  BY <1>1, <1>5, StoreIsRewrite DEF WriteRaises, Ledger!LedgerNext
<1>6. CASE \/ Wait \/ BatchDone \/ LoopDone \/ StopCloud \/ StopLocal \/ Abandon
           \/ StopBackends \/ Drained \/ Interrupt \/ StartFails \/ Crash
  BY <1>1, <1>6 DEF Wait, BatchDone, LoopDone, StopCloud, StopLocal, Abandon,
                    StopBackends, Drained, Interrupt, StartFails, Crash
<1>7. ASSUME NEW k \in Keys, Pop(k) \/ Worker(k) PROVE UNCHANGED Ledger!ledgerVars
  BY <1>1, <1>7 DEF Pop, Worker, CloudStart, LocalStart, Prepare, PrepareFails, Finish
<1>8. CASE UNCHANGED vars
  BY <1>1, <1>8 DEF vars
<1> QED
  BY <1>2, <1>3, <1>4, <1>5, <1>6, <1>7, <1>8 DEF Next, Main

\* run_suite implements ResultsLedger: through failures, interrupts, kills and
\* restarts, results.json only gains rows, of one key at a time.
THEOREM RefinesLedger == Spec => LedgerRefinement
<1>1. Init => Ledger!LedgerInit
  BY DEF Init, Ledger!LedgerInit
<1> QED
  BY <1>1, LedgerStep, TypeCorrect, LedgerInvariant, PTL
  DEF Spec, LedgerRefinement, Ledger!LedgerSpec

-----------------------------------------------------------------------------
(* The pools, the local series and the proxy.                                *)

\* What a failed row has stopped so far, by the place of the main thread.
AbortInv ==
  /\ pc \in {"loop", "batch", "write", "writing", "failWrite", "failWriting",
             "final", "finalWriting"} => rc = 0
  /\ pc \in {"stopCloud", "joinCloud", "joinLocal"} => rc = 1
  /\ pc = "joinCloud" => Queued(CloudKeys) = {}
  /\ pc = "joinLocal" => Queued(Keys) = {}
  /\ pc \in {"finally", "drain", "end"} /\ rc = 1 /\ ~raised => Queued(Keys) = {}
  /\ pc \in {"finally", "drain", "final", "finalWriting", "end"} /\ ~raised => futureMap = {}

\* At most one local item is waited for, and none while the row of one is written;
\* what is still to be handed out comes after it.
SeriesInv ==
  /\ Queued(LocalKeys) \cup Active(LocalKeys) \subseteq futureMap
  /\ \A j, k \in futureMap \cap LocalKeys : j = k
  /\ pc \in {"write", "writing"} /\ cur \subseteq LocalKeys => futureMap \cap LocalKeys = {}
  /\ \A k \in futureMap \cap LocalKeys : \A j \in todoLocal : LocalBefore(k, j)

\* A local item that may still be followed by another, which is to find the proxy of
\* current_local_row_name.
LiveLocal ==
  \/ \E k \in futureMap \cap LocalKeys : fut[k] \in {"queued", "preparing", "running", "ok"}
  \/ pc \in {"write", "writing"} /\ cur \subseteq LocalKeys

RowInv == LiveLocal /\ ~raised => curRow \in {NoRow, proxyRow}

\* Once the finally clause has stopped it, nothing starts a proxy again.
StoppedInv == pc \in {"drain", "final", "finalWriting", "end"} /\ ~raised => proxyRow = NoRow

PoolInv == AbortInv /\ SeriesInv /\ RowInv /\ ProxyServesActiveRow /\ StoppedInv

\* The steps of the main thread that hand nothing out and call nothing back.
Bookkeeping == \/ Wait \/ BatchDone \/ LoopDone \/ BeginWrite \/ WriteFailure \/ WriteFinal
               \/ WriteRaises \/ StopBackends \/ Drained \/ Interrupt \/ UNCHANGED vars

LEMMA BookkeepingFrame ==
  ASSUME Bookkeeping
  PROVE  /\ UNCHANGED <<fut, futureMap, todoLocal, curRow>>
         /\ pc' \in {"write", "writing"} => pc \in {"write", "writing"} /\ cur' = cur
         /\ raised => raised'
<1> USE DEF mainVars, diskVars
<1>1. CASE Wait \/ BatchDone \/ LoopDone
  BY <1>1 DEF Wait, BatchDone, LoopDone
<1>2. CASE BeginWrite
  BY <1>2 DEF BeginWrite, Filling
<1>3. CASE WriteFailure \/ WriteFinal \/ WriteRaises
  BY <1>3 DEF WriteFailure, WriteFinal, WriteRaises
<1>4. CASE StopBackends \/ Drained \/ Interrupt
  BY <1>4 DEF StopBackends, Drained, Interrupt, TryBlock
<1>5. CASE UNCHANGED vars
  BY <1>5 DEF vars
<1> QED
  BY <1>1, <1>2, <1>3, <1>4, <1>5 DEF Bookkeeping

\* A step of a worker leaves the main thread alone.
LEMMA WorkerFrame ==
  ASSUME NEW k \in Keys, Worker(k)
  PROVE  UNCHANGED <<pc, futureMap, done, todoLocal, mainVars, diskVars>>
BY DEF Worker, CloudStart, LocalStart, Prepare, PrepareFails, Finish

\* A worker advances its own item, which was queued or active before it is active.
LEMMA WorkerAdvances ==
  ASSUME TypeOK, NEW k \in Keys, Worker(k)
  PROVE  /\ \A j \in Keys \ {k} : fut'[j] = fut[j]
         /\ fut[k] \in {"queued", "preparing", "running"}
         /\ fut'[k] \in {"preparing", "running", "ok", "err"}
BY DEF TypeOK, Worker, CloudStart, LocalStart, Prepare, PrepareFails, Finish, Queued

\* Nothing runs, is queued or is waited for.
LEMMA ResetFrame ==
  ASSUME StartFails \/ Crash
  PROVE  /\ \A k \in Keys : fut'[k] = "idle"
         /\ futureMap' = {} /\ todoLocal' = {} /\ pc' \in {"idle", "end"}
         /\ pc' = "end" => raised'
BY DEF StartFails, Crash

\* What a start hands out.
LEMMA StartFrame ==
  ASSUME NEW resume \in BOOLEAN, StartRun(resume)
  PROVE  \E todo \in SUBSET Keys :
           /\ todo = Keys \ CompletedKeys(Loaded(resume))
           /\ futureMap' = (todo \cap CloudKeys) \cup NextLocal(todo \cap LocalKeys)
           /\ todoLocal' = (todo \cap LocalKeys) \ NextLocal(todo \cap LocalKeys)
           /\ \A k \in Keys : fut'[k] = IF k \in futureMap' THEN "queued" ELSE "idle"
           /\ pc' = "loop" /\ rc' = 0 /\ raised' = FALSE /\ exit' = "none" /\ curRow' = NoRow
           /\ runRows' = Loaded(resume) /\ base' = Len(Loaded(resume))
<1> DEFINE todo == Keys \ CompletedKeys(Loaded(resume))
<1>1. todo \in SUBSET Keys
  OBVIOUS
<1>2. /\ futureMap' = (todo \cap CloudKeys) \cup NextLocal(todo \cap LocalKeys)
      /\ todoLocal' = (todo \cap LocalKeys) \ NextLocal(todo \cap LocalKeys)
      /\ \A k \in Keys : fut'[k] = IF k \in futureMap' THEN "queued" ELSE "idle"
      /\ pc' = "loop" /\ rc' = 0 /\ raised' = FALSE /\ exit' = "none" /\ curRow' = NoRow
      /\ runRows' = Loaded(resume) /\ base' = Len(Loaded(resume))
  BY DEF StartRun
<1> QED
  BY <1>1, <1>2

\* What WriteResult hands out after a local row.
Follower == IF cur \subseteq LocalKeys THEN NextLocal(todoLocal) ELSE {}

LEMMA ResultFrame ==
  ASSUME WriteResult
  PROVE  /\ futureMap' = futureMap \cup Follower /\ todoLocal' = todoLocal \ Follower
         /\ \A k \in Keys : fut'[k] = IF k \in Follower THEN "queued" ELSE fut[k]
         /\ pc = "writing" /\ pc' = "batch"
         /\ UNCHANGED <<done, curRow, proxyRow, mainVars>>
BY DEF WriteResult, Follower

\* A popped future has ended, and is waited for no more.
LEMMA PopFrame ==
  ASSUME TypeOK, NEW k \in Keys, Pop(k)
  PROVE  /\ pc = "batch" /\ k \in futureMap /\ futureMap' = futureMap \ {k} /\ cur' = {k}
         /\ \/ fut[k] = "ok" /\ pc' = "write"
            \/ fut[k] = "err" /\ pc' = "failWrite"
         /\ UNCHANGED <<fut, todoLocal, curRow, proxyRow, rc, raised, exit>>
BY DEF Pop, TypeOK
-----------------------------------------------------------------------------

LEMMA AbortStep == TypeOK /\ AbortInv /\ [Next]_vars => AbortInv'
<1> SUFFICES ASSUME TypeOK, AbortInv, [Next]_vars PROVE AbortInv'
  OBVIOUS
<1> USE DEF AbortInv
<1>1. CASE Wait \/ BatchDone \/ LoopDone \/ BeginWrite
  BY <1>1 DEF Wait, BatchDone, LoopDone, BeginWrite, Filling, mainVars, Queued
<1>2. CASE WriteFailure \/ WriteFinal
  BY <1>2 DEF WriteFailure, WriteFinal
<1>12. CASE WriteRaises
  <2>1. \/ pc = "writing" /\ pc' = "failWrite"
        \/ raised' /\ pc' \in {"finally", "end"}
    BY <1>12 DEF WriteRaises
  <2>2. rc' = rc
    BY <1>12 DEF WriteRaises
  <2> QED
    BY <2>1, <2>2
<1>3. CASE StopCloud
  BY <1>3 DEF StopCloud, Cancel, mainVars, Queued, CloudKeys
<1>4. CASE StopLocal
  <2>1. \A k \in Keys : fut'[k] # "queued"
    BY <1>4 DEF StopLocal, Cancel, Queued, CloudKeys
  <2> QED
    BY <1>4, <2>1 DEF StopLocal, mainVars, Queued
<1>5. CASE Abandon \/ StopBackends \/ Drained \/ Interrupt
  BY <1>5 DEF Abandon, StopBackends, Drained, Interrupt, TryBlock, mainVars, Queued
<1>6. CASE WriteResult
  <2>1. pc' = "batch" /\ rc' = 0
    BY <1>6, ResultFrame DEF mainVars
  <2> QED
    BY <2>1
<1>7. ASSUME NEW k \in Keys, Pop(k) PROVE AbortInv'
  BY <1>7, PopFrame
<1>8. ASSUME NEW resume \in BOOLEAN, StartRun(resume) PROVE AbortInv'
  BY <1>8, StartFrame
<1>9. CASE StartFails \/ Crash
  BY <1>9, ResetFrame
<1>10. ASSUME NEW k \in Keys, Worker(k) PROVE AbortInv'
  BY <1>10, WorkerFrame, WorkerAdvances DEF Queued, CloudKeys, mainVars
<1>11. CASE UNCHANGED vars
  BY <1>11 DEF vars, mainVars, Queued
<1> QED
  BY <1>1, <1>2, <1>3, <1>4, <1>5, <1>6, <1>7, <1>8, <1>9, <1>10, <1>11, <1>12 DEF Next, Main

\* The order of the local items is strict.
LEMMA LocalOrder ==
  /\ \A j, k \in LocalKeys : LocalBefore(j, k) => ~LocalBefore(k, j)
  /\ \A S \in SUBSET LocalKeys : \A j, k \in NextLocal(S) : j = k
<1>1. \A k \in LocalKeys : TaskPos[k[1]] \in Nat /\ RowPos[k[2]] \in Nat
  BY OrderAssumption, RowsAssumption DEF LocalKeys
<1>2. ASSUME NEW j \in LocalKeys, NEW k \in LocalKeys, LocalBefore(j, k) PROVE ~LocalBefore(k, j)
  BY <1>1, <1>2 DEF LocalBefore
<1>3. ASSUME NEW S \in SUBSET LocalKeys, NEW j \in NextLocal(S), NEW k \in NextLocal(S) PROVE j = k
  <2>1. j \in LocalKeys /\ k \in LocalKeys
    BY DEF NextLocal
  <2> QED
    BY <1>2, <2>1 DEF NextLocal
<1> QED
  BY <1>2, <1>3

\* Fewer items, none of them new, keep the series.
LEMMA SeriesKept ==
  ASSUME SeriesInv, futureMap' \subseteq futureMap, UNCHANGED todoLocal,
         \A k \in LocalKeys : fut'[k] \in {"queued", "preparing", "running"} =>
           k \in futureMap' /\ fut[k] \in {"queued", "preparing", "running"},
         pc' \in {"write", "writing"} /\ cur' \subseteq LocalKeys => futureMap' \cap LocalKeys = {}
  PROVE  SeriesInv'
BY DEF SeriesInv, Queued, Active, LocalBefore

LEMMA SeriesStep == TypeOK /\ AbortInv /\ SeriesInv /\ [Next]_vars => SeriesInv'
<1> SUFFICES ASSUME TypeOK, AbortInv, SeriesInv, [Next]_vars PROVE SeriesInv'
  OBVIOUS
<1>0. \A k \in LocalKeys : fut[k] \in {"queued", "preparing", "running"} => k \in futureMap
  BY DEF SeriesInv, Queued, Active
<1>k. LocalKeys \subseteq Keys
  BY RowsAssumption DEF LocalKeys, Keys
<1>1. CASE Bookkeeping
  <2>1. pc' \in {"write", "writing"} /\ cur' \subseteq LocalKeys => futureMap' \cap LocalKeys = {}
    BY <1>1, BookkeepingFrame DEF SeriesInv
  <2> QED
    BY <1>0, <1>1, <2>1, BookkeepingFrame, SeriesKept
<1>2. CASE StopCloud \/ StopLocal
  <2>1. UNCHANGED <<futureMap, todoLocal>> /\ pc' \notin {"write", "writing"}
        /\ \A k \in Keys : fut'[k] \in {"queued", "preparing", "running"} => fut'[k] = fut[k]
    BY <1>2 DEF StopCloud, StopLocal, Cancel
  <2>2. \A k \in LocalKeys : fut'[k] \in {"queued", "preparing", "running"} =>
          k \in futureMap' /\ fut[k] \in {"queued", "preparing", "running"}
    BY <1>0, <1>k, <2>1
  <2> QED
    BY <2>1, <2>2, SeriesKept
<1>3. CASE Abandon
  <2>1. futureMap' = {} /\ UNCHANGED <<fut, todoLocal>> /\ pc' = "finally"
    BY <1>3 DEF Abandon
  <2>2. \A k \in LocalKeys : fut[k] \notin {"queued", "preparing", "running"}
    BY <1>3, <1>k DEF Abandon, AbortInv, Queued, Active
  <2> QED
    BY <2>1, <2>2, SeriesKept
<1>4. CASE WriteResult
  <2>1. Follower \subseteq todoLocal /\ todoLocal \subseteq LocalKeys
    BY NextLocalPicks DEF Follower, TypeOK
  <2>2. \A k \in Follower : \A j \in todoLocal \ Follower : LocalBefore(k, j)
    BY DEF Follower, NextLocal
  <2>3. Follower # {} => futureMap \cap LocalKeys = {}
    BY <1>4, ResultFrame DEF Follower, SeriesInv
  <2>4. \A j, k \in Follower : j = k
    BY <2>1, LocalOrder DEF Follower
  <2>5. /\ futureMap' = futureMap \cup Follower /\ todoLocal' = todoLocal \ Follower /\ pc' = "batch"
        /\ \A k \in Keys : fut'[k] = IF k \in Follower THEN "queued" ELSE fut[k]
    BY <1>4, ResultFrame
  <2> HIDE DEF Follower
  <2>6. Queued(LocalKeys)' \cup Active(LocalKeys)' \subseteq futureMap'
    BY <1>0, <1>k, <2>5 DEF Queued, Active
  <2>7. \A j, k \in futureMap' \cap LocalKeys : j = k
    BY <2>3, <2>4, <2>5 DEF SeriesInv
  <2>8. \A k \in futureMap' \cap LocalKeys : \A j \in todoLocal' : LocalBefore(k, j)
    BY <2>2, <2>5 DEF SeriesInv
  <2> QED
    BY <2>5, <2>6, <2>7, <2>8 DEF SeriesInv, LocalBefore
<1>5. ASSUME NEW k \in Keys, Pop(k) PROVE SeriesInv'
  <2>1. /\ k \in futureMap /\ futureMap' = futureMap \ {k} /\ cur' = {k}
        /\ fut[k] \in {"ok", "err"} /\ UNCHANGED <<fut, todoLocal>>
    BY <1>5, PopFrame
  <2>2. cur' \subseteq LocalKeys => futureMap' \cap LocalKeys = {}
    BY <2>1 DEF SeriesInv
  <2> QED
    BY <1>0, <2>1, <2>2, SeriesKept
<1>6. ASSUME NEW resume \in BOOLEAN, StartRun(resume) PROVE SeriesInv'
  <2>1. PICK todo \in SUBSET Keys :
          /\ futureMap' = (todo \cap CloudKeys) \cup NextLocal(todo \cap LocalKeys)
          /\ todoLocal' = (todo \cap LocalKeys) \ NextLocal(todo \cap LocalKeys)
          /\ \A k \in Keys : fut'[k] = IF k \in futureMap' THEN "queued" ELSE "idle"
          /\ pc' = "loop"
    BY <1>6, StartFrame
  <2> DEFINE first == NextLocal(todo \cap LocalKeys)
  <2>2. futureMap' \cap LocalKeys = first /\ first \subseteq todo \cap LocalKeys
    BY <2>1, NextLocalPicks DEF CloudKeys
  <2>3. \A j, k \in first : j = k
    BY LocalOrder
  <2>4. \A k \in first : \A j \in todoLocal' : LocalBefore(k, j)
    BY <2>1 DEF NextLocal
  <2> HIDE DEF first
  <2>5. Queued(LocalKeys)' \cup Active(LocalKeys)' \subseteq futureMap'
    BY <1>k, <2>1 DEF Queued, Active
  <2> QED
    BY <2>1, <2>2, <2>3, <2>4, <2>5 DEF SeriesInv, LocalBefore
<1>7. CASE StartFails \/ Crash
  <2>1. \A k \in LocalKeys : fut'[k] \notin {"queued", "preparing", "running"}
    BY <1>7, <1>k, ResetFrame
  <2> QED
    BY <1>7, <2>1, ResetFrame DEF SeriesInv, Queued, Active
<1>8. ASSUME NEW k \in Keys, Worker(k) PROVE SeriesInv'
  <2>1. UNCHANGED <<pc, futureMap, todoLocal, cur>>
    BY <1>8, WorkerFrame DEF mainVars
  <2>2. \A j \in LocalKeys : fut'[j] \in {"queued", "preparing", "running"} =>
          fut[j] \in {"queued", "preparing", "running"}
    BY <1>8, <1>k, WorkerAdvances
  <2> QED
    BY <1>0, <2>1, <2>2, SeriesKept DEF SeriesInv
<1> QED
  BY <1>1, <1>2, <1>3, <1>4, <1>5, <1>6, <1>7, <1>8 DEF Next, Main, Bookkeeping

-----------------------------------------------------------------------------
(* The proxy of the local row.                                               *)

\* The local item that is prepared or runs is the only one that is waited for.
LEMMA OneLocal ==
  ASSUME SeriesInv, NEW k \in LocalKeys, fut[k] \in {"queued", "preparing", "running"}
  PROVE  /\ k \in futureMap /\ \A j \in LocalKeys : j \in futureMap => j = k
         /\ \A j \in LocalKeys : fut[j] \in {"queued", "preparing", "running"} => j = k
         /\ ~(pc \in {"write", "writing"} /\ cur \subseteq LocalKeys)
BY DEF SeriesInv, Queued, Active

\* The other steps of a worker touch no proxy, and make no local item run.
LEMMA ProxySteps ==
  ASSUME TypeOK, NEW k \in Keys, Worker(k), ~Prepare(k), ~PrepareFails(k)
  PROVE  UNCHANGED <<curRow, proxyRow>> /\ (k \in LocalKeys => fut'[k] # "running")
BY DEF TypeOK, Worker, CloudStart, LocalStart, Finish, Queued, CloudKeys

LEMMA ProxyFrame ==
  ASSUME [Next]_vars, ~StopBackends, \A k \in Keys : ~Worker(k)
  PROVE  UNCHANGED proxyRow
<1>1. Wait \/ BatchDone \/ LoopDone \/ BeginWrite \/ WriteResult \/ WriteFailure \/ WriteFinal
        => UNCHANGED proxyRow
  BY DEF Wait, BatchDone, LoopDone, BeginWrite, WriteResult, WriteFailure, WriteFinal
<1>2. StopCloud \/ StopLocal \/ Abandon \/ Drained \/ (\E k \in Keys : Pop(k)) => UNCHANGED proxyRow
  BY DEF StopCloud, StopLocal, Abandon, Drained, Pop
<1>3. (\E resume \in BOOLEAN : StartRun(resume)) \/ StartFails \/ WriteRaises \/ Interrupt \/ Crash
        => UNCHANGED proxyRow
  BY DEF StartRun, StartFails, WriteRaises, Interrupt, Crash
<1>4. UNCHANGED vars => UNCHANGED proxyRow
  BY DEF vars
<1> QED
  BY <1>1, <1>2, <1>3, <1>4 DEF Next, Main

LEMMA RowStep == TypeOK /\ AbortInv /\ SeriesInv /\ RowInv /\ [Next]_vars => RowInv'
<1> SUFFICES ASSUME TypeOK, AbortInv, SeriesInv, RowInv, [Next]_vars, LiveLocal', ~raised'
             PROVE  curRow' \in {NoRow, proxyRow'}
  BY DEF RowInv
<1>k. LocalKeys \subseteq Keys
  BY RowsAssumption DEF LocalKeys, Keys
<1>0. ASSUME LiveLocal, ~raised, UNCHANGED <<curRow, proxyRow>>
      PROVE  curRow' \in {NoRow, proxyRow'}
  BY <1>0 DEF RowInv
<1>1. CASE Bookkeeping /\ ~StopBackends /\ \A k \in Keys : ~Worker(k)
  <2>1. LiveLocal /\ ~raised /\ UNCHANGED curRow
    BY <1>1, BookkeepingFrame DEF LiveLocal
  <2> QED
    BY <1>0, <1>1, <2>1, ProxyFrame
<1>2. CASE StopBackends
  <2>1. ~LiveLocal'
    BY <1>2 DEF StopBackends, LiveLocal, AbortInv, mainVars
  <2> QED
    BY <2>1
<1>3. CASE StopCloud \/ StopLocal
  <2>1. /\ UNCHANGED <<futureMap, curRow, proxyRow, raised>> /\ pc' \notin {"write", "writing"}
        /\ \A k \in Keys : fut'[k] \in {"queued", "preparing", "running", "ok"} => fut'[k] = fut[k]
    BY <1>3 DEF StopCloud, StopLocal, Cancel, mainVars
  <2> QED
    BY <1>0, <1>k, <2>1 DEF LiveLocal
<1>4. CASE Abandon
  BY <1>4 DEF Abandon, LiveLocal
<1>5. CASE WriteResult
  <2>1. /\ \A k \in LocalKeys : fut'[k] = IF k \in Follower THEN "queued" ELSE fut[k]
        /\ futureMap' = futureMap \cup Follower /\ pc = "writing" /\ pc' = "batch"
        /\ UNCHANGED <<curRow, proxyRow, raised>>
    BY <1>5, <1>k, ResultFrame DEF mainVars
  <2>2. Follower # {} => cur \subseteq LocalKeys
    BY DEF Follower
  <2> HIDE DEF Follower
  <2> QED
    BY <1>0, <2>1, <2>2 DEF LiveLocal
<1>6. ASSUME NEW k \in Keys, Pop(k) PROVE curRow' \in {NoRow, proxyRow'}
  BY <1>0, <1>6, PopFrame DEF LiveLocal
<1>7. ASSUME NEW resume \in BOOLEAN, StartRun(resume) PROVE curRow' \in {NoRow, proxyRow'}
  BY <1>7, StartFrame
<1>8. CASE StartFails \/ Crash
  BY <1>8, ResetFrame DEF LiveLocal
<1>9. ASSUME NEW k \in Keys, Worker(k) PROVE curRow' \in {NoRow, proxyRow'}
  <2>1. UNCHANGED <<pc, futureMap, cur, raised>>
    BY <1>9, WorkerFrame DEF mainVars
  <2>2. LiveLocal
    BY <1>9, <1>k, <2>1, WorkerAdvances DEF LiveLocal
  <2>3. CASE PrepareFails(k)
    <3>1. k \in LocalKeys /\ fut[k] = "preparing" /\ fut'[k] = "err"
      BY <2>3 DEF PrepareFails, TypeOK
    <3> QED
      BY <2>1, <3>1, OneLocal DEF LiveLocal
  <2>4. CASE Prepare(k)
    BY <1>0, <2>1, <2>2, <2>4 DEF Prepare
  <2> QED
    BY <1>0, <1>9, <2>1, <2>2, <2>3, <2>4, ProxySteps
<1> QED
  BY <1>1, <1>2, <1>3, <1>4, <1>5, <1>6, <1>7, <1>8, <1>9 DEF Next, Main, Bookkeeping

Serves(k) == proxyRow # NoRow /\ SameName(proxyRow, k[2])

LEMMA ServeStep ==
  TypeOK /\ AbortInv /\ SeriesInv /\ RowInv /\ ProxyServesActiveRow /\ [Next]_vars
    => ProxyServesActiveRow'
<1> SUFFICES ASSUME TypeOK, AbortInv, SeriesInv, RowInv, ProxyServesActiveRow, [Next]_vars,
                    NEW k \in LocalKeys, fut'[k] = "running", ~raised'
             PROVE  Serves(k)'
  BY DEF ProxyServesActiveRow, Serves
<1>k. k \in Keys /\ k[2] # NoRow
  BY RowsAssumption DEF LocalKeys, Keys
<1>1. CASE fut[k] = "running" /\ ~raised /\ UNCHANGED proxyRow
  BY <1>1 DEF ProxyServesActiveRow, Serves
<1>2. CASE StopBackends
  <2>1. futureMap = {} /\ fut[k] = "running"
    BY <1>2 DEF StopBackends, AbortInv, mainVars
  <2> QED
    BY <2>1, OneLocal
<1>3. ASSUME NEW j \in Keys, Worker(j) PROVE Serves(k)'
  <2>1. UNCHANGED <<raised, futureMap>>
    BY <1>3, WorkerFrame DEF mainVars
  <2>2. CASE Prepare(j)
    <3>1. j \in LocalKeys /\ fut[j] = "preparing"
      BY <2>2 DEF Prepare
    <3>2. j = k
      BY <1>3, <1>k, <3>1, OneLocal, WorkerAdvances
    <3>3. LiveLocal
      BY <3>1, OneLocal DEF LiveLocal
    <3> QED
      BY <1>k, <2>1, <2>2, <3>2, <3>3 DEF Prepare, RowInv, Serves, SameName
  <2>3. CASE PrepareFails(j)
    <3>1. j \in LocalKeys /\ fut[j] = "preparing" /\ fut'[j] = "err"
      BY <2>3 DEF PrepareFails, TypeOK
    <3> QED
      BY <1>3, <1>k, <3>1, OneLocal, WorkerAdvances
  <2>4. CASE ~Prepare(j) /\ ~PrepareFails(j)
    BY <1>1, <1>3, <1>k, <2>1, <2>4, ProxySteps, WorkerAdvances
  <2> QED
    BY <2>2, <2>3, <2>4
<1>4. CASE ~StopBackends /\ \A j \in Keys : ~Worker(j)
  <2>1. UNCHANGED proxyRow
    BY <1>4, ProxyFrame
  <2>2. CASE Bookkeeping
    BY <1>1, <2>1, <2>2, BookkeepingFrame
  <2>3. CASE StopCloud \/ StopLocal \/ Abandon
    BY <1>1, <1>k, <2>1, <2>3 DEF StopCloud, StopLocal, Abandon, Cancel, mainVars
  <2>4. CASE WriteResult
    BY <1>1, <1>k, <2>1, <2>4, ResultFrame DEF mainVars
  <2>5. ASSUME NEW j \in Keys, Pop(j) PROVE Serves(k)'
    BY <1>1, <2>1, <2>5, PopFrame
  <2>6. ASSUME NEW resume \in BOOLEAN, StartRun(resume) PROVE FALSE
    BY <1>k, <2>6, StartFrame
  <2>7. CASE StartFails \/ Crash
    BY <1>k, <2>7, ResetFrame
  <2> QED
    BY <1>4, <2>2, <2>3, <2>4, <2>5, <2>6, <2>7 DEF Next, Main, Bookkeeping
<1> QED
  BY <1>2, <1>3, <1>4

LEMMA StoppedStep ==
  TypeOK /\ AbortInv /\ SeriesInv /\ StoppedInv /\ [Next]_vars => StoppedInv'
<1> SUFFICES ASSUME TypeOK, AbortInv, SeriesInv, StoppedInv, [Next]_vars,
                    pc' \in {"drain", "final", "finalWriting", "end"}, ~raised'
             PROVE  proxyRow' = NoRow
  BY DEF StoppedInv
<1>1. CASE StopBackends
  BY <1>1 DEF StopBackends, TypeOK
<1>2. ASSUME NEW k \in Keys, Worker(k) PROVE proxyRow' = NoRow
  <2>1. UNCHANGED <<pc, raised, futureMap>>
    BY <1>2, WorkerFrame DEF mainVars
  <2>2. proxyRow = NoRow /\ futureMap = {}
    BY <2>1 DEF StoppedInv, AbortInv
  <2>3. ~Prepare(k) /\ ~PrepareFails(k)
    BY <2>2, OneLocal DEF Prepare, PrepareFails
  <2> QED
    BY <1>2, <2>2, <2>3, ProxySteps
<1>3. CASE ~StopBackends /\ \A k \in Keys : ~Worker(k)
  <2>1. CASE pc \in {"drain", "final", "finalWriting", "end"} /\ ~raised
    BY <1>3, <2>1, ProxyFrame DEF StoppedInv
  <2>2. pc \in {"drain", "final", "finalWriting", "end"} /\ ~raised
    <3>1. Wait \/ BatchDone \/ LoopDone \/ BeginWrite \/ WriteFailure \/ WriteFinal =>
            pc \in {"drain", "final", "finalWriting", "end"} /\ ~raised
      BY DEF Wait, BatchDone, LoopDone, BeginWrite, WriteFailure, WriteFinal, Filling, mainVars
    <3>2. ~(WriteResult \/ StopCloud \/ StopLocal \/ Abandon)
      BY DEF WriteResult, StopCloud, StopLocal, Abandon
    <3>3. Drained \/ UNCHANGED vars => pc \in {"drain", "final", "finalWriting", "end"} /\ ~raised
      BY DEF Drained, vars, mainVars
    <3>4. ~(WriteRaises \/ Interrupt)
      BY DEF WriteRaises, Interrupt
    <3>5. ~(StartFails \/ Crash)
      BY ResetFrame
    <3>6. \A resume \in BOOLEAN : ~StartRun(resume)
      BY StartFrame
    <3>7. \A k \in Keys : ~Pop(k)
      BY PopFrame
    <3> QED
      BY <1>3, <3>1, <3>2, <3>3, <3>4, <3>5, <3>6, <3>7 DEF Next, Main
  <2> QED
    BY <2>1, <2>2
<1> QED
  BY <1>1, <1>2, <1>3

-----------------------------------------------------------------------------
(* The theorems about the pools.                                             *)

LEMMA PoolInit == Init => PoolInv
<1> SUFFICES ASSUME Init PROVE PoolInv
  OBVIOUS
<1>k. LocalKeys \subseteq Keys
  BY RowsAssumption DEF LocalKeys, Keys
<1>1. AbortInv
  BY DEF Init, AbortInv
<1>2. SeriesInv
  BY <1>k DEF Init, SeriesInv, Queued, Active
<1>3. RowInv /\ StoppedInv
  BY DEF Init, RowInv, StoppedInv
<1>4. ProxyServesActiveRow
  BY <1>k DEF Init, ProxyServesActiveRow
<1> QED
  BY <1>1, <1>2, <1>3, <1>4 DEF PoolInv

LEMMA Pools == Spec => [](TypeOK /\ PoolInv)
<1>1. Init => TypeOK /\ PoolInv
  BY PoolInit, TypesInit
<1>2. TypeOK /\ PoolInv /\ [Next]_vars => TypeOK' /\ PoolInv'
  BY TypeInductive, AbortStep, SeriesStep, RowStep, ServeStep, StoppedStep DEF PoolInv
<1> QED
  BY <1>1, <1>2, PTL DEF Spec

\* Local items run one after the other, and no row is left before its last item.
THEOREM LocalInSeries == Spec => []LocalSeries
<1>1. TypeOK /\ PoolInv => LocalSeries
  <2> SUFFICES ASSUME TypeOK, PoolInv, NEW k \in Active(LocalKeys)
               PROVE  /\ Queued(LocalKeys) = {} /\ Active(LocalKeys) = {k}
                      /\ \A j \in todoLocal : RowPos[k[2]] <= RowPos[j[2]]
    BY DEF LocalSeries
  <2>1. k \in LocalKeys /\ fut[k] \in {"preparing", "running"} /\ k \in futureMap
    BY OneLocal DEF Active, PoolInv
  <2>2. \A j \in LocalKeys : fut[j] \in {"queued", "preparing", "running"} => j = k
    BY <2>1, OneLocal DEF PoolInv
  <2>3. \A j \in todoLocal : LocalBefore(k, j)
    BY <2>1 DEF PoolInv, SeriesInv
  <2>4. \A j \in LocalKeys : RowPos[j[2]] \in Nat
    BY OrderAssumption, RowsAssumption DEF LocalKeys
  <2>5. \A j \in todoLocal : RowPos[k[2]] <= RowPos[j[2]]
    BY <2>1, <2>3, <2>4 DEF LocalBefore, TypeOK
  <2> QED
    BY <2>1, <2>2, <2>5 DEF Queued, Active
<1> QED
  BY <1>1, Pools, PTL

\* A local item runs behind the proxy of its own row.
THEOREM ProxyIsServing == Spec => []ProxyServesActiveRow
<1>1. PoolInv => ProxyServesActiveRow
  BY DEF PoolInv
<1> QED
  BY <1>1, Pools, PTL

\* A run that returns leaves no proxy.
THEOREM ProxyIsStopped == Spec => []NoOrphanProxy
<1>1. PoolInv => NoOrphanProxy
  BY DEF PoolInv, StoppedInv, NoOrphanProxy
<1> QED
  BY <1>1, Pools, PTL

\* After a failed row, once both pools are shut down, nothing starts.
THEOREM AbortIsFinal == Spec => NoStartAfterAbort
<1>1. TypeOK /\ PoolInv /\ [Next]_vars =>
        [rc = 1 /\ pc \in {"joinLocal", "finally", "drain", "end"} /\ ~raised =>
           \A k \in Keys : fut[k] = "queued" => fut'[k] \in {"queued", "idle"}]_vars
  BY DEF PoolInv, AbortInv, Queued
<1> QED
  BY <1>1, Pools, PTL DEF Spec, NoStartAfterAbort

-----------------------------------------------------------------------------
(* A run that succeeds has run everything.                                   *)

\* LocalBefore is a strict total order of the local items.
LEMMA LocalTotal ==
  /\ \A j \in LocalKeys : ~LocalBefore(j, j)
  /\ \A j, k \in LocalKeys : j = k \/ LocalBefore(j, k) \/ LocalBefore(k, j)
  /\ \A i, j, k \in LocalKeys : LocalBefore(i, j) /\ LocalBefore(j, k) => LocalBefore(i, k)
<1>1. \A k \in LocalKeys : TaskPos[k[1]] \in Nat /\ RowPos[k[2]] \in Nat
  BY OrderAssumption, RowsAssumption DEF LocalKeys
<1>2. \A j, k \in LocalKeys : TaskPos[j[1]] = TaskPos[k[1]] /\ RowPos[j[2]] = RowPos[k[2]] => j = k
  BY OrderAssumption, RowsAssumption DEF LocalKeys
<1>3. \A j \in LocalKeys : ~LocalBefore(j, j)
  BY <1>1 DEF LocalBefore
<1>4. \A j, k \in LocalKeys : j = k \/ LocalBefore(j, k) \/ LocalBefore(k, j)
  BY <1>1, <1>2 DEF LocalBefore
<1>5. \A i, j, k \in LocalKeys : LocalBefore(i, j) /\ LocalBefore(j, k) => LocalBefore(i, k)
  BY <1>1 DEF LocalBefore
<1> QED
  BY <1>3, <1>4, <1>5

\* While local items are left there is a next one: of the sets of items up to a
\* given item, one is the smallest.
LEMMA NextLocalExists ==
  ASSUME NEW S \in SUBSET LocalKeys, S # {}
  PROVE  NextLocal(S) # {}
<1> DEFINE upTo(k) == {j \in S : j = k \/ LocalBefore(j, k)}
           upTos   == {upTo(k) : k \in S}
<1>1. IsFiniteSet(S)
  <2>1. IsFiniteSet(Tasks) /\ IsFiniteSet(LocalRows)
    BY FiniteAssumption, RowsAssumption, FS_Subset
  <2>2. IsFiniteSet(LocalKeys)
    BY <2>1, FS_Product DEF LocalKeys
  <2> QED
    BY <2>2, FS_Subset
<1>2. upTos \subseteq FiniteSubsetsOf(S) /\ upTos # {}
  <2>1. \A k \in S : upTo(k) \in SUBSET S
    OBVIOUS
  <2>2. \A T \in SUBSET S : IsFiniteSet(T)
    BY <1>1, FS_Subset
  <2> QED
    BY <2>1, <2>2 DEF FiniteSubsetsOf
<1>3. PICK T \in upTos : \A U \in upTos : <<U, T>> \notin StrictSubsetOrdering(S)
  <2> HIDE DEF upTos
  <2> QED
    BY <1>2, FS_StrictSubsetOrderingWellFounded, WFMin
<1>4. PICK k \in S : T = upTo(k)
  OBVIOUS
<1>5. ASSUME NEW j \in S, LocalBefore(j, k) PROVE FALSE
  <2>1. upTo(j) \subseteq upTo(k) /\ k \in upTo(k) /\ k \notin upTo(j)
    BY <1>5, LocalTotal
  <2>2. upTo(j) \in upTos /\ upTo(j) \in SUBSET S /\ upTo(k) \in SUBSET S
    OBVIOUS
  <2> HIDE DEF upTo, upTos
  <2>3. <<upTo(j), upTo(k)>> \in StrictSubsetOrdering(S)
    BY <2>1, <2>2 DEF StrictSubsetOrdering
  <2> QED
    BY <1>3, <1>4, <2>2, <2>3
<1>6. \A j \in S : j = k \/ LocalBefore(k, j)
  BY <1>5, LocalTotal
<1> QED
  BY <1>6 DEF NextLocal

\* The places of the main thread from which a run that neither failed nor was
\* interrupted goes on to its end.
Healthy == pc \notin {"idle", "end"} /\ rc = 0 /\ ~raised

EndInv ==
  /\ pc # "end" => exit = "none"
  /\ pc \in TryBlock \cup {"final", "finalWriting"} => ~raised

\* No key is lost between the rows, the futures and the local items to come.
NoneLostInv ==
  Healthy \/ futureMap # {} => Keys \subseteq CompletedKeys(runRows) \cup futureMap \cup todoLocal

\* Local items to come have one before them that hands out the next.
ChainInv ==
  /\ pc \in {"loop", "batch", "write", "writing"} /\ todoLocal # {} =>
       \/ futureMap \cap LocalKeys # {}
       \/ pc \in {"write", "writing"} /\ cur \subseteq LocalKeys
  /\ Healthy /\ pc \in {"finally", "drain", "final", "finalWriting"} => todoLocal = {}

\* The rows this run has added.
AddedInv ==
  Healthy /\ pc \notin {"failWrite", "failWriting"} =>
    \A i \in (base + 1)..Len(runRows) : runRows[i].kind = "result"

CompleteInv == EndInv /\ NoneLostInv /\ ChainInv /\ AddedInv /\ SuccessIsComplete

\* The steps that take the rows and the keys of the run as they are, and go on.
LEMMA SameRowsFrame ==
  ASSUME Wait \/ BatchDone \/ LoopDone \/ BeginWrite \/ WriteFailure \/ WriteFinal \/ StopCloud
           \/ StopLocal \/ StopBackends \/ Drained \/ Interrupt
  PROVE  UNCHANGED <<futureMap, todoLocal, runRows, base>>
<1> USE DEF mainVars
<1>1. CASE Wait \/ BatchDone \/ LoopDone
  BY <1>1 DEF Wait, BatchDone, LoopDone
<1>2. CASE BeginWrite \/ WriteFailure \/ WriteFinal
  BY <1>2 DEF BeginWrite, WriteFailure, WriteFinal
<1>3. CASE StopCloud \/ StopLocal \/ StopBackends \/ Drained \/ Interrupt
  BY <1>3 DEF StopCloud, StopLocal, StopBackends, Drained, Interrupt
<1> QED
  BY <1>1, <1>2, <1>3

LEMMA EndStep == TypeOK /\ AbortInv /\ EndInv /\ [Next]_vars => EndInv'
<1> SUFFICES ASSUME TypeOK, AbortInv, EndInv, [Next]_vars PROVE EndInv'
  OBVIOUS
<1> USE DEF EndInv, TryBlock
<1>1. CASE Wait \/ BatchDone \/ LoopDone \/ BeginWrite
  BY <1>1 DEF Wait, BatchDone, LoopDone, BeginWrite, Filling, mainVars
<1>2. CASE WriteFailure \/ WriteFinal \/ WriteRaises
  BY <1>2 DEF WriteFailure, WriteFinal, WriteRaises
<1>3. CASE StopCloud \/ StopLocal \/ Abandon \/ StopBackends
  BY <1>3 DEF StopCloud, StopLocal, Abandon, StopBackends, mainVars
<1>4. CASE Drained \/ Interrupt
  BY <1>4 DEF Drained, Interrupt
<1>5. CASE WriteResult
  BY <1>5, ResultFrame DEF mainVars
<1>6. ASSUME NEW k \in Keys, Pop(k) PROVE EndInv'
  BY <1>6, PopFrame
<1>7. ASSUME NEW resume \in BOOLEAN, StartRun(resume) PROVE EndInv'
  BY <1>7, StartFrame
<1>8. CASE StartFails \/ Crash
  BY <1>8 DEF StartFails, Crash
<1>9. ASSUME NEW k \in Keys, Worker(k) PROVE EndInv'
  BY <1>9, WorkerFrame DEF mainVars
<1>10. CASE UNCHANGED vars
  BY <1>10 DEF vars, mainVars
<1> QED
  BY <1>1, <1>2, <1>3, <1>4, <1>5, <1>6, <1>7, <1>8, <1>9, <1>10 DEF Next, Main

\* A healthy run was healthy, or has just been started.
LEMMA HealthyBefore ==
  ASSUME TypeOK, AbortInv, [Next]_vars, Healthy', \A resume \in BOOLEAN : ~StartRun(resume)
  PROVE  Healthy
<1> USE DEF Healthy, AbortInv
<1>1. CASE Wait \/ BatchDone \/ LoopDone \/ BeginWrite
  BY <1>1 DEF Wait, BatchDone, LoopDone, BeginWrite, Filling, mainVars
<1>2. CASE WriteFailure \/ WriteFinal \/ WriteRaises
  BY <1>2 DEF WriteFailure, WriteFinal, WriteRaises
<1>3. CASE StopCloud \/ StopLocal \/ Abandon \/ StopBackends
  BY <1>3 DEF StopCloud, StopLocal, Abandon, StopBackends, mainVars
<1>4. CASE Drained \/ Interrupt
  BY <1>4 DEF Drained, Interrupt, TryBlock
<1>5. CASE WriteResult
  BY <1>5, ResultFrame DEF mainVars
<1>6. ASSUME NEW k \in Keys, Pop(k) PROVE Healthy
  BY <1>6, PopFrame
<1>8. CASE StartFails \/ Crash
  BY <1>8 DEF StartFails, Crash
<1>9. ASSUME NEW k \in Keys, Worker(k) PROVE Healthy
  BY <1>9, WorkerFrame DEF mainVars
<1>10. CASE UNCHANGED vars
  BY <1>10 DEF vars, mainVars
<1> QED
  BY <1>1, <1>2, <1>3, <1>4, <1>5, <1>6, <1>8, <1>9, <1>10 DEF Next, Main

\* The steps of a run that has failed or is interrupted.
LEMMA UnhealthySteps ==
  ASSUME AbortInv, WriteFailure \/ StopCloud \/ StopLocal \/ Abandon \/ Interrupt
  PROVE  ~Healthy'
BY DEF AbortInv, Healthy, WriteFailure, StopCloud, StopLocal, Abandon, Interrupt, TryBlock, mainVars

\* A future that is waited for was so before, or follows a result of a healthy run.
LEMMA TrackedBefore ==
  ASSUME TypeOK, AbortInv, EndInv, [Next]_vars, Healthy' \/ futureMap' # {},
         \A resume \in BOOLEAN : ~StartRun(resume)
  PROVE  Healthy \/ futureMap # {}
<1>1. CASE Healthy'
  BY <1>1, HealthyBefore
<1>2. CASE futureMap' # {}
  <2>1. CASE Wait \/ BatchDone \/ LoopDone \/ BeginWrite \/ WriteFailure \/ WriteFinal \/ StopCloud
               \/ StopLocal \/ StopBackends \/ Drained \/ Interrupt
    BY <1>2, <2>1, SameRowsFrame
  <2>2. CASE Abandon \/ WriteRaises
    BY <1>2, <2>2 DEF Abandon, WriteRaises
  <2>3. CASE WriteResult
    BY <2>3, ResultFrame DEF Healthy, AbortInv, EndInv, TryBlock
  <2>4. ASSUME NEW k \in Keys, Pop(k) PROVE futureMap # {}
    BY <2>4, PopFrame
  <2>5. CASE StartFails \/ Crash
    BY <1>2, <2>5, ResetFrame
  <2>6. ASSUME NEW k \in Keys, Worker(k) PROVE futureMap # {}
    BY <1>2, <2>6, WorkerFrame
  <2>7. CASE UNCHANGED vars
    BY <1>2, <2>7 DEF vars
  <2> QED
    BY <2>1, <2>2, <2>3, <2>4, <2>5, <2>6, <2>7 DEF Next, Main
<1> QED
  BY <1>1, <1>2

LEMMA NoneLostStep ==
  TypeOK /\ AbortInv /\ EndInv /\ NoneLostInv /\ [Next]_vars => NoneLostInv'
<1> SUFFICES ASSUME TypeOK, AbortInv, EndInv, NoneLostInv, [Next]_vars, Healthy' \/ futureMap' # {}
             PROVE  Keys \subseteq CompletedKeys(runRows)' \cup futureMap' \cup todoLocal'
  BY DEF NoneLostInv
<1>0. ASSUME NEW resume \in BOOLEAN, StartRun(resume)
      PROVE  Keys \subseteq CompletedKeys(runRows)' \cup futureMap' \cup todoLocal'
  <2>1. PICK todo \in SUBSET Keys :
          /\ todo = Keys \ CompletedKeys(Loaded(resume)) /\ runRows' = Loaded(resume)
          /\ futureMap' = (todo \cap CloudKeys) \cup NextLocal(todo \cap LocalKeys)
          /\ todoLocal' = (todo \cap LocalKeys) \ NextLocal(todo \cap LocalKeys)
    BY <1>0, StartFrame
  <2>2. CompletedKeys(runRows)' = CompletedKeys(Loaded(resume))
    BY <2>1 DEF CompletedKeys, KeysOf
  <2> QED
    BY <2>1, <2>2 DEF CloudKeys
<1> SUFFICES ASSUME \A resume \in BOOLEAN : ~StartRun(resume),
                    Keys \subseteq CompletedKeys(runRows) \cup futureMap \cup todoLocal
             PROVE  Keys \subseteq CompletedKeys(runRows)' \cup futureMap' \cup todoLocal'
  BY <1>0, TrackedBefore DEF NoneLostInv
<1>1. CASE Wait \/ BatchDone \/ LoopDone \/ BeginWrite \/ WriteFailure \/ WriteFinal \/ StopCloud
             \/ StopLocal \/ StopBackends \/ Drained \/ Interrupt
  BY <1>1, SameRowsFrame DEF CompletedKeys, KeysOf
<1>2. CASE Abandon
  BY <1>2, UnhealthySteps DEF Abandon
<1>3. CASE WriteRaises
  <2>1. \/ runRows' = runRows
        \/ \E k \in cur : runRows' = Append(runRows, [key |-> k, kind |-> "failure"])
    BY <1>3 DEF WriteRaises
  <2>2. KeysOf(runRows) \subseteq KeysOf(runRows)'
    <3>1. ASSUME NEW k \in cur, runRows' = Append(runRows, [key |-> k, kind |-> "failure"])
          PROVE  KeysOf(runRows) \subseteq KeysOf(runRows')
      <4>1. [key |-> k, kind |-> "failure"] \in Entry
        BY DEF TypeOK, Entry
      <4> QED
        BY <3>1, <4>1, KeysOfAppend DEF TypeOK
    <3> QED
      BY <2>1, <3>1 DEF KeysOf
  <2>3. CompletedKeys(runRows) \subseteq CompletedKeys(runRows)'
    BY <2>2 DEF CompletedKeys
  <2> QED
    BY <1>3, <2>3 DEF WriteRaises
<1>4. CASE WriteResult
  BY <1>4, ResultFrame DEF mainVars, CompletedKeys, KeysOf
<1>5. ASSUME NEW k \in Keys, Pop(k)
      PROVE  Keys \subseteq CompletedKeys(runRows)' \cup futureMap' \cup todoLocal'
  <2>1. PICK kind \in {"result", "failure"} : runRows' = Append(runRows, [key |-> k, kind |-> kind])
    BY <1>5 DEF Pop
  <2>2. [key |-> k, kind |-> kind] \in Entry
    BY DEF Entry
  <2>3. KeysOf(runRows') = KeysOf(runRows) \cup {k}
    BY <2>1, <2>2, KeysOfAppend DEF TypeOK
  <2>4. CompletedKeys(runRows) \subseteq CompletedKeys(runRows')
    BY <2>3, CompletedGrows
  <2>5. runRows' \in Seq(Entry)
    BY <2>1, <2>2 DEF TypeOK
  <2>6. k \in CompletedKeys(runRows')
    BY <2>3, <2>5, RowsComplete
  <2>7. CompletedKeys(runRows)' = CompletedKeys(runRows')
    BY DEF CompletedKeys, KeysOf
  <2> QED
    BY <1>5, <2>4, <2>6, <2>7, PopFrame
<1>6. CASE StartFails \/ Crash
  BY <1>6, ResetFrame DEF Healthy
<1>7. ASSUME NEW k \in Keys, Worker(k)
      PROVE  Keys \subseteq CompletedKeys(runRows)' \cup futureMap' \cup todoLocal'
  BY <1>7, WorkerFrame DEF mainVars, CompletedKeys, KeysOf
<1>8. CASE UNCHANGED vars
  BY <1>8 DEF vars, mainVars, CompletedKeys, KeysOf
<1> QED
  BY <1>1, <1>2, <1>3, <1>4, <1>5, <1>6, <1>7, <1>8 DEF Next, Main

LEMMA ChainStep ==
  TypeOK /\ AbortInv /\ EndInv /\ ChainInv /\ [Next]_vars => ChainInv'
<1> SUFFICES ASSUME TypeOK, AbortInv, EndInv, ChainInv, [Next]_vars PROVE ChainInv'
  OBVIOUS
<1>1. CASE Wait \/ BatchDone \/ LoopDone
  <2>1. /\ UNCHANGED <<futureMap, todoLocal>>
        /\ \/ pc = "loop" /\ pc' = "batch"
           \/ pc = "batch" /\ pc' = "loop"
           \/ pc = "loop" /\ pc' = "finally" /\ futureMap = {}
    BY <1>1 DEF Wait, BatchDone, LoopDone
  <2> QED
    BY <2>1 DEF ChainInv
<1>2. CASE BeginWrite
  <2>1. /\ UNCHANGED <<futureMap, todoLocal, cur, rc, raised>>
        /\ \/ pc = "write" /\ pc' = "writing"
           \/ pc = "failWrite" /\ pc' = "failWriting"
           \/ pc = "final" /\ pc' = "finalWriting"
    BY <1>2 DEF BeginWrite, Filling, mainVars
  <2> QED
    BY <2>1 DEF ChainInv, Healthy
<1>3. CASE WriteFinal \/ WriteRaises
  BY <1>3 DEF WriteFinal, WriteRaises, ChainInv, Healthy
<1>4. CASE StopBackends \/ Drained
  BY <1>4 DEF StopBackends, Drained, ChainInv, Healthy, mainVars
<1>5. CASE WriteFailure \/ StopCloud \/ StopLocal \/ Abandon \/ Interrupt
  <2>1. pc' \notin {"loop", "batch", "write", "writing"}
    BY <1>5 DEF WriteFailure, StopCloud, StopLocal, Abandon, Interrupt, TryBlock
  <2> QED
    BY <1>5, <2>1, UnhealthySteps DEF ChainInv
<1>6. CASE WriteResult
  <2>1. /\ futureMap' = futureMap \cup Follower /\ todoLocal' = todoLocal \ Follower
        /\ pc = "writing" /\ pc' = "batch"
    BY <1>6, ResultFrame
  <2>2. CASE cur \subseteq LocalKeys /\ todoLocal # {}
    <3>1. Follower # {} /\ Follower \subseteq LocalKeys
      BY <2>2, NextLocalExists, NextLocalPicks DEF Follower, TypeOK
    <3> HIDE DEF Follower
    <3> QED
      BY <2>1, <3>1 DEF ChainInv
  <2>3. CASE ~(cur \subseteq LocalKeys /\ todoLocal # {})
    <3>1. todoLocal' # {} => todoLocal # {}
      BY <2>1
    <3> HIDE DEF Follower
    <3> QED
      BY <2>1, <2>3, <3>1 DEF ChainInv
  <2> QED
    BY <2>2, <2>3
<1>7. ASSUME NEW k \in Keys, Pop(k) PROVE ChainInv'
  BY <1>7, PopFrame DEF ChainInv
<1>8. ASSUME NEW resume \in BOOLEAN, StartRun(resume) PROVE ChainInv'
  <2>1. PICK todo \in SUBSET Keys :
          /\ futureMap' = (todo \cap CloudKeys) \cup NextLocal(todo \cap LocalKeys)
          /\ todoLocal' = (todo \cap LocalKeys) \ NextLocal(todo \cap LocalKeys)
          /\ pc' = "loop"
    BY <1>8, StartFrame
  <2>2. todo \cap LocalKeys # {} => NextLocal(todo \cap LocalKeys) # {}
    BY NextLocalExists
  <2>3. NextLocal(todo \cap LocalKeys) \subseteq LocalKeys
    BY NextLocalPicks
  <2> QED
    BY <2>1, <2>2, <2>3 DEF ChainInv
<1>9. CASE StartFails \/ Crash
  BY <1>9, ResetFrame DEF ChainInv
<1>10. ASSUME NEW k \in Keys, Worker(k) PROVE ChainInv'
  BY <1>10, WorkerFrame DEF ChainInv, Healthy, mainVars
<1>11. CASE UNCHANGED vars
  BY <1>11 DEF ChainInv, Healthy, vars, mainVars
<1> QED
  BY <1>1, <1>2, <1>3, <1>4, <1>5, <1>6, <1>7, <1>8, <1>9, <1>10, <1>11 DEF Next, Main

LEMMA AddedStep ==
  TypeOK /\ AbortInv /\ AddedInv /\ [Next]_vars => AddedInv'
<1> DEFINE added == \A i \in (base + 1)..Len(runRows) : runRows[i].kind = "result"
<1> SUFFICES ASSUME TypeOK, AbortInv, AddedInv, [Next]_vars, Healthy',
                    pc' \notin {"failWrite", "failWriting"}
             PROVE  added'
  BY DEF AddedInv
<1>0. ASSUME NEW resume \in BOOLEAN, StartRun(resume) PROVE added'
  <2>1. runRows' = Loaded(resume) /\ base' = Len(Loaded(resume))
    BY <1>0, StartFrame
  <2>2. Len(Loaded(resume)) \in Nat
    BY DEF TypeOK, Loaded
  <2> QED
    BY <2>1, <2>2
<1>00. ASSUME pc \notin {"failWrite", "failWriting"}, Healthy PROVE added
  BY <1>00 DEF AddedInv
<1> HIDE DEF added
<1> SUFFICES ASSUME \A resume \in BOOLEAN : ~StartRun(resume), Healthy PROVE added'
  BY <1>0, HealthyBefore
<1>1. ASSUME UNCHANGED <<runRows, base>>, pc \notin {"failWrite", "failWriting"} PROVE added'
  BY <1>00, <1>1 DEF added
<1>2. CASE Wait \/ BatchDone \/ LoopDone
  BY <1>1, <1>2 DEF Wait, BatchDone, LoopDone, mainVars
<1>3. CASE BeginWrite \/ WriteFinal \/ WriteResult
  BY <1>1, <1>3 DEF BeginWrite, Filling, WriteFinal, WriteResult, mainVars
<1>4. CASE WriteRaises
  BY <1>4 DEF WriteRaises, Healthy
<1>5. CASE StopBackends \/ Drained
  BY <1>1, <1>5 DEF StopBackends, Drained, mainVars
<1>6. CASE WriteFailure \/ StopCloud \/ StopLocal \/ Abandon \/ Interrupt
  BY <1>6, UnhealthySteps
<1>7. ASSUME NEW k \in Keys, Pop(k) PROVE added'
  <2>1. /\ pc = "batch" /\ runRows' = Append(runRows, [key |-> k, kind |-> "result"])
        /\ base' = base
    BY <1>7 DEF Pop
  <2>2. /\ Len(runRows') = Len(runRows) + 1 /\ Len(runRows) \in Nat /\ base \in Nat
        /\ \A i \in 1..Len(runRows) : runRows'[i] = runRows[i]
        /\ runRows'[Len(runRows) + 1] = [key |-> k, kind |-> "result"]
    BY <2>1 DEF TypeOK
  <2>3. added
    BY <1>00, <2>1
  <2>4. ASSUME NEW i \in (base + 1)..Len(runRows') PROVE runRows'[i].kind = "result"
    <3>1. CASE i \in 1..Len(runRows)
      BY <2>2, <2>3, <2>4, <3>1 DEF added
    <3>2. CASE i = Len(runRows) + 1
      BY <2>2, <3>2
    <3> QED
      BY <2>2, <2>4, <3>1, <3>2
  <2> QED
    BY <2>1, <2>4 DEF added
<1>8. CASE StartFails \/ Crash
  BY <1>8, ResetFrame DEF Healthy
<1>9. ASSUME NEW k \in Keys, Worker(k) PROVE added'
  BY <1>1, <1>9, WorkerFrame DEF mainVars
<1>10. CASE UNCHANGED vars
  BY <1>1, <1>10 DEF vars, mainVars
<1> QED
  BY <1>2, <1>3, <1>4, <1>5, <1>6, <1>7, <1>8, <1>9, <1>10 DEF Next, Main

\* Once a run has succeeded, its rows and the file stay until the next start.
LEMMA EndFrame ==
  ASSUME pc = "end", [Next]_vars
  PROVE  \/ UNCHANGED <<exit, runRows, base, results>>
         \/ exit' \in {"none", "raised"}
<1>1. ~(Wait \/ BatchDone \/ LoopDone \/ BeginWrite \/ WriteResult \/ WriteFailure \/ WriteFinal)
  BY DEF Wait, BatchDone, LoopDone, BeginWrite, WriteResult, WriteFailure, WriteFinal, Filling
<1>2. ~(StopCloud \/ StopLocal \/ Abandon \/ StopBackends \/ Drained \/ \E k \in Keys : Pop(k))
  BY DEF StopCloud, StopLocal, Abandon, StopBackends, Drained, Pop
<1>3. ~(WriteRaises \/ Interrupt \/ Crash)
  BY DEF WriteRaises, Interrupt, Crash, TryBlock
<1>4. (\E resume \in BOOLEAN : StartRun(resume)) \/ StartFails => exit' \in {"none", "raised"}
  BY DEF StartRun, StartFails
<1>5. ASSUME NEW k \in Keys, Worker(k) PROVE UNCHANGED <<exit, runRows, base, results>>
  BY <1>5, WorkerFrame DEF mainVars, diskVars
<1>6. UNCHANGED vars => UNCHANGED <<exit, runRows, base, results>>
  BY DEF vars, mainVars, diskVars
<1> QED
  BY <1>1, <1>2, <1>3, <1>4, <1>5, <1>6 DEF Next, Main

\* A run ends well in one way only.
LEMMA OnlyFinalSucceeds ==
  ASSUME TypeOK, EndInv, EndInv', [Next]_vars, pc # "end", exit' = "ok"
  PROVE  WriteFinal
<1>0. exit = "none" /\ pc' = "end"
  BY DEF EndInv
<1>1. ~(Wait \/ BatchDone \/ LoopDone \/ BeginWrite \/ WriteResult \/ WriteFailure)
  BY <1>0 DEF Wait, BatchDone, LoopDone, BeginWrite, WriteResult, WriteFailure, mainVars
<1>2. ~(StopCloud \/ StopLocal \/ Abandon \/ StopBackends \/ Drained \/ \E k \in Keys : Pop(k))
  BY <1>0 DEF StopCloud, StopLocal, Abandon, StopBackends, Drained, Pop, mainVars
<1>3. ~(WriteRaises \/ Interrupt \/ Crash \/ StartFails \/ \E resume \in BOOLEAN : StartRun(resume))
  BY <1>0 DEF WriteRaises, Interrupt, Crash, StartRun, StartFails
<1>4. \A k \in Keys : ~Worker(k)
  BY <1>0, WorkerFrame DEF mainVars
<1>5. ~UNCHANGED vars
  BY <1>0 DEF vars, mainVars
<1> QED
  BY <1>1, <1>2, <1>3, <1>4, <1>5 DEF Next, Main

\* Every key has a row of its task id and row name.
HasRow(rows) == \A k \in Keys : \E j \in KeysOf(rows) : j[1] = k[1] /\ SameName(j[2], k[2])

LEMMA SuccessStep ==
  TypeOK /\ TypeOK' /\ AbortInv /\ CompleteInv /\ EndInv' /\ [Next]_vars => SuccessIsComplete'
<1> SUFFICES ASSUME TypeOK, TypeOK', AbortInv, CompleteInv, EndInv', [Next]_vars, exit' = "ok"
             PROVE  /\ HasRow(runRows')
                    /\ \A i \in (base' + 1)..Len(runRows') : runRows'[i].kind = "result"
                    /\ results' = [rows |-> runRows', torn |-> FALSE]
  BY DEF SuccessIsComplete, HasRow, KeysOf
<1>1. CASE pc = "end"
  <2>1. UNCHANGED <<exit, runRows, base, results>>
    BY <1>1, EndFrame
  <2> QED
    BY <2>1 DEF CompleteInv, SuccessIsComplete, HasRow
<1>2. CASE pc # "end"
  <2>1. WriteFinal
    BY <1>2, OnlyFinalSucceeds DEF CompleteInv
  <2>2. pc = "finalWriting" /\ UNCHANGED <<runRows, base>>
        /\ results' = [rows |-> runRows, torn |-> FALSE]
    BY <2>1 DEF WriteFinal, StoreResults
  <2>3. Healthy /\ futureMap = {} /\ todoLocal = {}
    BY <2>2 DEF Healthy, AbortInv, CompleteInv, EndInv, ChainInv
  <2>4. Keys \subseteq CompletedKeys(runRows)
    BY <2>3 DEF CompleteInv, NoneLostInv
  <2>5. HasRow(runRows)
    BY <2>4 DEF HasRow, CompletedKeys
  <2>6. \A i \in (base + 1)..Len(runRows) : runRows[i].kind = "result"
    BY <2>2, <2>3 DEF CompleteInv, AddedInv
  <2> QED
    BY <2>2, <2>5, <2>6
<1> QED
  BY <1>1, <1>2

LEMMA CompleteInit == Init => CompleteInv
BY DEF Init, CompleteInv, EndInv, TryBlock, NoneLostInv, Healthy, ChainInv, AddedInv,
       SuccessIsComplete

LEMMA Completes == Spec => [](TypeOK /\ AbortInv /\ CompleteInv)
<1>1. Init => TypeOK /\ AbortInv /\ CompleteInv
  BY TypesInit, PoolInit, CompleteInit DEF PoolInv
<1>2. TypeOK /\ AbortInv /\ CompleteInv /\ [Next]_vars => TypeOK' /\ AbortInv' /\ CompleteInv'
  <2> SUFFICES ASSUME TypeOK, AbortInv, CompleteInv, [Next]_vars
               PROVE  TypeOK' /\ AbortInv' /\ CompleteInv'
    OBVIOUS
  <2>1. TypeOK' /\ AbortInv'
    BY TypeInductive, AbortStep
  <2>2. EndInv' /\ NoneLostInv' /\ ChainInv' /\ AddedInv'
    BY EndStep, NoneLostStep, ChainStep, AddedStep DEF CompleteInv
  <2>3. SuccessIsComplete'
    BY <2>1, <2>2, SuccessStep
  <2> QED
    BY <2>1, <2>2, <2>3 DEF CompleteInv
<1> QED
  BY <1>1, <1>2, PTL DEF Spec

\* A run that exits with 0 has done everything: while it goes on, every key has a row, is
\* waited for, or comes after a local item that is waited for.
THEOREM SuccessDoesAll == Spec => []SuccessIsComplete
<1>1. CompleteInv => SuccessIsComplete
  BY DEF CompleteInv
<1> QED
  BY <1>1, Completes, PTL

-----------------------------------------------------------------------------
(* The progress page.                                                        *)

\* No row is repeated when every write succeeds, and then counting rows is counting keys.
OneRowEach(rows) == \A i, j \in 1..Len(rows) : rows[i].key = rows[j].key => i = j

CountsInv == OneRowEach(runRows) /\ OneRowEach(results.rows)

\* What is queued or runs is waited for, or has been: the pools are empty before
\* future_map is cleared.
HeldInv ==
  /\ Queued(Keys) \cup Active(Keys) \subseteq futureMap
  /\ pc = "joinLocal" => Active(CloudKeys) = {}

\* The directories are those of the items that run or have run.
DirsInv ==
  /\ \A k \in CloudKeys : fut[k] # "preparing" /\ (fut[k] = "running" => k \in dirs)
  /\ starts = 0 => dirs = {} /\ pc = "idle" /\ \A k \in Keys : fut[k] = "idle"
  /\ starts = 1 => \A k \in dirs \cap CloudKeys : fut[k] \in {"running", "ok", "err"}

PageInv == CountsInv /\ HeldInv /\ DirsInv

\* The rows of one suite row, in the file.
RowIndices(rows, r) == {i \in 1..Len(rows) : rows[i].key[2] = r}

LEMMA RowIndicesFinite ==
  ASSUME NEW rows \in Seq(Entry), NEW r
  PROVE  IsFiniteSet(RowIndices(rows, r)) /\ Cardinality(RowIndices(rows, r)) \in Nat
<1>1. Len(rows) \in Nat /\ RowIndices(rows, r) \subseteq 1..Len(rows)
  BY DEF RowIndices
<1>2. IsFiniteSet(1..Len(rows))
  BY <1>1, FS_Interval
<1> QED
  BY <1>1, <1>2, FS_Subset, FS_CardinalityType

\* A row of the suite all of whose tasks are recorded has enough rows.
LEMMA CountAll ==
  ASSUME NEW rows \in Seq(Entry), NEW r, \A t \in Tasks : <<t, r>> \in KeysOf(rows)
  PROVE  Cardinality(RowIndices(rows, r)) >= Cardinality(Tasks)
<1> DEFINE I == RowIndices(rows, r)
           f == [i \in I |-> rows[i].key[1]]
<1>1. \A i \in I : rows[i].key[1] \in Tasks
  <2>1. \A i \in 1..Len(rows) : rows[i] \in Entry
    OBVIOUS
  <2>2. \A e \in Entry : e.key[1] \in Tasks
    BY DEF Entry, Keys
  <2> QED
    BY <2>1, <2>2 DEF RowIndices
<1>2. ASSUME NEW t \in Tasks PROVE \E i \in I : f[i] = t
  <2>1. PICK i \in 1..Len(rows) : rows[i].key = <<t, r>>
    BY DEF KeysOf
  <2> QED
    BY <2>1 DEF RowIndices
<1>3. f \in Surjection(I, Tasks)
  BY <1>1, <1>2 DEF Surjection
<1>4. IsFiniteSet(I) /\ Cardinality(I) \in Nat
  BY RowIndicesFinite
<1> HIDE DEF I, f
<1>5. Cardinality(Tasks) <= Cardinality(I) /\ Cardinality(Tasks) \in Nat
  BY <1>3, <1>4, FS_Surjection, FS_CardinalityType
<1> QED
  BY <1>4, <1>5 DEF I

\* One whose rows are not repeated, and that lacks a task, has too few.
LEMMA CountMissing ==
  ASSUME NEW rows \in Seq(Entry), OneRowEach(rows), NEW r, NEW t \in Tasks,
         <<t, r>> \notin KeysOf(rows)
  PROVE  Cardinality(RowIndices(rows, r)) < Cardinality(Tasks)
<1> DEFINE I == RowIndices(rows, r)
           f == [i \in I |-> rows[i].key[1]]
<1>1. \A i \in I : rows[i].key = <<rows[i].key[1], r>> /\ rows[i].key[1] \in Tasks
  <2>1. \A i \in 1..Len(rows) : rows[i] \in Entry
    OBVIOUS
  <2>2. \A e \in Entry : e.key = <<e.key[1], e.key[2]>> /\ e.key[1] \in Tasks
    BY DEF Entry, Keys
  <2> QED
    BY <2>1, <2>2 DEF RowIndices
<1>2. f \in [I -> Tasks \ {t}]
  BY <1>1 DEF KeysOf, RowIndices
<1>3. ASSUME NEW i \in I, NEW j \in I, f[i] = f[j] PROVE i = j
  <2>1. rows[i].key = rows[j].key
    BY <1>1, <1>3
  <2>2. i \in 1..Len(rows) /\ j \in 1..Len(rows)
    BY DEF RowIndices
  <2> QED
    BY <2>1, <2>2 DEF OneRowEach
<1>4. /\ IsFiniteSet(Tasks \ {t}) /\ Cardinality(Tasks \ {t}) = Cardinality(Tasks) - 1
      /\ Cardinality(Tasks) \in Nat
  BY FiniteAssumption, FS_RemoveElement, FS_CardinalityType
<1>5. IsFiniteSet(I) /\ Cardinality(I) \in Nat
  BY RowIndicesFinite
<1> HIDE DEF I, f
<1>6. ~(Cardinality(Tasks \ {t}) < Cardinality(I))
  BY <1>2, <1>3, <1>4, <1>5, FS_PigeonHole
<1>7. Cardinality(I) < Cardinality(Tasks)
  BY <1>4, <1>5, <1>6
<1> QED
  BY <1>7 DEF I

\* The rows of run_rows and of the file come from each other, but for the row of a popped
\* future, when every write succeeds.
LEMMA RowsFrom ==
  ASSUME TypeOK, [Next]_vars, "write" \notin Faults, \A k \in Keys : ~Pop(k)
  PROVE  /\ runRows' \in {runRows, results.rows, <<>>}
         /\ results'.rows \in {results.rows, runRows}
<1> USE DEF mainVars, diskVars
<1>1. CASE Wait \/ BatchDone \/ LoopDone \/ BeginWrite
  BY <1>1 DEF Wait, BatchDone, LoopDone, BeginWrite, TypeOK
<1>2. CASE WriteResult \/ WriteFailure \/ WriteFinal
  BY <1>2 DEF WriteResult, WriteFailure, WriteFinal, StoreResults
<1>3. CASE StopCloud \/ StopLocal \/ Abandon \/ StopBackends \/ Drained \/ Interrupt
  BY <1>3 DEF StopCloud, StopLocal, Abandon, StopBackends, Drained, Interrupt
<1>4. CASE WriteRaises
  BY <1>4 DEF WriteRaises
<1>5. ASSUME NEW resume \in BOOLEAN, StartRun(resume)
      PROVE  /\ runRows' \in {runRows, results.rows, <<>>}
             /\ results'.rows \in {results.rows, runRows}
  BY <1>5 DEF StartRun, Loaded
<1>6. CASE StartFails \/ Crash
  BY <1>6 DEF StartFails, Crash
<1>7. ASSUME NEW k \in Keys, Worker(k)
      PROVE  /\ runRows' \in {runRows, results.rows, <<>>}
             /\ results'.rows \in {results.rows, runRows}
  BY <1>7, WorkerFrame
<1>8. CASE UNCHANGED vars
  BY <1>8 DEF vars
<1> QED
  BY <1>1, <1>2, <1>3, <1>4, <1>5, <1>6, <1>7, <1>8 DEF Next, Main

LEMMA CountsStep ==
  ASSUME "write" \notin Faults, TypeOK, PlaceInv, CountsInv, [Next]_vars
  PROVE  CountsInv'
<1>1. CASE \A k \in Keys : ~Pop(k)
  <2>1. OneRowEach(<<>>)
    BY DEF OneRowEach
  <2>2. OneRowEach(runRows') /\ OneRowEach(results'.rows)
    BY <1>1, <2>1, RowsFrom DEF CountsInv
  <2> QED
    BY <2>2 DEF CountsInv, OneRowEach
<1>2. ASSUME NEW k \in Keys, Pop(k) PROVE CountsInv'
  <2>1. PICK kind \in {"result", "failure"} : runRows' = Append(runRows, [key |-> k, kind |-> kind])
    BY <1>2 DEF Pop
  <2>2. results' = results /\ k \in futureMap
    BY <1>2 DEF Pop, diskVars, TypeOK
  <2>3. k \notin KeysOf(runRows)
    BY <2>2 DEF PlaceInv
  <2>4. /\ Len(runRows') = Len(runRows) + 1 /\ Len(runRows) \in Nat
        /\ \A i \in 1..Len(runRows) : runRows'[i] = runRows[i] /\ runRows[i].key # k
        /\ runRows'[Len(runRows) + 1].key = k
    BY <2>1, <2>3 DEF TypeOK, KeysOf
  <2>5. ASSUME NEW i \in 1..Len(runRows'), NEW j \in 1..Len(runRows'),
               runRows'[i].key = runRows'[j].key
        PROVE  i = j
    <3>1. i \in 1..Len(runRows) \/ i = Len(runRows) + 1
      BY <2>4
    <3>2. j \in 1..Len(runRows) \/ j = Len(runRows) + 1
      BY <2>4
    <3> QED
      BY <2>4, <2>5, <3>1, <3>2 DEF CountsInv, OneRowEach
  <2> QED
    BY <2>2, <2>5 DEF CountsInv, OneRowEach
<1> QED
  BY <1>1, <1>2

LEMMA HeldStep ==
  TypeOK /\ AbortInv /\ HeldInv /\ [Next]_vars => HeldInv'
<1> SUFFICES ASSUME TypeOK, AbortInv, HeldInv, [Next]_vars PROVE HeldInv'
  OBVIOUS
<1>0. \A k \in Keys : fut[k] \in {"queued", "preparing", "running"} => k \in futureMap
  BY DEF HeldInv, Queued, Active
<1>k. /\ CloudKeys \subseteq Keys /\ LocalKeys \subseteq Keys
      /\ Keys = CloudKeys \cup LocalKeys
  BY RowsAssumption DEF CloudKeys, LocalKeys, Keys
<1>00. ASSUME \A k \in Keys : fut'[k] \in {"queued", "preparing", "running"} => k \in futureMap',
              pc' = "joinLocal" => Active(CloudKeys)' = {}
       PROVE  HeldInv'
  BY <1>00 DEF HeldInv, Queued, Active
<1>1. CASE Bookkeeping
  <2>1. UNCHANGED <<fut, futureMap>> /\ (pc' = "joinLocal" => pc = "joinLocal")
    <3>1. pc' = "joinLocal" => pc = "joinLocal"
      BY <1>1 DEF Bookkeeping, Wait, BatchDone, LoopDone, BeginWrite, Filling, WriteFailure,
                  WriteFinal, WriteRaises, StopBackends, Drained, Interrupt, vars
    <3> QED
      BY <1>1, <3>1, BookkeepingFrame
  <2> QED
    BY <1>0, <1>00, <2>1 DEF HeldInv, Active
<1>2. CASE StopCloud \/ StopLocal
  <2>1. /\ futureMap' = futureMap
        /\ \A k \in Keys : fut'[k] \in {"queued", "preparing", "running"} => fut'[k] = fut[k]
        /\ pc' = "joinLocal" => \A k \in CloudKeys : fut[k] \notin {"preparing", "running"}
    BY <1>2 DEF StopCloud, StopLocal, Cancel, Active
  <2>2. \A k \in Keys : fut'[k] \in {"queued", "preparing", "running"} => k \in futureMap'
    BY <1>0, <2>1
  <2>3. pc' = "joinLocal" => Active(CloudKeys)' = {}
    BY <1>k, <2>1 DEF Active
  <2> QED
    BY <1>00, <2>2, <2>3
<1>3. CASE Abandon
  <2>1. fut' = fut /\ pc' = "finally"
    BY <1>3 DEF Abandon
  <2>2. \A k \in Keys : fut[k] \notin {"queued", "preparing", "running"}
    BY <1>3, <1>k DEF Abandon, AbortInv, HeldInv, Queued, Active
  <2> QED
    BY <1>00, <2>1, <2>2
<1>4. CASE WriteResult
  <2>1. /\ futureMap' = futureMap \cup Follower /\ pc' = "batch"
        /\ \A k \in Keys : fut'[k] = IF k \in Follower THEN "queued" ELSE fut[k]
    BY <1>4, ResultFrame
  <2> HIDE DEF Follower
  <2> QED
    BY <1>0, <1>00, <2>1
<1>5. ASSUME NEW k \in Keys, Pop(k) PROVE HeldInv'
  <2>1. /\ futureMap' = futureMap \ {k} /\ fut' = fut /\ fut[k] \in {"ok", "err"}
        /\ pc' # "joinLocal"
    BY <1>5, PopFrame
  <2> QED
    BY <1>0, <1>00, <2>1
<1>6. ASSUME NEW resume \in BOOLEAN, StartRun(resume) PROVE HeldInv'
  <2>1. (\A k \in Keys : fut'[k] = IF k \in futureMap' THEN "queued" ELSE "idle") /\ pc' = "loop"
    BY <1>6, StartFrame
  <2> QED
    BY <1>00, <2>1
<1>7. CASE StartFails \/ Crash
  BY <1>00, <1>7, ResetFrame
<1>8. ASSUME NEW k \in Keys, Worker(k) PROVE HeldInv'
  <2>1. UNCHANGED <<pc, futureMap>>
    BY <1>8, WorkerFrame
  <2>2. \A j \in Keys : fut'[j] \in {"queued", "preparing", "running"} =>
          fut[j] \in {"queued", "preparing", "running"}
    BY <1>8, WorkerAdvances
  <2>3. \A j \in Keys : fut'[j] \in {"queued", "preparing", "running"} => j \in futureMap'
    BY <1>0, <2>1, <2>2
  <2>4. pc' = "joinLocal" => Active(CloudKeys)' = {}
    <3>1. pc = "joinLocal" => \A j \in CloudKeys : fut[j] \notin {"queued", "preparing", "running"}
      BY <1>k DEF AbortInv, HeldInv, Queued, Active
    <3> QED
      BY <1>k, <2>1, <2>2, <3>1 DEF Active
  <2> QED
    BY <1>00, <2>3, <2>4
<1> QED
  BY <1>1, <1>2, <1>3, <1>4, <1>5, <1>6, <1>7, <1>8 DEF Next, Main, Bookkeeping

\* What the main thread does to the future of a cloud item, once the run is started.
LEMMA CloudFutures ==
  ASSUME TypeOK, [Next]_vars, ~Crash, ~StartFails, \A resume \in BOOLEAN : ~StartRun(resume),
         \A k \in Keys : ~Worker(k)
  PROVE  /\ \A k \in CloudKeys : fut'[k] = fut[k] \/ (fut[k] = "queued" /\ fut'[k] = "cancelled")
         /\ starts' = starts
<1> DEFINE Goal == /\ \A k \in CloudKeys :
                        fut'[k] = fut[k] \/ (fut[k] = "queued" /\ fut'[k] = "cancelled")
                   /\ starts' = starts
<1>k. CloudKeys \subseteq Keys /\ CloudKeys \cap LocalKeys = {}
  BY DEF CloudKeys
<1>1. CASE Wait \/ BatchDone \/ LoopDone \/ BeginWrite
  BY <1>1 DEF Wait, BatchDone, LoopDone, BeginWrite, diskVars
<1>2. CASE WriteFailure \/ WriteFinal \/ WriteRaises
  BY <1>2 DEF WriteFailure, WriteFinal, WriteRaises
<1>3. CASE StopCloud \/ StopLocal
  <2>1. \A k \in Keys : fut'[k] = fut[k] \/ (fut[k] = "queued" /\ fut'[k] = "cancelled")
    BY <1>3 DEF StopCloud, StopLocal, Cancel, Queued, CloudKeys
  <2> QED
    BY <1>3, <1>k, <2>1 DEF StopCloud, StopLocal, diskVars
<1>4. CASE Abandon \/ StopBackends \/ Drained \/ Interrupt
  BY <1>4 DEF Abandon, StopBackends, Drained, Interrupt, diskVars
<1>5. CASE WriteResult
  <2>1. Follower \subseteq LocalKeys
    BY NextLocalPicks DEF Follower, TypeOK
  <2>2. \A k \in Keys : fut'[k] = IF k \in Follower THEN "queued" ELSE fut[k]
    BY <1>5, ResultFrame
  <2>3. starts' = starts
    BY <1>5 DEF WriteResult
  <2> HIDE DEF Follower
  <2> QED
    BY <1>k, <2>1, <2>2, <2>3
<1>6. ASSUME NEW k \in Keys, Pop(k) PROVE Goal
  BY <1>6 DEF Pop, diskVars
<1>7. CASE UNCHANGED vars
  BY <1>7 DEF vars, diskVars
<1> QED
  BY <1>1, <1>2, <1>3, <1>4, <1>5, <1>6, <1>7 DEF Next, Main

\* Before its first start a suite has nothing to do but to be started.
LEMMA FirstStart ==
  ASSUME TypeOK, [Next]_vars, pc = "idle", \A k \in Keys : fut[k] = "idle", starts = 0,
         starts' = 0
  PROVE  pc' = "idle" /\ \A k \in Keys : fut'[k] = "idle"
<1>1. ~(Wait \/ BatchDone \/ LoopDone \/ BeginWrite \/ WriteResult \/ WriteFailure \/ WriteFinal)
  BY DEF Wait, BatchDone, LoopDone, BeginWrite, WriteResult, WriteFailure, WriteFinal, Filling
<1>2. ~(StopCloud \/ StopLocal \/ Abandon \/ StopBackends \/ Drained \/ \E k \in Keys : Pop(k))
  BY DEF StopCloud, StopLocal, Abandon, StopBackends, Drained, Pop
<1>3. ~(WriteRaises \/ Interrupt \/ Crash)
  BY DEF WriteRaises, Interrupt, Crash, TryBlock
<1>4. ~((\E resume \in BOOLEAN : StartRun(resume)) \/ StartFails)
  BY DEF StartRun, StartFails
<1>5. \A k \in Keys : ~Worker(k)
  BY WorkerAdvances
<1>6. UNCHANGED vars
  BY <1>1, <1>2, <1>3, <1>4, <1>5 DEF Next, Main
<1> QED
  BY <1>6 DEF vars

LEMMA DirsStep ==
  ASSUME "crash" \notin Faults, TypeOK, TypeOK', DirsInv, [ProgressNext]_progressVars
  PROVE  DirsInv'
<1>1. [Next]_vars /\ dirs' \subseteq dirs \cup {k \in Keys : fut'[k] = "running"}
  BY DEF ProgressNext, Directories, progressVars
<1>2. CASE UNCHANGED progressVars
  BY <1>2 DEF progressVars, vars, diskVars, DirsInv
<1>3. CASE Directories /\ Next
  <2>1. \A k \in CloudKeys : fut'[k] = "running" => k \in dirs'
    BY <1>3 DEF Directories, CloudKeys
  <2>2. CASE (\E resume \in BOOLEAN : StartRun(resume)) \/ StartFails
    <3>1. starts' = starts + 1 /\ \A k \in Keys : fut'[k] \in {"idle", "queued"}
      BY <2>2 DEF StartRun, StartFails
    <3>2. dirs' = dirs
      BY <1>1, <1>3, <3>1 DEF Directories
    <3>3. starts \in Nat
      BY CountAssumption DEF TypeOK
    <3>4. starts' # 0 /\ (starts' = 1 => dirs' = {})
      BY <3>1, <3>2, <3>3 DEF DirsInv
    <3>5. \A k \in CloudKeys : fut'[k] # "preparing"
      BY <3>1 DEF CloudKeys
    <3> QED
      BY <2>1, <3>4, <3>5 DEF DirsInv
  <2>3. ASSUME NEW k \in Keys, Worker(k) PROVE DirsInv'
    <3>1. starts' = starts
      BY <2>3, WorkerFrame DEF diskVars
    <3>2. \A j \in Keys \ {k} : fut'[j] = fut[j]
      BY <2>3, WorkerAdvances
    <3>3. k \in CloudKeys => fut'[k] \in {"running", "ok", "err"}
      BY <2>3 DEF TypeOK, Worker, CloudStart, LocalStart, Prepare, PrepareFails, Finish, Queued,
                  CloudKeys
    <3>4. \A j \in CloudKeys : fut'[j] # "preparing"
      BY <3>2, <3>3 DEF DirsInv, CloudKeys
    <3>5. starts # 0
      BY <2>3, WorkerAdvances DEF DirsInv
    <3>6. \A j \in dirs' \cap CloudKeys : j \in dirs \/ fut'[j] = "running"
      BY <1>1
    <3>7. starts = 1 => \A j \in dirs' \cap CloudKeys : fut'[j] \in {"running", "ok", "err"}
      BY <3>2, <3>3, <3>6 DEF DirsInv, CloudKeys
    <3> QED
      BY <2>1, <3>1, <3>4, <3>5, <3>7 DEF DirsInv
  <2>4. CASE /\ ~StartFails /\ \A resume \in BOOLEAN : ~StartRun(resume)
             /\ \A k \in Keys : ~Worker(k)
    <3>1. ~Crash
      BY DEF Crash
    <3>2. /\ \A k \in CloudKeys : fut'[k] = fut[k] \/ (fut[k] = "queued" /\ fut'[k] = "cancelled")
          /\ starts' = starts
      BY <1>1, <2>4, <3>1, CloudFutures
    <3>3. \A k \in CloudKeys : fut'[k] # "preparing"
      BY <3>2 DEF DirsInv
    <3>4. \A k \in dirs' \cap CloudKeys : k \in dirs \/ fut'[k] = "running"
      BY <1>1
    <3>5. starts' = 1 => \A k \in dirs' \cap CloudKeys : fut'[k] \in {"running", "ok", "err"}
      BY <3>2, <3>4 DEF DirsInv
    <3>6. ASSUME starts' = 0 PROVE dirs' = {} /\ pc' = "idle" /\ \A k \in Keys : fut'[k] = "idle"
      <4>1. starts = 0 /\ dirs = {} /\ pc = "idle" /\ \A k \in Keys : fut[k] = "idle"
        BY <3>2, <3>6 DEF DirsInv
      <4>2. pc' = "idle" /\ \A k \in Keys : fut'[k] = "idle"
        BY <1>1, <3>6, <4>1, FirstStart
      <4> QED
        BY <1>1, <4>1, <4>2
    <3> QED
      BY <2>1, <3>3, <3>5, <3>6 DEF DirsInv
  <2> QED
    BY <2>2, <2>3, <2>4
<1> QED
  BY <1>2, <1>3 DEF ProgressNext

\* The local items without a row are the one that runs and those that come after it.
LEMMA MissingLocal ==
  ASSUME TypeOK, PlaceInv, SeriesInv, NoneLostInv, DistinctNames, NEW k \in Active(LocalKeys)
  PROVE  /\ k \in LocalKeys /\ k \notin KeysOf(runRows)
         /\ \A j \in LocalKeys \ KeysOf(runRows) : j = k \/ LocalBefore(k, j)
<1>1. k \in LocalKeys /\ k \in futureMap /\ \A j \in LocalKeys : j \in futureMap => j = k
  BY OneLocal DEF Active
<1>2. \A j \in todoLocal : LocalBefore(k, j)
  BY <1>1 DEF SeriesInv
<1>3. Keys \subseteq KeysOf(runRows) \cup futureMap \cup todoLocal
  BY <1>1, RowsComplete DEF NoneLostInv, TypeOK
<1>4. LocalKeys \subseteq Keys
  BY RowsAssumption DEF LocalKeys, Keys
<1> QED
  BY <1>1, <1>2, <1>3, <1>4 DEF PlaceInv

\* The page shows the local item that is prepared or runs, and no other.
\* The page counts rows by name.
LEMMA CountedByName ==
  ASSUME UpToDate, DistinctNames, runRows \in Seq(Entry), NEW r \in Rows
  PROVE  RowsDone(r) = Cardinality(RowIndices(runRows, r))
<1>1. results.rows = runRows
  BY DEF UpToDate
<1>2. \A i \in 1..Len(runRows) : runRows[i].key[2] \in Rows
  <2>1. \A i \in 1..Len(runRows) : runRows[i] \in Entry
    OBVIOUS
  <2>2. \A e \in Entry : e.key[2] \in Rows
    BY DEF Entry, Keys
  <2> QED
    BY <2>1, <2>2
<1>3. \A i \in 1..Len(runRows) : SameName(runRows[i].key[2], r) <=> runRows[i].key[2] = r
  BY <1>2 DEF DistinctNames, SameName
<1>4. {i \in 1..Len(runRows) : SameName(runRows[i].key[2], r)} = RowIndices(runRows, r)
  BY <1>3 DEF RowIndices
<1> QED
  BY <1>1, <1>4 DEF RowsDone

LEMMA LocalShown ==
  ASSUME TypeOK, PlaceInv, SeriesInv, NoneLostInv, CountsInv, UpToDate,
         DistinctNames, NEW k \in Active(LocalKeys)
  PROVE  ShownActive = {k}
<1>0. results.rows = runRows /\ runRows \in Seq(Entry) /\ OneRowEach(runRows)
  BY DEF UpToDate, TypeOK, CountsInv
<1>1. /\ k \in LocalKeys /\ k \notin KeysOf(runRows)
      /\ \A j \in LocalKeys \ KeysOf(runRows) : j = k \/ LocalBefore(k, j)
  BY MissingLocal
<1>2. /\ k = <<k[1], k[2]>> /\ k[1] \in Tasks /\ k[2] \in LocalRows
      /\ \A t \in Tasks, q \in LocalRows : <<t, q>> \in LocalKeys
  BY <1>1 DEF LocalKeys
<1>3. /\ \A t \in Tasks : TaskPos[t] \in Nat
      /\ \A s, t \in Tasks : TaskPos[s] = TaskPos[t] => s = t
      /\ \A q \in LocalRows : RowPos[q] \in Nat
      /\ \A q, r \in LocalRows : RowPos[q] = RowPos[r] => q = r
  BY OrderAssumption, RowsAssumption
<1>4. \A q \in LocalRows :
        RowsDone(q) = Cardinality(RowIndices(runRows, q)) /\ RowsDone(q) \in Nat
  BY <1>0, CountedByName, RowIndicesFinite, RowsAssumption
<1>5. Total \in Nat
  BY FiniteAssumption, FS_CardinalityType DEF Total
<1>6. RowsDone(k[2]) < Total
  BY <1>0, <1>1, <1>2, <1>4, CountMissing DEF Total
<1>7. ASSUME NEW q \in LocalRows, RowPos[q] < RowPos[k[2]] PROVE RowsDone(q) >= Total
  <2>1. ASSUME NEW t \in Tasks PROVE <<t, q>> \in KeysOf(runRows)
    <3>1. <<t, q>> # k /\ ~LocalBefore(k, <<t, q>>)
      BY <1>2, <1>3, <1>7 DEF LocalBefore
    <3> QED
      BY <1>1, <1>2, <3>1
  <2> QED
    BY <1>0, <1>4, <2>1, CountAll DEF Total
<1>8. LocalActiveRow = {k[2]}
  <2>1. k[2] \in LocalActiveRow
    BY <1>2, <1>6, <1>7 DEF LocalActiveRow
  <2>2. ASSUME NEW r \in LocalActiveRow PROVE r = k[2]
    <3>1. r \in LocalRows /\ RowsDone(r) < Total
          /\ \A q \in LocalRows : RowPos[q] < RowPos[r] => RowsDone(q) >= Total
      BY DEF LocalActiveRow
    <3>2. ~(RowPos[r] < RowPos[k[2]])
      BY <1>4, <1>5, <1>7, <3>1
    <3>3. ~(RowPos[k[2]] < RowPos[r])
      BY <1>2, <1>4, <1>5, <1>6, <3>1
    <3> QED
      BY <1>2, <1>3, <3>1, <3>2, <3>3
  <2> QED
    BY <2>1, <2>2
<1>9. NextTask(k[2]) = {k[1]}
  <2> DEFINE missing == {t \in Tasks : <<t, k[2]>> \notin CompletedKeys(results.rows)}
  <2>0. CompletedKeys(results.rows) = KeysOf(runRows)
    BY <1>0, RowsComplete
  <2>1. k[1] \in missing
    BY <1>1, <1>2, <2>0
  <2>2. ASSUME NEW t \in missing PROVE t = k[1] \/ TaskPos[k[1]] < TaskPos[t]
    <3>1. <<t, k[2]>> \in LocalKeys \ KeysOf(runRows)
      BY <1>2, <2>0
    <3>2. <<t, k[2]>> = k \/ LocalBefore(k, <<t, k[2]>>)
      BY <1>1, <3>1
    <3> QED
      BY <1>2, <1>3, <3>2 DEF LocalBefore
  <2>3. \A t \in missing : TaskPos[t] \in Nat
    BY <1>3
  <2>4. NextTask(k[2]) = {t \in missing : \A s \in missing : TaskPos[t] <= TaskPos[s]}
    BY DEF NextTask
  <2> HIDE DEF missing
  <2>5. \A s \in missing : TaskPos[k[1]] <= TaskPos[s]
    BY <2>1, <2>2, <2>3
  <2>6. \A t \in missing : TaskPos[t] <= TaskPos[k[1]] => t = k[1]
    BY <2>1, <2>2, <2>3
  <2> QED
    BY <2>1, <2>4, <2>5, <2>6
<1>10. \A j \in LocalKeys : j[1] = k[1] /\ j[2] = k[2] => j = k
  BY <1>1 DEF LocalKeys
<1> QED
  BY <1>1, <1>8, <1>9, <1>10 DEF ShownActive

LEMMA PageShows ==
  ASSUME TypeOK, PlaceInv, SeriesInv, NoneLostInv, PageInv
  PROVE  ProgressIsTrue
<1> SUFFICES ASSUME UpToDate, DistinctNames
             PROVE  /\ \A k \in Active(LocalKeys) : ShownActive = {k}
                    /\ \A k \in futureMap \cup todoLocal : k[2] \notin ShownDone
                    /\ Active(CloudKeys) \subseteq CloudActive
                    /\ starts = 1 => \A k \in CloudActive : fut[k] \in {"running", "ok", "err"}
  BY DEF ProgressIsTrue
<1>0. results.rows = runRows /\ runRows \in Seq(Entry) /\ OneRowEach(runRows)
  BY DEF UpToDate, TypeOK, PageInv, CountsInv
<1>1. \A k \in Active(LocalKeys) : ShownActive = {k}
  BY LocalShown DEF PageInv
<1>2. ASSUME NEW k \in futureMap \cup todoLocal PROVE k[2] \notin ShownDone
  <2>1. k \in Keys /\ k \notin KeysOf(runRows)
    BY RowsAssumption DEF TypeOK, PlaceInv, LocalKeys, Keys
  <2>2. k = <<k[1], k[2]>> /\ k[1] \in Tasks
    BY <2>1 DEF Keys
  <2>3. Cardinality(RowIndices(runRows, k[2])) < Cardinality(Tasks)
    BY <1>0, <2>1, <2>2, CountMissing
  <2>4. Cardinality(RowIndices(runRows, k[2])) \in Nat
    BY <1>0, RowIndicesFinite
  <2>5. RowsDone(k[2]) = Cardinality(RowIndices(runRows, k[2]))
    BY <1>0, <2>1, CountedByName DEF Keys
  <2>6. RowsDone(k[2]) # Total
    BY <2>3, <2>4, <2>5 DEF Total
  <2> QED
    BY <2>6 DEF ShownDone
<1>3. Active(CloudKeys) \subseteq CloudActive
  <2>1. \A k \in Active(CloudKeys) : k \in CloudKeys /\ k \in dirs
    BY DEF Active, PageInv, DirsInv
  <2>2. \A k \in Active(CloudKeys) : k \in futureMap
    BY DEF Active, PageInv, HeldInv, CloudKeys
  <2>3. CompletedKeys(results.rows) = KeysOf(runRows)
    BY <1>0, RowsComplete
  <2> QED
    BY <2>1, <2>2, <2>3 DEF CloudActive, PlaceInv
<1>4. starts = 1 => \A k \in CloudActive : fut[k] \in {"running", "ok", "err"}
  BY DEF PageInv, DirsInv, CloudActive
<1> QED
  BY <1>1, <1>2, <1>3, <1>4

\* As long as results.json can be written, the process is not killed and the rows have
\* names of their own, the progress page tells what run_suite does from the rows and the
\* directories alone.  A failed write makes it count a row twice, and a killed run leaves
\* directories in which nothing goes on.
THEOREM PageIsTrue ==
  ASSUME Faults \cap {"write", "crash"} = {}
  PROVE  ProgressSpec => []ProgressIsTrue
<1> DEFINE Known == TypeOK /\ PoolInv /\ LedgerInv /\ CompleteInv
<1>1. ProgressSpec => Spec
  <2>1. ProgressInit => Init
    BY DEF ProgressInit
  <2>2. [ProgressNext]_progressVars => [Next]_vars
    BY DEF ProgressNext, progressVars
  <2> QED
    BY <2>1, <2>2, PTL DEF ProgressSpec, Spec
<1>2. ProgressInit => PageInv
  <2>1. CloudKeys \subseteq Keys
    BY DEF CloudKeys
  <2> QED
    BY <2>1 DEF ProgressInit, Init, PageInv, CountsInv, OneRowEach, HeldInv, DirsInv, Queued, Active
<1>3. Known /\ Known' /\ PageInv /\ [ProgressNext]_progressVars => PageInv'
  <2> SUFFICES ASSUME Known, Known', PageInv, [ProgressNext]_progressVars PROVE PageInv'
    OBVIOUS
  <2>1. [Next]_vars
    BY DEF ProgressNext, progressVars
  <2>2. CountsInv'
    BY <2>1, CountsStep DEF PageInv, LedgerInv
  <2>3. HeldInv'
    BY <2>1, HeldStep DEF PageInv, PoolInv
  <2>4. DirsInv'
    BY DirsStep DEF PageInv
  <2> QED
    BY <2>2, <2>3, <2>4 DEF PageInv
<1>4. Known /\ PageInv => ProgressIsTrue
  BY PageShows DEF LedgerInv, PoolInv, CompleteInv
<1> HIDE DEF Known
<1>5. Spec => []Known
  <2>1. TypeOK /\ PoolInv /\ LedgerInv /\ CompleteInv => Known
    BY DEF Known
  <2> QED
    BY <2>1, Pools, LedgerInvariant, Completes, PTL
<1> QED
  BY <1>1, <1>2, <1>3, <1>4, <1>5, PTL DEF ProgressSpec
=============================================================================
