--------------------------- MODULE ProxyLog_proofs ---------------------------
(***************************************************************************)
(* The request log, for any number of requests and stages: what a stage's    *)
(* summary counts, what it misses, and when it may be blamed for the log.    *)
(*                                                                         *)
(* Runner and proxy share a file and no lock.  The invariant therefore ties  *)
(* three things together at every step: how far a request has come, which of *)
(* its records lie behind the runner's offset (or were lost), and the stage  *)
(* in which it was received and stamped.                                     *)
(***************************************************************************)
EXTENDS ProxyLog, FiniteSetTheorems, TLAPS

\* The positions behind the offset: what the runner will read.
Recent == {i \in 1..Len(log) : offset < i}

\* Requests are received before they are stamped, and no later than now; the ones
\* that were killed belong to earlier stages.
TimeInv ==
  /\ pc # "idle" => stage > 0
  /\ \A r \in Requests :
       /\ recv[r] <= stage /\ stamp[r] <= stage
       /\ req[r] \in {"stamped", "upstream", "finished"} => recv[r] <= stamp[r]
       /\ req[r] = "new" => recv[r] = 0
       /\ req[r] = "killed" /\ pc # "idle" => recv[r] < stage

\* While the rest of the record the offset fell into may be written, or be in the log.
Cut == {"agent", "drain", "read", "truncate"}

\* That record is of a request that was open when the trace began, or of a stray one;
\* its request has come that far, and the log is not emptied before the rest is there.
SplitInv ==
  /\ pc = "snapshot" => Open \subseteq leftover \cup stray
  /\ \A x \in split :
       /\ req[x.id] \notin {"new", "received"} /\ (x.state = "upstream" => req[x.id] # "stamped")
       /\ pc \in Cut \cup {"judge"} =>
            /\ x.id \in leftover \cup stray
            /\ x.id \in stray \/ recv[x.id] # stage
  /\ Pending # {} => pc \in Cut

\* What a record in the log says is still true of its request.
RecordInv ==
  \A i \in 1..Len(log) :
    /\ log[i].type = "request_start" =>
         req[log[i].id] \in {"upstream", "finished"} /\ log[i].began = stamp[log[i].id]
    /\ log[i].type = "finish" =>
         req[log[i].id] = "finished" /\ log[i].began = recv[log[i].id]
    /\ log[i].type = "fragment" => lost # {} \/ (split # {} /\ pc \in Cut)

Logged(type, r) ==
  r \in LostOf(type) \/ \E i \in Recent : log[i].type = type /\ log[i].id = r

\* The records of the requests the running stage's agent made are behind the offset,
\* or were lost.
StageInv ==
  /\ pc = "snapshot" => \A r \in Requests \ stray : recv[r] # stage
  /\ pc \in {"agent", "drain", "read"} =>
       /\ offset <= Len(log)
       /\ \A r \in Requests \ stray : recv[r] = stage =>
            /\ req[r] \in {"upstream", "finished"} => Logged("request_start", r)
            /\ req[r] = "finished" => Logged("finish", r)

\* If nothing was open when the trace began, nothing foreign is behind the offset.
LeftInv ==
  leftover = {} =>
    /\ pc \in {"snapshot", "agent", "drain", "read"} => \A r \in Open : recv[r] = stage
    /\ pc \in {"agent", "drain", "read"} =>
         \A i \in Recent : log[i].type # "fragment" => log[i].began = stage
    /\ pc \in {"truncate", "judge"} => summary.foreignStarts = 0 /\ summary.foreignFinishes = 0

TornInv ==
  torn => /\ pc \in {"agent", "drain", "read"} => \E i \in Recent : log[i].type = "fragment"
          /\ pc \in {"truncate", "judge"} => summary.errors # 0

\* What the summary counted stays true until it is judged.
CountInv ==
  pc \in {"truncate", "judge"} =>
    /\ \A r \in summary.starts : req[r] \in {"upstream", "finished"} /\ stamp[r] = stage
    /\ \A r \in summary.finishes :
         /\ req[r] = "finished" /\ recv[r] = stage
         /\ r \in stray \cup summary.starts \cup LostOf("request_start")
    /\ inFlight = {} => \A r \in Requests \ stray : recv[r] = stage =>
                          /\ r \in summary.starts \cup LostOf("request_start")
                          /\ r \in summary.finishes \cup LostOf("finish")
    /\ stray = {} /\ lost = {} /\ inFlight = {} /\ split = {} => summary.errors = 0

LogInv == TimeInv /\ SplitInv /\ RecordInv /\ StageInv /\ LeftInv /\ TornInv /\ CountInv

-----------------------------------------------------------------------------
(* What the runner reads.                                                    *)

\* The image of a finite set is finite.
LEMMA ImageFinite ==
  ASSUME NEW S, IsFiniteSet(S), NEW f, DOMAIN f = S
  PROVE  IsFiniteSet({f[x] : x \in S})
<1> DEFINE T == {f[x] : x \in S}
           g == [x \in S |-> f[x]]
<1>1. g \in Surjection(S, T)
  BY DEF Surjection
<1>2. IsFiniteSet(T)
  BY <1>1, FS_Surjection
<1> QED
  BY <1>2

\* The slice from the offset is the tail of the log.
LEMMA NewIsTail ==
  ASSUME log \in Seq(Records), offset \in Nat, offset <= Len(log)
  PROVE  /\ Len(log) \in Nat /\ Len(New) = Len(log) - offset
         /\ \A i \in 1..Len(New) : New[i] = log[offset + i] /\ offset + i \in Recent
         /\ \A i \in Recent : i - offset \in 1..Len(New) /\ New[i - offset] = log[i]
<1>1. Len(log) \in Nat
  OBVIOUS
<1>2. Len(New) = Len(log) - offset /\ \A i \in 1..Len(New) : New[i] = log[offset + i]
  BY <1>1 DEF New
<1>3. \A i \in 1..Len(New) : offset + i \in Recent
  BY <1>1, <1>2 DEF Recent
<1>4. \A i \in Recent : i - offset \in 1..Len(New) /\ offset + (i - offset) = i
  BY <1>1, <1>2 DEF Recent
<1> QED
  BY <1>1, <1>2, <1>3, <1>4

\* The records that are read are those behind the offset.
LEMMA ReadsRecent ==
  ASSUME log \in Seq(Records), offset \in Nat, offset <= Len(log)
  PROVE  \A x : x \in NewRecords <=> \E i \in Recent : x = log[i]
<1>1. ASSUME NEW x \in NewRecords PROVE \E i \in Recent : x = log[i]
  <2>1. PICK i \in 1..Len(New) : x = New[i]
    BY DEF NewRecords
  <2> QED
    BY <2>1, NewIsTail
<1>2. ASSUME NEW i \in Recent PROVE log[i] \in NewRecords
  BY NewIsTail DEF NewRecords
<1> QED
  BY <1>1, <1>2

\* What is counted is a finite set of requests.
LEMMA IdsFinite ==
  ASSUME log \in Seq(Records), offset \in Nat, offset <= Len(log), NEW type
  PROVE  /\ Ids(type) \subseteq Requests /\ IsFiniteSet(Ids(type)) /\ Cardinality(Ids(type)) \in Nat
         /\ Strangers(type) \in Nat
<1> DEFINE f == [i \in 1..Len(New) |-> New[i]]
           S == {x \in NewRecords : x.type = type /\ ~Foreign(x)}
           g == [x \in S |-> x.id]
<1>1. IsFiniteSet(1..Len(New))
  <2>1. Len(New) \in Nat
    BY NewIsTail
  <2> QED
    BY <2>1, FS_Interval
<1>2. IsFiniteSet(NewRecords)
  <2>1. IsFiniteSet({f[i] : i \in 1..Len(New)})
    BY <1>1, ImageFinite
  <2>2. {f[i] : i \in 1..Len(New)} = NewRecords
    BY DEF NewRecords
  <2> QED
    BY <2>1, <2>2
<1>3. IsFiniteSet(S)
  BY <1>2, FS_Subset
<1>4. IsFiniteSet(Ids(type))
  <2>1. IsFiniteSet({g[x] : x \in S})
    BY <1>3, ImageFinite
  <2>2. {g[x] : x \in S} = Ids(type)
    BY DEF Ids
  <2> QED
    BY <2>1, <2>2
<1>5. Ids(type) \subseteq Requests
  <2>1. \A i \in Recent : log[i] \in Records
    BY DEF Recent
  <2>2. \A x \in NewRecords : x \in Records
    BY <2>1, ReadsRecent
  <2>3. \A x \in Records : x.id \in Requests
    BY DEF Records
  <2> QED
    BY <2>2, <2>3 DEF Ids
<1>6. Strangers(type) \in Nat
  <2>1. IsFiniteSet({x \in NewRecords : x.type = type /\ Foreign(x)})
    BY <1>2, FS_Subset
  <2> QED
    BY <2>1, FS_CardinalityType DEF Strangers
<1> QED
  BY <1>4, <1>5, <1>6, FS_CardinalityType

\* The lines that are no record are counted: none means that there are none.
LEMMA FragmentsCount ==
  ASSUME log \in Seq(Records), offset \in Nat, offset <= Len(log), NEW partial \in BOOLEAN
  PROVE  /\ Fragments(partial) \in Nat
         /\ Fragments(partial) = 0 <=> ~partial /\ \A i \in Recent : log[i].type # "fragment"
<1> DEFINE F == {i \in 1..Len(New) : New[i].type = "fragment"}
<1>1. Len(New) \in Nat
  BY NewIsTail
<1>2. IsFiniteSet(F)
  <2>1. IsFiniteSet(1..Len(New)) /\ F \in SUBSET (1..Len(New))
    BY <1>1, FS_Interval
  <2> HIDE DEF F
  <2> QED
    BY <2>1, FS_Subset
<1>3. Cardinality(F) \in Nat /\ (Cardinality(F) = 0 <=> F = {})
  BY <1>2, FS_CardinalityType, FS_EmptySet
<1>4. F = {} <=> \A i \in Recent : log[i].type # "fragment"
  BY NewIsTail
<1> HIDE DEF F
<1>5. Fragments(partial) = Cardinality(F) + (IF partial THEN 1 ELSE 0)
  BY DEF F, Fragments
<1> QED
  BY <1>3, <1>4, <1>5

\* More finishes than starts need a finish without a start.
LEMMA ExcessCount ==
  ASSUME log \in Seq(Records), offset \in Nat, offset <= Len(log)
  PROVE  /\ Excess \in Nat
         /\ Ids("finish") \subseteq Ids("request_start") => Excess = 0
<1>1. Cardinality(Ids("finish")) \in Nat /\ Cardinality(Ids("request_start")) \in Nat
  BY IdsFinite
<1>2. Ids("finish") \subseteq Ids("request_start") =>
        Cardinality(Ids("finish")) <= Cardinality(Ids("request_start"))
  BY IdsFinite, FS_Subset
<1> QED
  BY <1>1, <1>2 DEF Excess

-----------------------------------------------------------------------------
(* What the steps do to the log.                                             *)

\* A record, or a fragment of one, goes to the end of the log.
LEMMA WriteGrows ==
  ASSUME TypeOK, NEW r \in Requests, NEW x \in Records, log' = Append(log, x)
  PROVE  /\ log' \in Seq(Records) /\ Len(log) \in Nat /\ Len(log') = Len(log) + 1
         /\ \A i \in 1..Len(log) : log'[i] = log[i]
         /\ log'[Len(log) + 1] = x
BY DEF TypeOK

\* The record that is written is one of the request's.
LEMMA RecordIsRecord ==
  ASSUME TypeOK, NEW r \in Requests
  PROVE  Record(r) \in Records /\ [type |-> "fragment", id |-> r, began |-> 0] \in Records
BY BoundAssumption DEF TypeOK, Record, Records

\* Only these steps of the proxy touch the log, and they do nothing else to the runner.
Writes(r) == Write(r) \/ WriteRest(r) \/ WriteFails(r)

LEMMA Writing ==
  ASSUME TypeOK, NEW r \in Requests, Writes(r)
  PROVE  /\ UNCHANGED <<pc, stage, offset, split, drained, summary, leftover, inFlight, recv, stamp, stray>>
         /\ \/ req[r] = "stamped" /\ req' = [req EXCEPT ![r] = "upstream"]
            \/ req[r] = "upstream" /\ req' = [req EXCEPT ![r] = "finished"]
         /\ lost \subseteq lost'
BY DEF Writes, Write, WriteRest, WriteFails, Advance, Writers, runner, faulty

LEMMA TypesStep == TypeOK /\ StageInv /\ [Next]_vars => TypeOK'
<1> SUFFICES ASSUME TypeOK, StageInv, [Next]_vars PROVE TypeOK'
  OBVIOUS
<1> USE BoundAssumption DEF TypeOK
<1>1. CASE UNCHANGED vars
  BY <1>1 DEF vars, runner, proxy
<1>2. CASE TraceStart
  BY <1>2 DEF TraceStart, proxy, NoSummary, Open
<1>3. CASE Snapshot \/ AgentEnds \/ Drain \/ Judge
  <2>1. torn' \in BOOLEAN /\ drained' \in BOOLEAN
    BY <1>3 DEF Snapshot, AgentEnds, Drain, Judge
  <2>2. /\ offset' \in Nat
        /\ split' \subseteq [id : Requests, state : {"stamped", "upstream"}]
    BY <1>3 DEF Snapshot, AgentEnds, Drain, Judge, Writers
  <2>3. UNCHANGED <<stage, summary, leftover, inFlight, proxy, log>>
    BY <1>3 DEF Snapshot, AgentEnds, Drain, Judge
  <2>4. pc' \in {"idle", "agent", "drain", "read", "end", "raised"}
    BY <1>3 DEF Snapshot, AgentEnds, Drain, Judge
  <2> QED
    BY <2>1, <2>2, <2>3, <2>4 DEF proxy
<1>4. CASE Read
  <2>1. offset <= Len(log) /\ log \in Seq(Records)
    BY <1>4 DEF Read, StageInv
  <2>2. PICK partial \in BOOLEAN :
          summary' = [starts |-> Ids("request_start"), finishes |-> Ids("finish"),
                      foreignStarts |-> Strangers("request_start"),
                      foreignFinishes |-> Strangers("finish"),
                      errors |-> Fragments(partial) + Excess]
    BY <1>4 DEF Read
  <2>3. Fragments(partial) + Excess \in Nat
    BY <2>1, FragmentsCount, ExcessCount
  <2>4. summary' \in [starts : SUBSET Requests, finishes : SUBSET Requests,
                      foreignStarts : Nat, foreignFinishes : Nat, errors : Nat]
    BY <2>1, <2>2, <2>3, IdsFinite
  <2> QED
    BY <1>4, <2>4 DEF Read, proxy, Open
<1>5. CASE Truncate
  BY <1>5 DEF Truncate, proxy
<1>6. CASE RestartProxy
  BY <1>6 DEF RestartProxy, runner, faulty, RequestState
<1>7. ASSUME NEW r \in Requests, Receive(r) PROVE TypeOK'
  BY <1>7 DEF Receive, runner, RequestState
<1>8. ASSUME NEW r \in Requests, Stamp(r) PROVE TypeOK'
  BY <1>8 DEF Stamp, runner, faulty, RequestState
<1>9. ASSUME NEW r \in Requests, Write(r) PROVE TypeOK'
  <2>1. log' \in Seq(Records)
    BY <1>9, RecordIsRecord, WriteGrows DEF Write
  <2>2. req' \in [Requests -> RequestState]
    BY <1>9 DEF Write, Advance, RequestState
  <2> QED
    BY <1>9, <2>1, <2>2 DEF Write, runner, faulty
<1>10. ASSUME NEW r \in Requests, WriteRest(r) \/ WriteFails(r) PROVE TypeOK'
  <2>1. [type |-> Record(r).type, id |-> r] \in [type : {"request_start", "finish"}, id : Requests]
    BY DEF Record
  <2>2. lost' \subseteq [type : {"request_start", "finish"}, id : Requests]
    BY <1>10, <2>1 DEF WriteRest, WriteFails
  <2>3. log' \in Seq(Records)
    <3>1. UNCHANGED log \/ log' = Append(log, [type |-> "fragment", id |-> r, began |-> 0])
      BY <1>10 DEF WriteRest, WriteFails, Tear
    <3> QED
      BY <3>1, RecordIsRecord, WriteGrows
  <2>4. torn' \in BOOLEAN
    BY <1>10 DEF WriteRest, WriteFails, Tear
  <2>5. req' \in [Requests -> RequestState]
    BY <1>10 DEF WriteRest, WriteFails, Advance, RequestState
  <2> QED
    BY <1>10, <2>2, <2>3, <2>4, <2>5 DEF WriteRest, WriteFails, runner
<1> QED
  BY <1>1, <1>2, <1>3, <1>4, <1>5, <1>6, <1>7, <1>8, <1>9, <1>10 DEF Next

LEMMA TypesInit == Init => TypeOK
<1> SUFFICES ASSUME Init PROVE TypeOK
  OBVIOUS
<1>1. drained \in BOOLEAN /\ torn \in BOOLEAN
  BY DEF Init
<1>2. summary \in [starts : SUBSET Requests, finishes : SUBSET Requests,
                    foreignStarts : Nat, foreignFinishes : Nat, errors : Nat]
  BY DEF Init, NoSummary
<1>3. log \in Seq(Records)
  BY DEF Init
<1>4. /\ req \in [Requests -> RequestState]
      /\ recv \in [Requests -> 0..MaxStages] /\ stamp \in [Requests -> 0..MaxStages]
  BY BoundAssumption DEF Init, RequestState
<1> QED
  BY <1>1, <1>2, <1>3, <1>4, BoundAssumption DEF Init, TypeOK

-----------------------------------------------------------------------------
(* How far the requests have come.                                           *)

LEMMA TimeStep == TypeOK /\ TimeInv /\ [Next]_vars => TimeInv'
<1> SUFFICES ASSUME TypeOK, TimeInv, [Next]_vars PROVE TimeInv'
  OBVIOUS
<1>0. /\ stage \in 0..MaxStages /\ MaxStages \in Nat
      /\ req \in [Requests -> RequestState]
      /\ recv \in [Requests -> 0..MaxStages] /\ stamp \in [Requests -> 0..MaxStages]
  BY BoundAssumption DEF TypeOK
<1> USE DEF TimeInv
<1>1. CASE UNCHANGED vars
  BY <1>1 DEF vars, runner, proxy
<1>2. CASE TraceStart
  BY <1>0, <1>2 DEF TraceStart, proxy
<1>3. CASE Snapshot \/ AgentEnds \/ Drain \/ Read \/ Truncate \/ Judge
  <2>1. UNCHANGED <<stage, req, recv, stamp>> /\ pc # "idle"
    BY <1>3 DEF Snapshot, AgentEnds, Drain, Read, Truncate, Judge, proxy
  <2> QED
    BY <2>1
<1>4. CASE RestartProxy
  BY <1>0, <1>4 DEF RestartProxy, runner
<1>5. ASSUME NEW r \in Requests, Receive(r) PROVE TimeInv'
  BY <1>0, <1>5 DEF Receive, runner
<1>6. ASSUME NEW r \in Requests, Stamp(r) PROVE TimeInv'
  BY <1>0, <1>6 DEF Stamp, runner
<1>7. ASSUME NEW r \in Requests, Writes(r) PROVE TimeInv'
  BY <1>0, <1>7, Writing
<1> QED
  BY <1>1, <1>2, <1>3, <1>4, <1>5, <1>6, <1>7 DEF Next, Writes

\* Only Snapshot makes a record a cut one, and no request goes back.
LEMMA SplitStep == TypeOK /\ TimeInv /\ StageInv /\ SplitInv /\ [Next]_vars => SplitInv'
<1> SUFFICES ASSUME TypeOK, TimeInv, StageInv, SplitInv, [Next]_vars PROVE SplitInv'
  OBVIOUS
<1>0. /\ req \in [Requests -> RequestState] /\ recv \in [Requests -> 0..MaxStages]
      /\ split \subseteq [id : Requests, state : {"stamped", "upstream"}]
      /\ \A x \in split : x.id \in Requests /\ x.state \in {"stamped", "upstream"}
  BY DEF TypeOK
<1> USE DEF SplitInv, Cut
<1>1. ASSUME UNCHANGED <<stage, split, req, recv, leftover, stray>>,
             pc' = pc \/ {pc, pc'} \subseteq Cut
      PROVE  SplitInv'
  BY <1>1 DEF Pending, Open
<1>2. CASE TraceStart
  BY <1>2 DEF TraceStart, proxy, Open, Pending
<1>3. CASE Snapshot
  <2>1. /\ pc = "snapshot" /\ pc' = "agent" /\ UNCHANGED <<stage, leftover, req, recv, stray>>
        /\ split' \in {{}} \cup {{[id |-> r, state |-> req[r]]} : r \in Writers}
    BY <1>3 DEF Snapshot, proxy
  <2>2. CASE split' = {}
    BY <2>1, <2>2 DEF Pending
  <2>3. ASSUME NEW r \in Writers, split' = {[id |-> r, state |-> req[r]]} PROVE SplitInv'
    <3>1. /\ r \in Open /\ r \in leftover \cup stray /\ req[r] \in {"stamped", "upstream"}
          /\ r \in stray \/ recv[r] # stage
      BY <2>1 DEF Writers, Open, StageInv
    <3> QED
      BY <2>1, <2>3, <3>1
  <2> QED
    BY <2>1, <2>2, <2>3
<1>4. CASE Truncate
  BY <1>4 DEF Truncate, proxy, Pending
<1>5. CASE Judge
  BY <1>5 DEF Judge, proxy, Pending
<1>6. CASE RestartProxy
  <2>1. \A r \in Requests : req'[r] = req[r] \/ req'[r] = "killed"
    BY <1>0, <1>6 DEF RestartProxy
  <2>2. Pending' \subseteq Pending
    BY <1>0, <1>6, <2>1 DEF RestartProxy, Pending, runner
  <2> QED
    BY <1>0, <1>6, <2>1, <2>2 DEF RestartProxy, runner
<1>7. ASSUME NEW r \in Requests, Receive(r) PROVE SplitInv'
  <2>1. /\ UNCHANGED <<pc, stage, split, leftover>> /\ stray \subseteq stray'
        /\ req[r] = "new" /\ req'[r] = "received" /\ (pc # "agent" => r \in stray')
        /\ \A x \in Requests \ {r} : req'[x] = req[x] /\ recv'[x] = recv[x]
    BY <1>0, <1>7 DEF Receive, runner
  <2>2. \A x \in split : x.id \in Requests \ {r}
    BY <1>0, <2>1
  <2>3. Pending' \subseteq Pending
    BY <2>1, <2>2 DEF Pending
  <2> QED
    BY <1>0, <2>1, <2>2, <2>3 DEF Open
<1>8. ASSUME NEW r \in Requests, Stamp(r) PROVE SplitInv'
  <2>1. /\ UNCHANGED <<pc, stage, split, leftover, stray, recv>>
        /\ req[r] = "received" /\ req'[r] = "stamped"
        /\ \A x \in Requests \ {r} : req'[x] = req[x]
    BY <1>0, <1>8 DEF Stamp, runner, faulty
  <2>2. \A x \in split : x.id \in Requests \ {r}
    BY <1>0, <2>1
  <2>3. Pending' \subseteq Pending
    BY <2>1, <2>2 DEF Pending
  <2> QED
    BY <1>0, <2>1, <2>2, <2>3 DEF Open
<1>9. ASSUME NEW r \in Requests, Writes(r) PROVE SplitInv'
  <2>1. /\ UNCHANGED <<pc, stage, split, leftover, stray, recv>>
        /\ \/ req[r] = "stamped" /\ req'[r] = "upstream"
           \/ req[r] = "upstream" /\ req'[r] = "finished"
        /\ \A x \in Requests \ {r} : req'[x] = req[x]
    BY <1>0, <1>9, Writing
  <2>2. Pending' \subseteq Pending
    BY <1>0, <2>1 DEF Pending
  <2>3. Open' \subseteq Open
    BY <2>1 DEF Open
  <2> QED
    BY <1>0, <2>1, <2>2, <2>3
<1>10. AgentEnds \/ Drain \/ Read =>
         UNCHANGED <<stage, split, req, recv, leftover, stray>> /\ {pc, pc'} \subseteq Cut
  BY DEF AgentEnds, Drain, Read, proxy
<1>11. UNCHANGED vars => UNCHANGED <<stage, split, req, recv, leftover, stray>> /\ pc' = pc
  BY DEF vars, runner, proxy
<1> QED
  BY <1>1, <1>2, <1>3, <1>4, <1>5, <1>6, <1>7, <1>8, <1>9, <1>10, <1>11 DEF Next, Writes

\* The request of a record has gone past it: stamping another changes nothing.
LEMMA RecordStep == TypeOK /\ SplitInv /\ RecordInv /\ [Next]_vars => RecordInv'
<1> SUFFICES ASSUME TypeOK, SplitInv, RecordInv, [Next]_vars PROVE RecordInv'
  OBVIOUS
<1>0. /\ log \in Seq(Records) /\ Len(log) \in Nat
      /\ \A i \in 1..Len(log) : log[i] \in Records /\ log[i].id \in Requests
  <2>1. \A x \in Records : x.id \in Requests
    BY DEF Records
  <2> QED
    BY <2>1 DEF TypeOK
<1>t. /\ req \in [Requests -> RequestState]
      /\ recv \in [Requests -> 0..MaxStages] /\ stamp \in [Requests -> 0..MaxStages]
  BY DEF TypeOK
<1>1. CASE UNCHANGED <<log, req, recv, stamp, lost>> /\ (pc \in Cut => pc' \in Cut /\ split' = split)
  BY <1>1 DEF RecordInv
<1>2. CASE log' = <<>>
  BY <1>2 DEF RecordInv
<1>3. ASSUME NEW r \in Requests, Receive(r) PROVE RecordInv'
  BY <1>0, <1>t, <1>3 DEF RecordInv, Receive, runner
<1>4. ASSUME NEW r \in Requests, Stamp(r) PROVE RecordInv'
  BY <1>0, <1>t, <1>4 DEF RecordInv, Stamp, runner, faulty
<1>5. ASSUME NEW r \in Requests, Writes(r) PROVE RecordInv'
  <2>1. SUFFICES ASSUME NEW i \in 1..Len(log')
                 PROVE  /\ log'[i].type = "request_start" =>
                             /\ req'[log'[i].id] \in {"upstream", "finished"}
                             /\ log'[i].began = stamp'[log'[i].id]
                        /\ log'[i].type = "finish" =>
                             req'[log'[i].id] = "finished" /\ log'[i].began = recv'[log'[i].id]
                        /\ log'[i].type = "fragment" => lost' # {} \/ (split' # {} /\ pc' \in Cut)
    BY DEF RecordInv
  <2>2. CASE i \in 1..Len(log) /\ log'[i] = log[i]
    BY <1>0, <1>t, <1>5, <2>2, Writing DEF RecordInv
  <2>3. CASE log'[i] = Record(r) /\ Write(r)
    BY <1>t, <1>5, <2>3, Writing DEF Record
  <2>4. CASE log'[i].type = "fragment" /\ (WriteRest(r) \/ WriteFails(r))
    <3>1. WriteFails(r) => lost' # {}
      BY DEF WriteFails
    <3>2. WriteRest(r) => split # {} /\ pc \in Cut
      BY DEF WriteRest, SplitInv, Pending
    <3> QED
      BY <1>5, <2>4, <3>1, <3>2, Writing
  <2>5. UNCHANGED log => i \in 1..Len(log) /\ log'[i] = log[i]
    OBVIOUS
  <2>6. ASSUME NEW x \in Records, log' = Append(log, x)
        PROVE  (i \in 1..Len(log) /\ log'[i] = log[i]) \/ log'[i] = x
    BY <1>0, <2>6, WriteGrows
  <2>7. Write(r) => log' = Append(log, Record(r))
    BY DEF Write
  <2>8. WriteRest(r) \/ WriteFails(r) =>
          UNCHANGED log \/ log' = Append(log, [type |-> "fragment", id |-> r, began |-> 0])
    BY DEF WriteRest, WriteFails, Tear
  <2> QED
    BY <1>5, <2>2, <2>3, <2>4, <2>5, <2>6, <2>7, <2>8, RecordIsRecord DEF Writes
<1>6. TraceStart \/ Snapshot \/ AgentEnds \/ Drain \/ Read \/ Judge
        => UNCHANGED <<log, req, recv, stamp, lost>> /\ (pc \in Cut => pc' \in Cut /\ split' = split)
  BY DEF TraceStart, Snapshot, AgentEnds, Drain, Read, Judge, proxy, Cut
<1>7. Truncate \/ RestartProxy => log' = <<>>
  BY DEF Truncate, RestartProxy
<1>8. UNCHANGED vars => UNCHANGED <<log, req, recv, stamp, lost, pc, split>>
  BY DEF vars, runner, proxy
<1> QED
  BY <1>1, <1>2, <1>3, <1>4, <1>5, <1>6, <1>7, <1>8 DEF Next, Writes

\* What is behind the offset stays there while the log grows.
LEMMA RecentGrows ==
  ASSUME TypeOK, NEW r \in Requests, Writes(r)
  PROVE  /\ \A i \in Recent : i \in Recent' /\ log'[i] = log[i]
         /\ \A i \in Recent' : \/ i \in Recent /\ log'[i] = log[i]
                               \/ log'[i] = Record(r)
                               \/ log'[i].type = "fragment" /\ ~Write(r)
         /\ offset <= Len(log) => offset <= Len(log')
<1>0. Len(log) \in Nat /\ offset \in Nat /\ offset' = offset
  BY Writing DEF TypeOK
<1>1. CASE UNCHANGED log
  BY <1>0, <1>1 DEF Recent
<1>2. ASSUME NEW x \in Records, log' = Append(log, x)
      PROVE  /\ \A i \in Recent : i \in Recent' /\ log'[i] = log[i]
             /\ \A i \in Recent' : (i \in Recent /\ log'[i] = log[i]) \/ log'[i] = x
             /\ offset <= Len(log) => offset <= Len(log')
  BY <1>0, <1>2, WriteGrows DEF Recent
<1>3. Write(r) => log' = Append(log, Record(r))
  BY DEF Write
<1>4. ~Write(r) =>
        UNCHANGED log \/ log' = Append(log, [type |-> "fragment", id |-> r, began |-> 0])
  BY DEF Writes, WriteRest, WriteFails, Tear
<1> QED
  BY <1>1, <1>2, <1>3, <1>4, RecordIsRecord

\* What was logged, or lost, remains so; what is written now is logged, or lost, or was
\* cut by the offset.
LEMMA LoggedNow ==
  ASSUME TypeOK, NEW r \in Requests, Writes(r), offset <= Len(log)
  PROVE  /\ \A type, x : Logged(type, x) => Logged(type, x)'
         /\ \A type : type = Record(r).type => Logged(type, r)' \/ WriteRest(r)
<1>1. ASSUME NEW type, NEW x, Logged(type, x) PROVE Logged(type, x)'
  <2>1. LostOf(type) \subseteq LostOf(type)'
    BY Writing DEF LostOf
  <2> QED
    BY <1>1, <2>1, RecentGrows DEF Logged
<1>2. ASSUME NEW type, type = Record(r).type, ~WriteRest(r) PROVE Logged(type, r)'
  <2>1. CASE Write(r)
    <3>1. log' = Append(log, Record(r)) /\ Len(log) \in Nat /\ offset \in Nat /\ offset' = offset
      BY <2>1, Writing DEF Write, TypeOK
    <3>2. Len(log) + 1 \in Recent' /\ log'[Len(log) + 1] = Record(r)
      BY <3>1, RecordIsRecord, WriteGrows DEF Recent
    <3>3. Record(r).id = r
      BY DEF Record
    <3> QED
      BY <1>2, <3>2, <3>3 DEF Logged
  <2>2. CASE WriteFails(r)
    <3>1. [type |-> type, id |-> r] \in lost'
      BY <1>2, <2>2 DEF WriteFails
    <3> QED
      BY <3>1 DEF Logged, LostOf
  <2> QED
    BY <1>2, <2>1, <2>2 DEF Writes
<1> QED
  BY <1>1, <1>2

-----------------------------------------------------------------------------
(* The records of the running stage.                                         *)

LEMMA StageStep == TypeOK /\ TimeInv /\ SplitInv /\ StageInv /\ [Next]_vars => StageInv'
<1> SUFFICES ASSUME TypeOK, TimeInv, SplitInv, StageInv, [Next]_vars PROVE StageInv'
  OBVIOUS
<1>0. /\ stage \in Nat /\ Len(log) \in Nat
      /\ req \in [Requests -> RequestState] /\ recv \in [Requests -> 0..MaxStages]
  BY BoundAssumption DEF TypeOK
<1>1. ASSUME UNCHANGED <<stage, offset, log, req, recv, stray, lost>>,
             pc' = pc \/ {pc, pc'} \subseteq {"agent", "drain", "read"}
      PROVE  StageInv'
  <2>1. \A type, r : Logged(type, r)' = Logged(type, r)
    BY <1>1 DEF Logged, LostOf, Recent
  <2> QED
    BY <1>1, <2>1 DEF StageInv
<1>2. CASE TraceStart
  BY <1>0, <1>2 DEF TraceStart, StageInv, TimeInv, proxy
<1>3. CASE Snapshot
  BY <1>0, <1>3 DEF Snapshot, StageInv, proxy
<1>4. CASE Read \/ Truncate \/ Judge \/ RestartProxy
  BY <1>4 DEF Read, Truncate, Judge, RestartProxy, StageInv, runner
<1>5. ASSUME NEW r \in Requests, Receive(r) \/ Stamp(r) PROVE StageInv'
  <2>1. /\ UNCHANGED <<pc, stage, offset, log, lost>>
        /\ req'[r] \in {"received", "stamped"} /\ \A x \in Requests \ {r} : req'[x] = req[x]
        /\ (recv'[r] = stage /\ r \in stray') \/ recv'[r] = recv[r] \/ pc = "agent"
        /\ \A x \in Requests \ {r} : recv'[x] = recv[x]
        /\ stray \subseteq stray'
    BY <1>0, <1>5 DEF Receive, Stamp, runner, faulty
  <2>2. \A type, x : Logged(type, x)' = Logged(type, x)
    BY <2>1 DEF Logged, LostOf, Recent
  <2>3. pc = "snapshot" => \A x \in Requests \ stray' : recv'[x] # stage
    BY <2>1 DEF StageInv
  <2> QED
    BY <2>1, <2>2, <2>3 DEF StageInv
<1>6. ASSUME NEW r \in Requests, Writes(r) PROVE StageInv'
  <2>1. CASE pc \in {"agent", "drain", "read"}
    <3>1. offset <= Len(log) /\ offset' <= Len(log')
      BY <1>6, <2>1, RecentGrows, Writing DEF StageInv
    <3>2. ASSUME NEW x \in Requests \ stray', recv'[x] = stage'
          PROVE  /\ req'[x] \in {"upstream", "finished"} => Logged("request_start", x)'
                 /\ req'[x] = "finished" => Logged("finish", x)'
      <4>1. /\ x \in Requests \ stray /\ recv[x] = stage
            /\ req[x] \in {"upstream", "finished"} => Logged("request_start", x)
            /\ req[x] = "finished" => Logged("finish", x)
        BY <1>6, <2>1, <3>2, Writing DEF StageInv
      <4>2. CASE x # r
        BY <1>0, <1>6, <3>1, <4>1, <4>2, Writing, LoggedNow
      <4>3. CASE x = r
        <5>0. ~WriteRest(r)
          <6>1. \A y \in split : y.id = r => FALSE
            BY <2>1, <4>1, <4>3 DEF SplitInv, Cut
          <6> QED
            BY <6>1 DEF WriteRest, Pending
        <5>1. CASE req[r] = "stamped" /\ req'[r] = "upstream"
          <6>1. Record(r).type = "request_start"
            BY <5>1 DEF Record
          <6> QED
            BY <1>6, <3>1, <4>3, <5>0, <5>1, <6>1, LoggedNow
        <5>2. CASE req[r] = "upstream" /\ req'[r] = "finished"
          <6>1. Record(r).type = "finish"
            BY <5>2 DEF Record
          <6> QED
            BY <1>6, <3>1, <4>1, <4>3, <5>0, <5>2, <6>1, LoggedNow
        <5> QED
          BY <1>0, <1>6, <5>1, <5>2, Writing
      <4> QED
        BY <4>2, <4>3
    <3> QED
      BY <1>6, <2>1, <3>1, <3>2, Writing DEF StageInv
  <2>2. CASE pc \notin {"agent", "drain", "read"}
    BY <1>6, <2>2, Writing DEF StageInv
  <2> QED
    BY <2>1, <2>2
<1>7. AgentEnds \/ Drain =>
        /\ UNCHANGED <<stage, offset, log, req, recv, stray, lost>>
        /\ {pc, pc'} \subseteq {"agent", "drain", "read"}
  BY DEF AgentEnds, Drain, proxy
<1>8. UNCHANGED vars => UNCHANGED <<stage, offset, log, req, recv, stray, lost>> /\ pc' = pc
  BY DEF vars, runner, proxy
<1> QED
  BY <1>1, <1>2, <1>3, <1>4, <1>5, <1>6, <1>7, <1>8 DEF Next, Writes

\* Whoever was received since the trace began was received in this stage.
LEMMA LeftStep ==
  TypeOK /\ TimeInv /\ RecordInv /\ StageInv /\ LeftInv /\ [Next]_vars => LeftInv'
<1> SUFFICES ASSUME TypeOK, TimeInv, RecordInv, StageInv, LeftInv, [Next]_vars PROVE LeftInv'
  OBVIOUS
<1>0. /\ stage \in Nat /\ Len(log) \in Nat /\ log \in Seq(Records) /\ offset \in Nat
      /\ req \in [Requests -> RequestState]
      /\ recv \in [Requests -> 0..MaxStages] /\ stamp \in [Requests -> 0..MaxStages]
  BY BoundAssumption DEF TypeOK
<1>1. ASSUME UNCHANGED <<stage, offset, log, req, recv, leftover, summary>>,
             \/ pc' = pc \/ {pc, pc'} \subseteq {"agent", "drain", "read"}
             \/ {pc, pc'} \subseteq {"truncate", "judge"}
      PROVE  LeftInv'
  BY <1>1 DEF LeftInv, Open, Recent
<1>2. CASE TraceStart
  BY <1>2 DEF TraceStart, LeftInv, Open, proxy
<1>3. CASE Snapshot
  <2>1. Recent' = {}
    BY <1>0, <1>3 DEF Snapshot, Recent
  <2> QED
    BY <1>3, <2>1 DEF Snapshot, LeftInv, Open, proxy
<1>4. CASE Read
  <2>1. ASSUME leftover = {}, NEW type \in {"request_start", "finish"} PROVE Strangers(type) = 0
    <3>1. offset <= Len(log) /\ \A i \in Recent : log[i].type # "fragment" => log[i].began = stage
      BY <1>4, <2>1 DEF Read, LeftInv, StageInv
    <3>2. {x \in NewRecords : x.type = type /\ Foreign(x)} = {}
      BY <1>0, <2>1, <3>1, ReadsRecent DEF Foreign
    <3> QED
      BY <3>2, FS_EmptySet DEF Strangers
  <2>2. /\ summary'.foreignStarts = Strangers("request_start")
        /\ summary'.foreignFinishes = Strangers("finish")
        /\ pc' = "truncate" /\ leftover' = leftover
    BY <1>4 DEF Read
  <2> QED
    BY <2>1, <2>2 DEF LeftInv
<1>5. CASE Truncate
  BY <1>5 DEF Truncate, LeftInv
<1>6. CASE Judge \/ RestartProxy
  BY <1>6 DEF Judge, RestartProxy, LeftInv, runner
<1>7. ASSUME NEW r \in Requests, Receive(r) \/ Stamp(r) PROVE LeftInv'
  <2>1. /\ UNCHANGED <<pc, stage, offset, log, leftover, summary>>
        /\ \A x \in Open' : recv'[x] = stage \/ (x \in Open /\ recv'[x] = recv[x])
    <3>1. CASE Receive(r)
      <4>1. /\ recv'[r] = stage
            /\ \A x \in Requests \ {r} : req'[x] = req[x] /\ recv'[x] = recv[x]
        BY <1>0, <3>1 DEF Receive
      <4>2. UNCHANGED <<pc, stage, offset, log, leftover, summary>>
        BY <3>1 DEF Receive, runner
      <4> QED
        BY <4>1, <4>2 DEF Open
    <3>2. CASE Stamp(r)
      BY <1>0, <3>2 DEF Stamp, runner, faulty, Open
    <3> QED
      BY <1>7, <3>1, <3>2
  <2> QED
    BY <2>1 DEF LeftInv, Recent
<1>8. ASSUME NEW r \in Requests, Writes(r) PROVE LeftInv'
  <2>1. Open' \subseteq Open /\ r \in Open /\ UNCHANGED <<pc, stage, offset, recv, leftover, summary>>
    BY <1>0, <1>8, Writing DEF Open
  <2>2. pc \in {"snapshot", "agent", "drain", "read"} /\ leftover = {} => Record(r).began = stage
    <3>1. req[r] \in {"stamped", "upstream"}
      BY <1>8, Writing
    <3>2. recv[r] <= stamp[r] /\ stamp[r] <= stage
      BY <3>1 DEF TimeInv
    <3> QED
      BY <1>0, <2>1, <3>2 DEF LeftInv, Record
  <2> QED
    BY <1>8, <2>1, <2>2, RecentGrows DEF LeftInv
<1>9. AgentEnds \/ Drain =>
        /\ UNCHANGED <<stage, offset, log, req, recv, leftover, summary>>
        /\ {pc, pc'} \subseteq {"agent", "drain", "read"}
  BY DEF AgentEnds, Drain, proxy
<1>10. UNCHANGED vars => UNCHANGED <<stage, offset, log, req, recv, leftover, summary>> /\ pc' = pc
  BY DEF vars, runner, proxy
<1> QED
  BY <1>1, <1>2, <1>3, <1>4, <1>5, <1>6, <1>7, <1>8, <1>9, <1>10 DEF Next, Writes

\* A fragment behind the offset is read, and counted.
LEMMA TornStep == TypeOK /\ StageInv /\ TornInv /\ [Next]_vars => TornInv'
<1> SUFFICES ASSUME TypeOK, StageInv, TornInv, [Next]_vars PROVE TornInv'
  OBVIOUS
<1>0. Len(log) \in Nat /\ log \in Seq(Records) /\ offset \in Nat
  BY DEF TypeOK
<1>1. ASSUME UNCHANGED <<offset, log, torn, summary>>,
             \/ pc' = pc \/ {pc, pc'} \subseteq {"agent", "drain", "read"}
             \/ {pc, pc'} \subseteq {"truncate", "judge"}
      PROVE  TornInv'
  BY <1>1 DEF TornInv, Recent
<1>2. CASE TraceStart \/ Snapshot \/ Judge \/ RestartProxy
  BY <1>2 DEF TraceStart, Snapshot, Judge, RestartProxy, TornInv, runner
<1>3. CASE Read
  <2>1. offset <= Len(log) /\ (torn => \E i \in Recent : log[i].type = "fragment")
    BY <1>3 DEF Read, StageInv, TornInv
  <2>2. PICK partial \in BOOLEAN : summary'.errors = Fragments(partial) + Excess
    BY <1>3 DEF Read
  <2>3. torn => summary'.errors # 0
    <3>1. Fragments(partial) \in Nat /\ Excess \in Nat
      BY <1>0, <2>1, FragmentsCount, ExcessCount
    <3>2. torn => Fragments(partial) # 0
      BY <1>0, <2>1, FragmentsCount
    <3> QED
      BY <2>2, <3>1, <3>2
  <2> QED
    BY <1>3, <2>3 DEF Read, TornInv
<1>4. CASE Truncate
  BY <1>4 DEF Truncate, TornInv
<1>5. ASSUME NEW r \in Requests, Write(r) PROVE TornInv'
  BY <1>5, Writing, RecentGrows DEF Write, Writes, TornInv, faulty
<1>6. ASSUME NEW r \in Requests, WriteRest(r) \/ WriteFails(r) PROVE TornInv'
  <2>0. Writes(r)
    BY <1>6 DEF Writes
  <2>1. CASE UNCHANGED <<log, torn>>
    BY <2>0, <2>1, Writing DEF TornInv, Recent
  <2>2. CASE /\ log' = Append(log, [type |-> "fragment", id |-> r, began |-> 0])
             /\ torn' = (torn \/ pc \in {"agent", "drain", "read"})
    <3>1. CASE pc \in {"agent", "drain", "read"}
      <4>1. offset <= Len(log) /\ pc' = pc /\ offset' = offset
        BY <2>0, <3>1, Writing DEF StageInv
      <4>2. Len(log) + 1 \in Recent' /\ log'[Len(log) + 1].type = "fragment"
        BY <1>0, <2>2, <4>1, RecordIsRecord, WriteGrows DEF Recent
      <4> QED
        BY <3>1, <4>1, <4>2 DEF TornInv
    <3>2. CASE pc \notin {"agent", "drain", "read"}
      BY <2>0, <2>2, <3>2, Writing DEF TornInv
    <3> QED
      BY <3>1, <3>2
  <2> QED
    BY <1>6, <2>1, <2>2 DEF WriteRest, WriteFails, Tear
<1>7. AgentEnds \/ Drain =>
        UNCHANGED <<offset, log, torn, summary>> /\ {pc, pc'} \subseteq {"agent", "drain", "read"}
  BY DEF AgentEnds, Drain
<1>8. (UNCHANGED vars => UNCHANGED <<offset, log, torn, summary>> /\ pc' = pc)
      /\ \A r \in Requests : Receive(r) \/ Stamp(r) =>
           UNCHANGED <<offset, log, torn, summary>> /\ pc' = pc
  BY DEF vars, runner, Receive, Stamp, faulty
<1> QED
  BY <1>1, <1>2, <1>3, <1>4, <1>5, <1>6, <1>7, <1>8 DEF Next

-----------------------------------------------------------------------------
(* What is counted.                                                          *)

\* A counted id is that of a record behind the offset, of this stage.
LEMMA CountedId ==
  ASSUME TypeOK, TimeInv, RecordInv, offset <= Len(log)
  PROVE  /\ \A r \in Ids("request_start") : req[r] \in {"upstream", "finished"} /\ stamp[r] = stage
         /\ \A r \in Ids("finish") : req[r] = "finished" /\ recv[r] = stage
<1>0. /\ stage \in Nat /\ log \in Seq(Records) /\ offset \in Nat
      /\ recv \in [Requests -> 0..MaxStages] /\ stamp \in [Requests -> 0..MaxStages]
  BY BoundAssumption DEF TypeOK
<1>1. ASSUME NEW type, NEW r \in Ids(type)
      PROVE  \E i \in 1..Len(log) : log[i].type = type /\ log[i].id = r /\ ~(log[i].began < stage)
  BY <1>0, <1>1, ReadsRecent DEF Ids, Foreign, Recent
<1>2. ASSUME NEW r \in Ids("request_start")
      PROVE  req[r] \in {"upstream", "finished"} /\ stamp[r] = stage
  <2>1. req[r] \in {"upstream", "finished"} /\ ~(stamp[r] < stage)
    BY <1>1, <1>2 DEF RecordInv
  <2>2. r \in Requests
    BY <1>0, <1>2, IdsFinite
  <2> QED
    BY <1>0, <2>1, <2>2 DEF TimeInv
<1>3. ASSUME NEW r \in Ids("finish") PROVE req[r] = "finished" /\ recv[r] = stage
  <2>1. req[r] = "finished" /\ ~(recv[r] < stage)
    BY <1>1, <1>3 DEF RecordInv
  <2>2. r \in Requests
    BY <1>0, <1>3, IdsFinite
  <2> QED
    BY <1>0, <2>1, <2>2 DEF TimeInv
<1> QED
  BY <1>2, <1>3

\* A request of this stage is counted for every record of it that was logged.
LEMMA LoggedCounts ==
  ASSUME TypeOK, TimeInv, RecordInv, offset <= Len(log),
         NEW r \in Requests, recv[r] = stage,
         NEW type \in {"request_start", "finish"}, Logged(type, r)
  PROVE  r \in Ids(type) \cup LostOf(type)
<1>0. /\ stage \in Nat /\ log \in Seq(Records) /\ offset \in Nat
      /\ recv \in [Requests -> 0..MaxStages] /\ stamp \in [Requests -> 0..MaxStages]
  BY BoundAssumption DEF TypeOK
<1>1. SUFFICES ASSUME NEW i \in Recent, log[i].type = type, log[i].id = r PROVE r \in Ids(type)
  BY DEF Logged
<1>2. i \in 1..Len(log) /\ log[i] \in NewRecords
  BY <1>0, ReadsRecent DEF Recent
<1>3. ~(log[i].began < stage)
  <2>1. CASE type = "request_start"
    <3>1. req[r] \in {"upstream", "finished"} /\ log[i].began = stamp[r]
      BY <1>1, <1>2, <2>1 DEF RecordInv
    <3>2. recv[r] <= stamp[r]
      BY <3>1 DEF TimeInv
    <3> QED
      BY <1>0, <3>1, <3>2
  <2>2. CASE type = "finish"
    BY <1>0, <1>1, <1>2, <2>2 DEF RecordInv
  <2> QED
    BY <2>1, <2>2
<1> QED
  BY <1>1, <1>2, <1>3 DEF Ids, Foreign

\* The reading itself: everything is in this step.
LEMMA ReadCounts ==
  ASSUME TypeOK, TimeInv, RecordInv, StageInv, Read
  PROVE  CountInv'
<1>0. /\ stage \in Nat /\ log \in Seq(Records) /\ offset \in Nat /\ offset <= Len(log)
      /\ pc = "read" /\ inFlight' = Open
      /\ UNCHANGED <<stage, req, recv, stamp, stray, lost, split>>
  BY BoundAssumption DEF TypeOK, Read, StageInv, proxy
<1>1. PICK partial \in BOOLEAN :
        /\ partial => Writers # {}
        /\ summary' = [starts |-> Ids("request_start"), finishes |-> Ids("finish"),
                       foreignStarts |-> Strangers("request_start"),
                       foreignFinishes |-> Strangers("finish"),
                       errors |-> Fragments(partial) + Excess]
  BY DEF Read
<1>2. /\ summary'.starts = Ids("request_start") /\ summary'.finishes = Ids("finish")
      /\ summary'.errors = Fragments(partial) + Excess
  BY <1>1
<1>3. \A type : LostOf(type)' = LostOf(type)
  BY <1>0 DEF LostOf
<1>4. ASSUME NEW r \in Requests \ stray, recv[r] = stage
      PROVE  /\ req[r] = "finished" => r \in Ids("request_start") \cup LostOf("request_start")
             /\ req[r] = "finished" => r \in Ids("finish") \cup LostOf("finish")
  BY <1>0, <1>4, LoggedCounts DEF StageInv
<1>5. ASSUME NEW r \in Ids("finish")
      PROVE  r \in stray \cup Ids("request_start") \cup LostOf("request_start")
  BY <1>0, <1>4, <1>5, CountedId, IdsFinite
<1>6. ASSUME inFlight' = {}, NEW r \in Requests \ stray, recv[r] = stage PROVE req[r] = "finished"
  <2>1. req[r] \in RequestState /\ req[r] \notin {"received", "stamped", "upstream"}
    BY <1>0, <1>6 DEF TypeOK, Open
  <2>2. req[r] # "new" /\ req[r] # "killed"
    BY <1>0, <1>6 DEF TimeInv
  <2> QED
    BY <2>1, <2>2 DEF RequestState
<1>7. ASSUME stray = {}, lost = {}, inFlight' = {}, split = {} PROVE summary'.errors = 0
  <2>1. LostOf("request_start") = {}
    BY <1>7 DEF LostOf
  <2>2. Ids("finish") \subseteq Ids("request_start")
    BY <1>5, <1>7, <2>1
  <2>3. ~partial
    BY <1>0, <1>1, <1>7 DEF Writers, Open
  <2>4. \A i \in Recent : log[i].type # "fragment"
    BY <1>7 DEF RecordInv, Recent
  <2>5. Fragments(partial) = 0 /\ Excess = 0
    BY <1>0, <2>2, <2>3, <2>4, FragmentsCount, ExcessCount
  <2> QED
    BY <1>2, <2>5
<1> QED
  BY <1>0, <1>2, <1>3, <1>4, <1>5, <1>6, <1>7, CountedId DEF CountInv

LEMMA CountStep ==
  TypeOK /\ TimeInv /\ RecordInv /\ StageInv /\ CountInv /\ [Next]_vars => CountInv'
<1> SUFFICES ASSUME TypeOK, TimeInv, RecordInv, StageInv, CountInv, [Next]_vars PROVE CountInv'
  OBVIOUS
<1>0. /\ req \in [Requests -> RequestState]
      /\ recv \in [Requests -> 0..MaxStages] /\ stamp \in [Requests -> 0..MaxStages]
      /\ summary.starts \subseteq Requests /\ summary.finishes \subseteq Requests
  BY DEF TypeOK
<1>1. ASSUME UNCHANGED <<stage, split, req, recv, stamp, stray, lost, summary, inFlight>>,
             pc' = pc \/ {pc, pc'} \subseteq {"truncate", "judge"}
      PROVE  CountInv'
  BY <1>1 DEF CountInv, LostOf
<1>2. TraceStart \/ Snapshot \/ AgentEnds \/ Drain \/ Judge \/ RestartProxy
        => pc' \notin {"truncate", "judge"}
  BY DEF TraceStart, Snapshot, AgentEnds, Drain, Judge, RestartProxy, runner
<1>3. pc' \notin {"truncate", "judge"} => CountInv'
  BY DEF CountInv
<1>4. ASSUME NEW r \in Requests, Receive(r) PROVE CountInv'
  <2>1. /\ UNCHANGED <<pc, stage, split, summary, inFlight, stamp, lost>> /\ stray \subseteq stray'
        /\ req[r] = "new" /\ (pc # "agent" => stray' = stray \cup {r})
        /\ \A x \in Requests \ {r} : req'[x] = req[x] /\ recv'[x] = recv[x]
    BY <1>0, <1>4 DEF Receive, runner
  <2> QED
    BY <1>0, <2>1 DEF CountInv, LostOf
<1>5. ASSUME NEW r \in Requests, Stamp(r) PROVE CountInv'
  <2>1. /\ UNCHANGED <<pc, stage, split, summary, inFlight, recv, stray, lost>> /\ req[r] = "received"
        /\ \A x \in Requests \ {r} : req'[x] = req[x] /\ stamp'[x] = stamp[x]
    BY <1>0, <1>5 DEF Stamp, runner, faulty
  <2> QED
    BY <1>0, <2>1 DEF CountInv, LostOf
<1>6. ASSUME NEW r \in Requests, Writes(r) PROVE CountInv'
  <2>1. UNCHANGED <<pc, stage, split, summary, inFlight, recv, stamp, stray>> /\ lost \subseteq lost'
    BY <1>6, Writing
  <2>2. \A x \in Requests : /\ req[x] \in {"upstream", "finished"} => req'[x] \in {"upstream", "finished"}
                            /\ req[x] = "finished" => req'[x] = "finished"
    BY <1>0, <1>6, Writing
  <2>3. \A type : LostOf(type) \subseteq LostOf(type)'
    BY <2>1 DEF LostOf
  <2> QED
    BY <1>0, <2>1, <2>2, <2>3 DEF CountInv
<1>7. Truncate => /\ UNCHANGED <<stage, split, req, recv, stamp, stray, lost, summary, inFlight>>
                  /\ {pc, pc'} \subseteq {"truncate", "judge"}
  BY DEF Truncate, proxy
<1>8. UNCHANGED vars =>
        UNCHANGED <<stage, split, req, recv, stamp, stray, lost, summary, inFlight>> /\ pc' = pc
  BY DEF vars, runner, proxy
<1> QED
  BY <1>1, <1>2, <1>3, <1>4, <1>5, <1>6, <1>7, <1>8, ReadCounts DEF Next, Writes

LEMMA LogInit == Init => LogInv
<1> SUFFICES ASSUME Init PROVE LogInv
  OBVIOUS
<1>1. TimeInv
  BY BoundAssumption DEF Init, TimeInv
<1>2. SplitInv /\ RecordInv /\ StageInv /\ LeftInv /\ TornInv /\ CountInv
  BY DEF Init, SplitInv, Pending, RecordInv, StageInv, LeftInv, TornInv, CountInv
<1> QED
  BY <1>1, <1>2 DEF LogInv

LEMMA LogStep == TypeOK /\ LogInv /\ [Next]_vars => TypeOK' /\ LogInv'
BY TypesStep, TimeStep, SplitStep, RecordStep, StageStep, LeftStep, TornStep, CountStep DEF LogInv

LEMMA Logging == Spec => [](TypeOK /\ LogInv)
BY TypesInit, LogInit, LogStep, PTL DEF Spec

-----------------------------------------------------------------------------
(* The theorems.                                                             *)

\* The log holds whole records and fragments, and the summary's counts are numbers.
THEOREM TypeCorrect == Spec => []TypeOK
BY Logging, PTL

\* A request is counted for no stage but its own, and none of its records is missed
\* that was written before the log was read.
THEOREM TraceTrue == Spec => []TraceIsTrue
<1>1. TypeOK /\ LogInv => TraceIsTrue
  BY DEF TypeOK, LogInv, CountInv, TraceIsTrue
<1> QED
  BY <1>1, Logging, PTL

\* A stage is blamed for the log only if a record was lost, was still to come, was
\* being written when the offset was taken, or was another stage's.
THEOREM NeverBlamed == Spec => []NoFalseAlarm
<1>1. TypeOK /\ LogInv => NoFalseAlarm
  BY DEF LogInv, CountInv, LeftInv, SplitInv, Cut, NoFalseAlarm
<1> QED
  BY <1>1, Logging, PTL

\* A torn record makes its stage unhealthy.
THEOREM TornNoticed == Spec => []TornIsNoticed
<1>1. LogInv => TornIsNoticed
  BY DEF LogInv, TornInv, TornIsNoticed, Healthy
<1> QED
  BY <1>1, Logging, PTL

=============================================================================
