-------------------------- MODULE AgentStage_proofs --------------------------
(***************************************************************************)
(* Which configuration an agent starts with, for any number of rows: its     *)
(* own where the adapter writes one, and the one of its row where Vibe rows  *)
(* cannot meet; and that no other adapter passes for a local row.            *)
(***************************************************************************)
EXTENDS AgentStage, FiniteSetTheorems, TLAPS


\* The types are an invariant of every step of every row.
LEMMA TypesStep == TypeOK /\ [Next]_vars => TypeOK'
<1> SUFFICES ASSUME TypeOK, [Next]_vars PROVE TypeOK'
  OBVIOUS
<1> USE ConstAssumption DEF TypeOK, Contents, Idle, Outputs
<1>1. CASE UNCHANGED vars
  BY <1>1 DEF vars, config
<1>2. CASE Kill /\ UNCHANGED <<conf, workers>>
  BY <1>2 DEF Kill
<1>3. ASSUME NEW r \in Rows, Step(r), UNCHANGED <<conf, workers>> PROVE TypeOK'
  <2>1. CASE Begin(r)
    BY <1>3, <2>1 DEF Begin, Goto, At, WriteFile
  <2>2. CASE Configure(r)
    BY <1>3, <2>2 DEF Configure, Goto, At, WriteFile, Home
  <2>3. CASE VibeRead(r)
    BY <1>3, <2>3 DEF VibeRead, Goto, At
  <2>4. CASE VibeTruncate(r)
    BY <1>3, <2>4 DEF VibeTruncate, Goto, At, WriteFile
  <2>5. CASE VibeFill(r)
    BY <1>3, <2>5 DEF VibeFill, Goto, At, WriteFile, Substituted
  <2>6. CASE Launch(r)
    BY <1>3, <2>6 DEF Launch, Goto, At, ConfigOf, Home
  <2>7. CASE Agent(r)
    BY <1>3, <2>7 DEF Agent, Goto, At, AgentText, config
  <2>8. CASE Judge(r)
    <3>1. pc' \in [Rows -> Idle \cup {"configure", "truncate", "fill", "launch", "agent", "judge"}]
      BY <2>8 DEF Judge, Goto
    <3>2. stage' \in [Rows -> 1..Stages]
      BY <2>8 DEF Judge, StagesLeft
    <3> QED
      BY <1>3, <2>8, <3>1, <3>2 DEF Judge, config
  <2> QED
    BY <1>3, <2>1, <2>2, <2>3, <2>4, <2>5, <2>6, <2>7, <2>8 DEF Step
<1> QED
  BY <1>1, <1>2, <1>3 DEF Next

LEMMA TypesInit == Init => TypeOK
<1> SUFFICES ASSUME Init PROVE TypeOK
  OBVIOUS
<1>1. file \in [Rows \cup {Vibe} -> Contents]
  BY DEF Init, Contents
<1>2. stage \in [Rows -> 1..Stages]
  BY ConstAssumption DEF Init
<1> QED
  BY <1>1, <1>2 DEF Init, TypeOK, Contents, Idle, Outputs

\* Type correctness of the rows' steps, for every set of rows and kinds.
THEOREM AgentTypeCorrect == Spec => []TypeOK
<1> QED
  BY TypesInit, TypesStep, PTL DEF Spec

-----------------------------------------------------------------------------
(* Own configurations: nobody writes into the run directory of another row.  *)

\* Only Vibe rows write the user's file, and what is written for any other row
\* stays until its agent reads it.
Prepared ==
  /\ \A r \in Rows : pc[r] \in {"truncate", "fill"} => conf[r].adapter = "vibe" /\ conf[r].names
  /\ \A r \in Rows : Isolated(r) /\ pc[r] = "launch" => file[r] = r
  /\ \A r \in Rows : Isolated(r) /\ pc[r] \in {"agent", "judge"} => ran[r] = r

LEMMA PreparedStep == TypeOK /\ Prepared /\ [Next]_vars => Prepared'
<1> SUFFICES ASSUME TypeOK, Prepared, [Next]_vars PROVE Prepared'
  OBVIOUS
<1> USE ConstAssumption DEF TypeOK, Prepared, Isolated
<1>1. CASE UNCHANGED vars
  BY <1>1 DEF vars, config
<1>2. CASE Kill /\ UNCHANGED <<conf, workers>>
  BY <1>2 DEF Kill
<1>3. ASSUME NEW q \in Rows, Step(q), UNCHANGED <<conf, workers>> PROVE Prepared'
  <2>1. CASE Begin(q)
    BY <1>3, <2>1 DEF Begin, Goto, At, WriteFile
  <2>2. CASE Configure(q)
    BY <1>3, <2>2 DEF Configure, Goto, At, WriteFile, Home
  <2>3. CASE VibeRead(q)
    BY <1>3, <2>3 DEF VibeRead, Goto, At
  <2>4. CASE VibeTruncate(q)
    BY <1>3, <2>4 DEF VibeTruncate, Goto, At, WriteFile
  <2>5. CASE VibeFill(q)
    BY <1>3, <2>5 DEF VibeFill, Goto, At, WriteFile
  <2>6. CASE Launch(q)
    BY <1>3, <2>6 DEF Launch, Goto, At, ConfigOf, Home
  <2>7. CASE Agent(q)
    BY <1>3, <2>7 DEF Agent, Goto, At, config
  <2>8. CASE Judge(q)
    BY <1>3, <2>8 DEF Judge, Goto, At, config
  <2> QED
    BY <1>3, <2>1, <2>2, <2>3, <2>4, <2>5, <2>6, <2>7, <2>8 DEF Step
<1> QED
  BY <1>1, <1>2, <1>3 DEF Next

\* An agent with a configuration of its own runs with the one of its row, for
\* every set of rows, whatever the two pools interleave and whenever they are killed.
THEOREM OwnConfiguration == Spec => []OwnConfigIsUsed
<1>1. Init => TypeOK /\ Prepared
  BY TypesInit DEF Init, Prepared
<1>2. Prepared => OwnConfigIsUsed
  BY DEF Prepared, OwnConfigIsUsed
<1> QED
  BY <1>1, <1>2, TypesStep, PreparedStep, PTL DEF Spec

-----------------------------------------------------------------------------
(* The proxy: what is no Codex or OpenCode row raises in its first stage.    *)

\* While it runs a stage, another local row is in its first.
FirstStage ==
  \A r \in Rows : conf[r].local /\ ~Isolated(r) => stage[r] = 1 /\ pc[r] # "done"

LEMMA FirstStageStep == TypeOK /\ FirstStage /\ [Next]_vars => FirstStage'
<1> SUFFICES ASSUME TypeOK, FirstStage, [Next]_vars PROVE FirstStage'
  OBVIOUS
<1> USE ConstAssumption DEF TypeOK, FirstStage, Isolated
<1>1. CASE UNCHANGED vars
  BY <1>1 DEF vars
<1>2. CASE Kill /\ UNCHANGED <<conf, workers>>
  BY <1>2 DEF Kill
<1>3. ASSUME NEW q \in Rows, Step(q), UNCHANGED <<conf, workers>> PROVE FirstStage'
  <2>1. CASE Judge(q)
    <3>1. CASE conf[q].local /\ ~Isolated(q)
      <4>1. ~Unsummarised(q) /\ \A x \in Summaries(q) : ~HealthyStage(q, x)
        BY <3>1 DEF Unsummarised, Summaries, HealthyStage
      <4>2. pc' = [pc EXCEPT ![q] = "raised"] /\ stage' = stage
        BY <2>1, <4>1 DEF Judge, Goto
      <4> QED
        BY <1>3, <4>2
    <3>2. CASE ~(conf[q].local /\ ~Isolated(q))
      BY <1>3, <2>1, <3>2 DEF Judge, Goto
    <3> QED
      BY <3>1, <3>2
  <2>2. CASE ~Judge(q)
    BY <1>3, <2>2 DEF Step, Begin, Configure, VibeRead, VibeTruncate, VibeFill, Launch,
                      Agent, Goto, At
  <2> QED
    BY <2>1, <2>2
<1> QED
  BY <1>1, <1>2, <1>3 DEF Next

\* A local row that counts was answered through the proxy.
THEOREM LocalRowsTraced == Spec => []LocalRowsUseTheProxy
<1>1. Init => TypeOK /\ FirstStage
  BY TypesInit DEF Init, FirstStage
<1>2. TypeOK /\ FirstStage => LocalRowsUseTheProxy
  BY ConstAssumption DEF TypeOK, FirstStage, LocalRowsUseTheProxy
<1> QED
  BY <1>1, <1>2, TypesStep, FirstStageStep, PTL DEF Spec

-----------------------------------------------------------------------------
(* The user's file: one Vibe row at a time, from reading it to its agent.    *)

\* A pool with one worker runs one row.
OneVibeRow ==
  VibeRowsAlone =>
    \A q, r \in VibeRows : pc[q] \notin Idle /\ pc[r] \notin Idle => q = r

LEMMA RunningEmpty ==
  ASSUME NEW pool, pool \subseteq Rows, Cardinality(Running(pool)) < 1
  PROVE  Running(pool) = {}
<1>1. IsFiniteSet(Running(pool))
  BY ConstAssumption, FS_Subset DEF Running
<1> QED
  BY <1>1, FS_CardinalityType, FS_EmptySet

LEMMA OneVibeRowStep == TypeOK /\ OneVibeRow /\ [Next]_vars => OneVibeRow'
<1> SUFFICES ASSUME TypeOK, OneVibeRow, [Next]_vars, VibeRowsAlone' PROVE OneVibeRow'
  BY DEF OneVibeRow
<1>0. VibeRowsAlone /\ VibeRows' = VibeRows
  BY DEF VibeRowsAlone, VibeRows, LocalPool, CloudPool, Next, vars
<1>1. CASE UNCHANGED vars
  BY <1>0, <1>1 DEF vars, OneVibeRow
<1>2. CASE Kill /\ UNCHANGED <<conf, workers>>
  BY <1>2 DEF Kill, OneVibeRow, VibeRows, Idle
<1>3. ASSUME NEW b \in Rows, Step(b), UNCHANGED <<conf, workers>> PROVE OneVibeRow'
  <2>1. CASE Begin(b)
    <3>1. CASE b \in VibeRows
      <4>1. \A q \in VibeRows : pc[q] \in Idle
        <5>1. CASE VibeRows \subseteq LocalPool
          BY <2>1, <3>1, <5>1 DEF Begin, Running, VibeRows, LocalPool
        <5>2. CASE VibeRows \subseteq CloudPool /\ workers = 1
          <6>1. Cardinality(Running(CloudPool)) < 1
            BY <2>1, <3>1, <5>2 DEF Begin, LocalPool, CloudPool
          <6>2. Running(CloudPool) = {}
            BY <6>1, RunningEmpty DEF CloudPool
          <6> QED
            BY <5>2, <6>2 DEF Running
        <5> QED
          BY <1>0, <5>1, <5>2 DEF VibeRowsAlone
      <4> QED
        BY <1>0, <2>1, <4>1 DEF Begin, Goto, OneVibeRow, TypeOK, VibeRows
    <3>2. CASE b \notin VibeRows
      BY <1>0, <2>1, <3>2 DEF Begin, Goto, OneVibeRow, TypeOK, VibeRows
    <3> QED
      BY <3>1, <3>2
  <2>2. CASE ~Begin(b)
    <3>1. pc[b] \notin Idle
      BY <1>3, <2>2 DEF Step, Configure, VibeRead, VibeTruncate, VibeFill, Launch, Agent,
                        Judge, At, Idle
    <3>2. \A q \in Rows : q # b => pc'[q] = pc[q]
      BY <1>3, <2>2 DEF Step, Configure, VibeRead, VibeTruncate, VibeFill, Launch, Agent,
                        Judge, Goto, TypeOK
    <3> QED
      BY <1>0, <3>1, <3>2 DEF OneVibeRow, VibeRows
  <2> QED
    BY <2>1, <2>2
<1> QED
  BY <1>1, <1>2, <1>3 DEF Next

\* What the file holds at each step of the one Vibe row that runs.
UserFile ==
  VibeRowsAlone /\ ~spoiled =>
    /\ file[Vibe] = "empty" => \E r \in VibeRows : pc[r] = "fill"
    /\ \A r \in VibeRows :
         /\ pc[r] = "truncate" => text[r] = file[Vibe] /\ file[Vibe] # "missing"
         /\ pc[r] = "fill" => text[r] \in Rows \cup {"user", "noLine"}
         /\ conf[r].names /\ pc[r] \in {"launch", "agent", "judge"}
              => file[Vibe] \in {r, "noLine", "missing"}
         /\ pc[r] \in {"agent", "judge"} /\ conf[r].names => ran[r] = file[Vibe]

LEMMA UserFileStep ==
  TypeOK /\ Prepared /\ OneVibeRow /\ UserFile /\ [Next]_vars => UserFile'
<1> SUFFICES ASSUME TypeOK, Prepared, OneVibeRow, UserFile, [Next]_vars,
                    VibeRowsAlone', ~spoiled'
             PROVE  UserFile'
  BY DEF UserFile
<1>0. VibeRowsAlone /\ VibeRows' = VibeRows /\ ~spoiled
  BY DEF VibeRowsAlone, VibeRows, LocalPool, CloudPool, Next, vars, config, Kill, Step, Begin,
         Configure, VibeRead, VibeTruncate, VibeFill, Launch, Agent, Judge, TypeOK
<1>A. \A q, r \in VibeRows : pc[q] \notin Idle /\ pc[r] \notin Idle => q = r
  BY <1>0 DEF OneVibeRow
<1> USE ConstAssumption DEF TypeOK, VibeRows
<1>1. CASE UNCHANGED vars
  BY <1>0, <1>1 DEF vars, config, UserFile
<1>2. CASE Kill /\ UNCHANGED <<conf, workers>>
  BY <1>0, <1>2 DEF Kill, UserFile
<1>3. ASSUME NEW b \in Rows, Step(b), UNCHANGED <<conf, workers>> PROVE UserFile'
  <2>1. CASE Begin(b)
    BY <1>0, <1>3, <2>1 DEF Begin, Goto, At, WriteFile, UserFile
  <2>2. CASE Configure(b)
    BY <1>0, <1>3, <2>2 DEF Configure, Goto, At, WriteFile, Home, UserFile
  <2>3. CASE VibeRead(b)
    BY <1>0, <1>3, <2>3 DEF VibeRead, Goto, At, UserFile
  <2>4. CASE VibeTruncate(b)
    <3>1. conf[b].adapter = "vibe" /\ text[b] = file[Vibe] /\ file[Vibe] # "missing"
      BY <1>0, <2>4 DEF VibeTruncate, At, Prepared, UserFile
    <3>2. file[Vibe] # "empty"
      BY <1>0, <1>A, <2>4, <3>1 DEF VibeTruncate, At, UserFile, Idle
    <3>3. text'[b] \in Rows \cup {"user", "noLine"}
      BY <2>4, <3>1, <3>2 DEF VibeTruncate, Contents
    <3>4. \A r \in VibeRows : r # b => pc'[r] \in Idle
      BY <1>A, <2>4, <3>1 DEF VibeTruncate, Goto, At, Idle
    <3>5. pc'[b] = "fill"
      BY <2>4 DEF VibeTruncate, Goto
    <3> QED
      BY <1>0, <1>3, <3>1, <3>3, <3>4, <3>5 DEF UserFile, Idle
  <2>5. CASE VibeFill(b)
    <3>1. conf[b].adapter = "vibe" /\ text[b] \in Rows \cup {"user", "noLine"}
      BY <1>0, <2>5 DEF VibeFill, At, Prepared, UserFile
    <3>2. file'[Vibe] \in {b, "noLine"}
      BY <2>5, <3>1 DEF VibeFill, WriteFile, Substituted
    <3>3. \A r \in VibeRows : r # b => pc'[r] \in Idle
      BY <1>A, <2>5, <3>1 DEF VibeFill, Goto, At, Idle
    <3>4. pc'[b] = "launch"
      BY <2>5 DEF VibeFill, Goto
    <3>5. file'[Vibe] # "empty"
      BY <3>2, ConstAssumption
    <3> QED
      BY <1>0, <3>2, <3>3, <3>4, <3>5 DEF UserFile, Idle
  <2>6. CASE Launch(b)
    BY <1>0, <1>3, <2>6 DEF Launch, Goto, At, ConfigOf, UserFile
  <2>7. CASE Agent(b)
    BY <1>0, <1>3, <2>7 DEF Agent, Goto, At, config, UserFile
  <2>8. CASE Judge(b)
    BY <1>0, <1>3, <2>8 DEF Judge, Goto, At, config, UserFile
  <2> QED
    BY <1>3, <2>1, <2>2, <2>3, <2>4, <2>5, <2>6, <2>7, <2>8 DEF Step
<1> QED
  BY <1>1, <1>2, <1>3 DEF Next

\* Where Vibe rows cannot meet and no kill came while the file was half written,
\* every Vibe row runs with the model it names.
THEOREM VibeAlone == Spec => []VibeAloneIsRight
<1> DEFINE Inv == TypeOK /\ Prepared /\ OneVibeRow /\ UserFile
<1>1. Init => Inv
  BY ConstAssumption, TypesInit DEF Init, Idle, Prepared, OneVibeRow, VibeRows, UserFile
<1>2. Inv /\ [Next]_vars => Inv'
  BY TypesStep, PreparedStep, OneVibeRowStep, UserFileStep
<1>3. Inv => VibeAloneIsRight
  BY DEF UserFile, VibeAloneIsRight, VibeRows
<1> QED
  BY <1>1, <1>2, <1>3, PTL DEF Spec
=============================================================================
