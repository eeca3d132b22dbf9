---------------------------- MODULE TaskRow_proofs ----------------------------
(***************************************************************************)
(* One row of a suite, for every number of stages and of runs and every set *)
(* of faults: it starts from the base commit, follows the policy of stages, *)
(* is solved by the sources it is judged on, hears every judge, and writes   *)
(* its result after its archive.                                            *)
(*                                                                         *)
(* StageInv, BaseInv, BuildInv, RealInv, DiskInv and JudgeInv say what       *)
(* run_task_row has established at each of its steps.  Raise and Crash may   *)
(* leave any step: nothing is claimed of "idle" and "raised", and of a       *)
(* directory that is being cleared only that no row is under way.            *)
(***************************************************************************)
EXTENDS TaskRow, TLAPS

Working == {"clone", "baseSetup", "baseAccept", "stage", "setup", "accept", "judge"}
Staging == {"stage", "setup", "accept"}
Closing == {"archive", "remove", "store", "fill"}

\* Before the first stage nothing is recorded, while stages run none has passed
\* and one is left, and a row is judged after a pass only.
StageInv ==
  /\ pc \in {"clear", "halfCleared", "clone", "baseSetup", "baseAccept"} => verdicts = <<>> /\ status = "none"
  /\ pc \in Staging => status = "none" /\ Len(verdicts) < Stages
  /\ pc = "judge" => status = "solved"
  /\ pc \in Closing => status # "none"
  /\ pc = "clone" => attempt \in 1..3

\* The base stands in the workspace until the first agent.
BaseInv ==
  /\ pc = "baseSetup" => src = "base" /\ built = Empty
  /\ pc = "baseAccept" => src = "base" /\ \A d \in Dirs : built[d] \in {NoBuild, "base"}

\* A setup that succeeded has built the source, if the validator looks at its tree.
BuildInv ==
  pc = "accept" /\ setupOk /\ "setup" \in Linkable => built["setup"] = src

\* SolvedIsReal: from the verdict until the archive is packed, unless a judge runs.
RealInv ==
  /\ pc \in {"judge", "archive"} /\ status = "solved" /\ Untouched
  /\ conf.validator.library = "own" \/ OnlyBuild
  => Accepts(src)

\* The workspace is there from the clone until the archive holds it, and the result
\* comes after both.
DiskInv ==
  /\ pc \in (Working \cup Closing) \ {"fill"} => stored = "none"
  /\ pc = "fill" => stored = "torn"
  /\ pc \in (Working \ {"clone"}) \cup {"archive"} => present
  /\ pc \in {"remove", "store", "fill"} =>
       /\ Packed
       /\ status = "solved" /\ judges = <<>> /\ conf.validator.library = "own"
            => Accepts(archived)

\* The engines the first n entries of the row's judge_engines name.
Asked(n) == Engines \cap {conf.engines[i] : i \in 1..n}

\* While a row is judged, the engines it went through have an entry; the others none.
JudgeInv ==
  /\ pc \in {"clear"} \cup (Working \ {"judge"}) => judges = <<>> /\ asked = 0 /\ tries = 0
  /\ pc = "judge" => /\ DOMAIN judges = Asked(asked)
                     /\ tries # 0 => asked < Len(conf.engines) /\ conf.engines[asked + 1] \in Engines
  /\ pc \in Closing => tries = 0
  /\ pc \in Closing /\ status = "solved" => DOMAIN judges = Asked(Len(conf.engines))

-----------------------------------------------------------------------------
\* The kinds of validator: one that builds for itself also takes the interface of
\* what it built, and each other links what the setup commands leave.
LEMMA ValidatorKinds ==
  \A v \in Validators :
    /\ v.library \in {"setup", "any", "own"}
    /\ v.interface \in {"setup", "any", "source", "own"}
    /\ v.library = "own" => v.interface = "own"
BY DEF Validators, CMakeTree, FpmTrees, CApi, OwnBuild, bspline_41, csv_21, datetime_74,
  json_454, json_479, stdlib_543, stdlib_600, toml_55, dop853_10, quadpack_22, roots_26, roots_27,
  json_570, rklib_19, testdrive_42, toml_104, minpack_29, json_504, minpack_42, testdrive_18

\* A verdict is a truth value.
LEMMA VerdictType == Verdict \subseteq BOOLEAN
<1>1. \A v : Accepts(v) \in BOOLEAN
  BY DEF Accepts
<1> QED
  BY <1>1, Zenon DEF Verdict

\* Nothing recorded: no verdict, and no entry of a judge.
LEMMA EmptyRecord == /\ <<>> \in Seq(BOOLEAN) /\ Len(<<>>) = 0 /\ DOMAIN <<>> = {}
                     /\ Empty \in Trees
<1>1. <<>> \in Seq(BOOLEAN) /\ Len(<<>>) = 0
  OBVIOUS
<1>2. DOMAIN <<>> = 1..Len(<<>>)
  OBVIOUS
<1>3. Empty \in Trees
  BY DEF Empty, Trees, NoBuild
<1> QED
  BY <1>1, <1>2, <1>3

\* Every step keeps the types and what the place in run_task_row says of the stages.
LEMMA TypesStep == TypeOK /\ StageInv /\ [Next]_vars => TypeOK' /\ StageInv'
<1> SUFFICES ASSUME TypeOK, StageInv, [Next]_vars PROVE TypeOK' /\ StageInv'
  OBVIOUS
<1> USE ConstAssumption
    DEF TypeOK, StageInv, Staging, Closing, workspace, judging, record, disk, RmTree, CutShort
<1>1. CASE UNCHANGED vars
  BY <1>1 DEF vars
<1>2. CASE Start /\ UNCHANGED conf
  <2>1. present' \in BOOLEAN /\ src' \in Versions /\ built' \in Trees
    BY <1>2, EmptyRecord DEF Start, Versions
  <2>2. Len(conf.engines) \in Nat
    BY DEF Configs
  <2>3. /\ verdicts' \in Seq(BOOLEAN) /\ Len(verdicts') <= Stages
        /\ \A e \in DOMAIN judges' : e \in Engines /\ judges'[e] \in {"ok", "error"}
    <3>1. verdicts' = <<>> /\ judges' = <<>>
      BY <1>2 DEF Start
    <3> QED
      BY <3>1, EmptyRecord
  <2>4. /\ conf' \in Configs /\ attempt' \in 0..3 /\ runs' \in 0..MaxRuns /\ tries' \in {0, 1}
        /\ archived' \in Versions \cup {"none", "half"}
        /\ stored' \in {"none", "torn", "solved", "failed", "error"}
    BY <1>2 DEF Start
  <2>5. setupOk' \in BOOLEAN
    BY <1>2 DEF Start
  <2>6. pc' = "clear" /\ verdicts' = <<>> /\ status' = "none"
    BY <1>2 DEF Start
  <2>7. asked' = 0 /\ conf' = conf
    BY <1>2 DEF Start
  <2>8. asked' \in 0..Len(conf'.engines)
    BY <2>2, <2>7
  <2> QED
    BY <2>1, <2>3, <2>4, <2>6, <2>8, <2>5
<1>E. CASE ClearEntry /\ UNCHANGED conf
  <2>1. present' \in BOOLEAN /\ src' \in Versions /\ built' \in Trees
    BY <1>E, EmptyRecord DEF ClearEntry, Versions
  <2>2. /\ archived' \in Versions \cup {"none", "half"}
        /\ stored' \in {"none", "torn", "solved", "failed", "error"}
    BY <1>E DEF ClearEntry
  <2> QED
    BY <1>E, <2>1, <2>2 DEF ClearEntry
<1>C. CASE Cleared /\ UNCHANGED conf
  BY <1>C DEF Cleared
<1>3. CASE CloneOk /\ UNCHANGED conf
  BY <1>3 DEF CloneOk, Empty, Trees, NoBuild, Versions
<1>4. CASE CloneFails /\ UNCHANGED conf
  <2>1. present' \in BOOLEAN /\ src' \in Versions /\ built' \in Trees
    BY <1>4, EmptyRecord DEF CloneFails, Versions
  <2>2. /\ pc' \in {"clone", "raised"} /\ attempt' \in 0..3
        /\ pc' = "clone" => attempt' \in 1..3
    BY <1>4 DEF CloneFails
  <2> QED
    BY <1>4, <2>1, <2>2 DEF CloneFails
<1>5. CASE Setup /\ UNCHANGED conf
  <2>1. built' \in Trees
    BY <1>5 DEF Setup, Trees, Dirs, Versions
  <2> QED
    BY <1>5, <2>1 DEF Setup
<1>6. CASE BaseAccept /\ UNCHANGED conf
  BY <1>6 DEF BaseAccept
<1>7. CASE Stage /\ UNCHANGED conf
  BY <1>7 DEF Stage, AgentWorks, Versions
<1>8. CASE Accept /\ UNCHANGED conf
  <2>1. PICK ok \in BOOLEAN :
          /\ verdicts' = Append(verdicts, ok)
          /\ IF ok THEN status' = "solved" /\ pc' = "judge"
             ELSE IF Len(verdicts') = Stages THEN status' = "failed" /\ pc' = "archive"
             ELSE status' = status /\ pc' = "stage"
    BY <1>8, VerdictType DEF Accept
  <2>2. verdicts' \in Seq(BOOLEAN) /\ Len(verdicts') = Len(verdicts) + 1 /\ Len(verdicts) < Stages
    BY <1>8, <2>1 DEF Accept
  <2> QED
    BY <1>8, <2>1, <2>2 DEF Accept
<1>9. CASE Judge /\ UNCHANGED conf
  <2>0. present' = present /\ src' \in Versions /\ built' \in Trees
    BY <1>9 DEF Judge, AgentWorks, Versions
  <2>1. asked' \in 0..Len(conf.engines) /\ tries' \in {0, 1} /\ pc' \in {"judge", "raised"}
    <3>1. Len(conf.engines) \in Nat
      BY DEF Configs
    <3> QED
      BY <1>9, <3>1 DEF Judge, NextEngine, Retries
  <2>2. \A e \in DOMAIN judges' : e \in Engines /\ judges'[e] \in {"ok", "error"}
    BY <1>9 DEF Judge, NextEngine, Entered
  <2> QED
    BY <1>9, <2>0, <2>1, <2>2 DEF Judge
<1>10. CASE Judged /\ UNCHANGED conf
  BY <1>10 DEF Judged
<1>11. CASE Archive /\ UNCHANGED conf
  BY <1>11 DEF Archive
<1>12. CASE Remove /\ UNCHANGED conf
  BY <1>12 DEF Remove, Empty, Trees, NoBuild, Versions
<1>13. CASE (Store \/ Fill) /\ UNCHANGED conf
  BY <1>13 DEF Store, Fill
<1>14. CASE (Raise \/ Crash) /\ UNCHANGED conf
  BY <1>14 DEF Raise, Crash, Ended
<1> QED
  BY <1>1, <1>2, <1>E, <1>C, <1>3, <1>4, <1>5, <1>6, <1>7, <1>8, <1>9, <1>10, <1>11, <1>12, <1>13, <1>14
  DEF Next, Step, Other

LEMMA TypesInit == Init => TypeOK /\ StageInv
<1> SUFFICES ASSUME Init PROVE TypeOK /\ StageInv
  OBVIOUS
<1>1. Len(conf.engines) \in Nat
  BY DEF Init, Configs
<1>2. /\ verdicts \in Seq(BOOLEAN) /\ Len(verdicts) <= Stages
      /\ \A e \in DOMAIN judges : e \in Engines /\ judges[e] \in {"ok", "error"}
  <2>1. verdicts = <<>> /\ judges = <<>>
    BY DEF Init
  <2> QED
    BY <2>1, EmptyRecord, ConstAssumption
<1>3. /\ conf \in Configs /\ attempt \in 0..3 /\ runs \in 0..MaxRuns /\ src \in Versions
      /\ built \in Trees /\ tries \in {0, 1}
      /\ archived \in Versions \cup {"none", "half"}
      /\ stored \in {"none", "torn", "solved", "failed", "error"}
  BY EmptyRecord, ConstAssumption DEF Init, Versions
<1>4. present \in BOOLEAN /\ setupOk \in BOOLEAN
  BY DEF Init
<1>5. pc = "idle" /\ status = "none" /\ asked = 0
  BY DEF Init
<1>6. asked \in 0..Len(conf.engines)
  BY <1>1, <1>5
<1> QED
  BY <1>2, <1>3, <1>5, <1>6, <1>4 DEF TypeOK, StageInv, Staging, Closing

\* The variables of run_task_row keep their types; no row runs more than its stages.
THEOREM TypeCorrect == Spec => []TypeOK
BY TypesInit, TypesStep, PTL DEF Spec

-----------------------------------------------------------------------------
(* The stages.                                                               *)

\* Where an accepted stage leads, and where one that is not.
LEMMA AcceptStep ==
  ASSUME TypeOK, StageInv, Accept
  PROVE  \E ok \in Verdict :
           /\ verdicts' = Append(verdicts, ok)
           /\ \/ ok = TRUE /\ status' = "solved" /\ pc' = "judge"
              \/ ok = FALSE /\ status' = "failed" /\ pc' = "archive" /\ Len(verdicts) + 1 = Stages
              \/ ok = FALSE /\ status' = "none" /\ pc' = "stage"
<1>1. PICK ok \in Verdict :
        /\ verdicts' = Append(verdicts, ok)
        /\ IF ok THEN status' = "solved" /\ pc' = "judge"
           ELSE IF Len(verdicts') = Stages THEN status' = "failed" /\ pc' = "archive"
           ELSE status' = status /\ pc' = "stage"
  BY DEF Accept
<1>2. ok \in BOOLEAN /\ status = "none"
  BY VerdictType DEF Accept, StageInv, Staging
<1>3. Len(verdicts') = Len(verdicts) + 1
  BY <1>1, <1>2 DEF TypeOK
<1>4. CASE ok = TRUE
  BY <1>1, <1>4
<1>5. CASE ok = FALSE
  BY <1>1, <1>2, <1>3, <1>5
<1> QED
  BY <1>2, <1>4, <1>5

LEMMA StagePolicyStep ==
  TypeOK /\ StageInv /\ StagePolicy /\ [Next]_vars => StagePolicy'
<1> SUFFICES ASSUME TypeOK, StageInv, StagePolicy, [Next]_vars PROVE StagePolicy'
  OBVIOUS
<1> USE DEF StagePolicy, workspace, judging, record, disk
<1>1. CASE UNCHANGED vars
  BY <1>1 DEF vars
<1>2. CASE Start
  <2>1. verdicts' = <<>> /\ Len(verdicts') = 0 /\ status' = "none"
    BY <1>2, EmptyRecord DEF Start
  <2> QED
    BY <2>1
<1>3. CASE ClearEntry \/ Cleared \/ CloneOk \/ CloneFails \/ Setup
  BY <1>3 DEF ClearEntry, Cleared, CloneOk, CloneFails, Setup, StageInv, Staging
<1>4. CASE BaseAccept
  <2>1. UNCHANGED verdicts /\ verdicts = <<>> /\ Len(verdicts) = 0
    BY <1>4, EmptyRecord DEF BaseAccept, StageInv
  <2>2. status' = "none" \/ (status' = "error" /\ pc' = "archive")
    BY <1>4 DEF BaseAccept, StageInv
  <2> QED
    BY <2>1, <2>2
<1>5. CASE Stage
  BY <1>5 DEF Stage, StageInv, Staging
<1>6. CASE Accept
  <2>1. PICK ok \in Verdict :
          /\ verdicts' = Append(verdicts, ok)
          /\ \/ ok = TRUE /\ status' = "solved" /\ pc' = "judge"
             \/ ok = FALSE /\ status' = "failed" /\ pc' = "archive" /\ Len(verdicts) + 1 = Stages
             \/ ok = FALSE /\ status' = "none" /\ pc' = "stage"
    BY <1>6, AcceptStep
  <2>2. /\ Len(verdicts) \in Nat /\ Len(verdicts') = Len(verdicts) + 1
        /\ verdicts'[Len(verdicts) + 1] = ok
        /\ \A i \in 1..Len(verdicts) : verdicts'[i] = verdicts[i]
    BY <2>1, VerdictType DEF TypeOK
  <2>3. status = "none"
    BY <1>6 DEF Accept, StageInv, Staging
  <2>4. \A i \in 1..Len(verdicts) : ~verdicts[i]
    BY <2>3
  <2>5. ASSUME NEW i \in 1..Len(verdicts'), verdicts'[i]
        PROVE  i = Len(verdicts') /\ status' = "solved"
    BY <2>1, <2>2, <2>4, <2>5
  <2> QED
    BY <2>1, <2>2, <2>5
<1>7. CASE Judge \/ Judged \/ Archive \/ Remove \/ Store \/ Fill
  BY <1>7 DEF Judge, NextEngine, Judged, Archive, Remove, Store, Fill, StageInv
<1>8. CASE Raise \/ Crash
  BY <1>8 DEF Raise, Crash, Ended
<1> QED
  BY <1>1, <1>2, <1>3, <1>4, <1>5, <1>6, <1>7, <1>8 DEF Next, Step, Other

\* Only the last stage has passed, and a row failed only when every stage was used.
THEOREM StagesFollowPolicy == Spec => []StagePolicy
<1>1. Init => StagePolicy
  <2> SUFFICES ASSUME Init PROVE StagePolicy
    OBVIOUS
  <2>1. verdicts = <<>> /\ Len(verdicts) = 0 /\ status = "none"
    BY EmptyRecord DEF Init
  <2> QED
    BY <2>1 DEF StagePolicy
<1> QED
  BY <1>1, TypesInit, TypesStep, StagePolicyStep, PTL DEF Spec

-----------------------------------------------------------------------------
(* The workspace.                                                            *)

LEMMA BaseStep == BaseInv /\ [Next]_vars => BaseInv'
<1> SUFFICES ASSUME BaseInv, [Next]_vars PROVE BaseInv'
  OBVIOUS
<1> USE DEF BaseInv, workspace, judging, record, disk
<1>1. CASE UNCHANGED vars
  BY <1>1 DEF vars
<1>2. CASE Start \/ ClearEntry \/ Cleared
  BY <1>2 DEF Start, ClearEntry, Cleared
<1>3. CASE CloneOk \/ CloneFails
  BY <1>3 DEF CloneOk, CloneFails
<1>4. CASE Setup
  <2>1. pc = "baseSetup" => /\ src = "base" /\ src' = src
                           /\ built' \in {Empty, [Empty EXCEPT !["setup"] = "base"]}
    BY <1>4 DEF Setup
  <2> QED
    BY <1>4, <2>1 DEF Setup, Empty, Dirs, NoBuild
<1>5. CASE BaseAccept \/ Stage \/ Accept \/ Judge \/ Judged \/ Archive \/ Remove \/ Store \/ Fill
  BY <1>5 DEF BaseAccept, Stage, Accept, Judge, NextEngine, Judged, Archive, Remove, Store, Fill
<1>6. CASE Raise \/ Crash
  BY <1>6 DEF Raise, Crash, Ended
<1> QED
  BY <1>1, <1>2, <1>3, <1>4, <1>5, <1>6 DEF Next, Step, Other

\* The base is judged on the base commit and its own build.
THEOREM BaseIsClean == Spec => []CleanWorkspace
<1>1. Init => BaseInv
  BY DEF Init, BaseInv
<1>2. BaseInv => CleanWorkspace
  BY DEF BaseInv, CleanWorkspace, Empty, Dirs
<1> QED
  BY <1>1, <1>2, BaseStep, PTL DEF Spec

-----------------------------------------------------------------------------
(* The engines that were asked.                                              *)

\* One engine more, and no engine after the last.
LEMMA AskedNext ==
  ASSUME TypeOK, asked < Len(conf.engines)
  PROVE  /\ asked + 1 \in 1..Len(conf.engines)
         /\ Asked(asked + 1) = Asked(asked) \cup (Engines \cap {conf.engines[asked + 1]})
<1>1. asked \in Nat /\ Len(conf.engines) \in Nat
  BY DEF TypeOK, Configs
<1>2. 1..(asked + 1) = (1..asked) \cup {asked + 1}
  BY <1>1
<1> QED
  BY <1>1, <1>2 DEF Asked

LEMMA JudgeStep == TypeOK /\ StageInv /\ JudgeInv /\ [Next]_vars => JudgeInv'
<1> SUFFICES ASSUME TypeOK, StageInv, JudgeInv, [Next]_vars PROVE JudgeInv'
  OBVIOUS
<1> USE DEF JudgeInv, Working, Closing, workspace, judging, record, disk
<1>1. CASE UNCHANGED vars
  BY <1>1 DEF vars, Asked
<1>2. CASE Start
  BY <1>2 DEF Start
<1>3. CASE (ClearEntry \/ Cleared \/ CloneOk \/ CloneFails \/ Setup \/ Stage) /\ UNCHANGED conf
  BY <1>3 DEF ClearEntry, Cleared, CloneOk, CloneFails, Setup, Stage
<1>4. CASE BaseAccept /\ UNCHANGED conf
  BY <1>4 DEF BaseAccept, StageInv
<1>5. CASE Accept /\ UNCHANGED conf
  <2>1. /\ UNCHANGED judging
        /\ \/ pc' = "judge"
           \/ pc' = "archive" /\ status' = "failed"
           \/ pc' = "stage"
    BY <1>5, AcceptStep DEF Accept
  <2>2. judges' = <<>> /\ asked' = 0 /\ tries' = 0
    BY <1>5, <2>1 DEF Accept
  <2>3. DOMAIN judges' = Asked(0)
    BY <2>2, EmptyRecord DEF Asked
  <2> QED
    BY <1>5, <2>1, <2>2, <2>3 DEF Asked
<1>6. CASE Judge /\ UNCHANGED conf
  <2> DEFINE engine == conf.engines[asked + 1]
  <2>1. Asked(asked + 1) = Asked(asked) \cup (Engines \cap {engine})
    BY <1>6, AskedNext DEF Judge
  <2>2. DOMAIN judges = Asked(asked)
    BY <1>6 DEF Judge
  <2>3. \/ pc' = "raised"
        \/ pc' = "judge" /\ asked' = asked /\ judges' = judges /\ engine \in Engines
        \/ /\ pc' = "judge" /\ asked' = asked + 1 /\ engine \notin Engines /\ judges' = judges
           /\ tries' = 0
        \/ /\ pc' = "judge" /\ asked' = asked + 1 /\ engine \in Engines /\ tries' = 0
           /\ judges' = Entered(engine, "ok") \/ judges' = Entered(engine, "error")
    BY <1>6 DEF Judge, NextEngine
  <2>6. asked < Len(conf.engines)
    BY <1>6 DEF Judge
  <2>4. \A x : DOMAIN Entered(engine, x) = DOMAIN judges \cup {engine}
    BY DEF Entered
  <2>5. \A n : Asked(n)' = Asked(n)
    BY <1>6 DEF Asked
  <2> QED
    BY <1>6, <2>1, <2>2, <2>3, <2>4, <2>5, <2>6
<1>7. CASE Judged /\ UNCHANGED conf
  <2>1. Len(conf.engines) \in Nat
    BY DEF TypeOK, Configs
  <2> QED
    BY <1>7, <2>1 DEF Judged, Asked
<1>8. CASE (Archive \/ Remove \/ Store \/ Fill) /\ UNCHANGED conf
  BY <1>8 DEF Archive, Remove, Store, Fill, Asked
<1>9. CASE (Raise \/ Crash) /\ UNCHANGED conf
  BY <1>9 DEF Raise, Crash, Ended
<1> QED
  BY <1>1, <1>2, <1>3, <1>4, <1>5, <1>6, <1>7, <1>8, <1>9 DEF Next, Step, Other

-----------------------------------------------------------------------------
(* The verdict of the validator and the source it is about.                  *)

\* A validator that passes has linked a library it accepts.
LEMMA PassHasLibrary ==
  ASSUME TRUE \in Verdict
  PROVE  \E l \in Links : Accepts(l[1])
<1>1. CASE Links = {}
  BY <1>1 DEF Verdict
<1>2. CASE Links # {}
  <2>1. TRUE \in {Accepts(l[1]) : l \in Links}
    BY <1>2 DEF Verdict
  <2> QED
    BY <2>1, Zenon
<1> QED
  BY <1>1, <1>2

\* A validator that builds for itself links the source; one that finds a tree links
\* the source too, where the last setup built it and there is no other tree.
LEMMA LinksTheSource ==
  ASSUME TypeOK, BuildInv, pc = "accept",
         conf.validator.library = "own" \/ OnlyBuild,
         NEW l \in Links
  PROVE  l[1] = src
<1>1. l[1] \in Holds[conf.validator.library]
  BY DEF Links
<1>2. conf.validator.library \in {"setup", "any", "own"}
  BY ValidatorKinds DEF TypeOK, Configs
<1>3. CASE conf.validator.library = "own"
  BY <1>1, <1>3 DEF Holds
<1>4. CASE conf.validator.library = "setup" /\ OnlyBuild
  <2>1. built["setup"] = src
    BY <1>4 DEF OnlyBuild, BuildInv, Linkable, Dirs
  <2> QED
    BY <1>1, <1>4, <2>1 DEF Holds
<1>5. CASE conf.validator.library = "any" /\ OnlyBuild
  <2>1. built["setup"] = src /\ built["other"] = NoBuild
    BY <1>5 DEF OnlyBuild, BuildInv, Linkable, Dirs
  <2>2. l[1] \in {built[d] : d \in Dirs} \ {NoBuild}
    BY <1>1, <1>5 DEF Holds
  <2> QED
    BY <2>1, <2>2 DEF Dirs
<1> QED
  BY <1>2, <1>3, <1>4, <1>5

LEMMA BuildStep == TypeOK /\ BuildInv /\ [Next]_vars => BuildInv'
<1> SUFFICES ASSUME TypeOK, BuildInv, [Next]_vars PROVE BuildInv'
  OBVIOUS
<1> USE DEF BuildInv, workspace, judging, record, disk
<1>1. CASE UNCHANGED vars
  BY <1>1 DEF vars, Linkable
<1>2. CASE Start \/ ClearEntry \/ Cleared \/ CloneOk \/ CloneFails
  BY <1>2 DEF Start, ClearEntry, Cleared, CloneOk, CloneFails
<1>3. CASE Setup /\ UNCHANGED conf
  <2>1. \/ "setup" \notin Linkable
        \/ built' = [built EXCEPT !["setup"] = src]
        \/ setupOk' = FALSE
    BY <1>3 DEF Setup
  <2>2. Linkable' = Linkable /\ src' = src
    BY <1>3 DEF Setup, Linkable
  <2>3. "setup" \in DOMAIN built
    BY DEF TypeOK, Trees, Dirs
  <2> QED
    BY <2>1, <2>2, <2>3
<1>4. CASE BaseAccept \/ Stage \/ Accept \/ Judge \/ Judged \/ Archive \/ Remove \/ Store \/ Fill
  BY <1>4 DEF BaseAccept, Stage, Accept, Judge, NextEngine, Judged, Archive, Remove, Store, Fill
<1>5. CASE Raise \/ Crash
  BY <1>5 DEF Raise, Crash, Ended
<1> QED
  BY <1>1, <1>2, <1>3, <1>4, <1>5 DEF Next, Step, Other

LEMMA RealStep ==
  TypeOK /\ StageInv /\ BuildInv /\ JudgeInv /\ RealInv /\ [Next]_vars => RealInv'
<1> SUFFICES ASSUME TypeOK, StageInv, BuildInv, JudgeInv, RealInv, [Next]_vars,
                    pc' \in {"judge", "archive"}, status' = "solved", Untouched',
                    (conf.validator.library = "own" \/ OnlyBuild)'
             PROVE  Accepts(src)'
  BY DEF RealInv
<1> USE DEF workspace, judging, record, disk
<1>1. CASE UNCHANGED vars
  BY <1>1 DEF vars, RealInv, OnlyBuild, Untouched, Accepts
<1>2. CASE Start \/ ClearEntry \/ Cleared \/ CloneOk \/ CloneFails \/ Setup \/ Stage
  BY <1>2 DEF Start, ClearEntry, Cleared, CloneOk, CloneFails, Setup, Stage
<1>3. CASE BaseAccept
  BY <1>3 DEF BaseAccept, StageInv
<1>4. CASE Accept /\ UNCHANGED conf
  <2>1. TRUE \in Verdict
    BY <1>4, AcceptStep
  <2>2. pc = "accept" /\ UNCHANGED <<conf, src, built, setupOk>>
    BY <1>4 DEF Accept
  <2>3. conf.validator.library = "own" \/ OnlyBuild
    BY <2>2 DEF OnlyBuild
  <2>4. Accepts(src)
    BY <2>1, <2>2, <2>3, PassHasLibrary, LinksTheSource
  <2> QED
    BY <2>2, <2>4 DEF Accepts
<1>5. CASE Judge /\ UNCHANGED conf
  <2>1. CASE conf.engines[asked + 1] \notin Engines
    <3>1. pc = "judge" /\ judges' = judges /\ UNCHANGED <<conf, src, built, setupOk, status>>
      BY <1>5, <2>1 DEF Judge, NextEngine
    <3>2. tries = 0
      BY <1>5, <2>1 DEF JudgeInv, Judge
    <3> QED
      BY <3>1, <3>2 DEF RealInv, Untouched, OnlyBuild, Accepts
  <2>2. CASE conf.engines[asked + 1] \in Engines
    <3>1. \A x : Entered(conf.engines[asked + 1], x) # <<>>
      <4>1. \A x : conf.engines[asked + 1] \in DOMAIN Entered(conf.engines[asked + 1], x)
        BY DEF Entered
      <4> QED
        BY <4>1, EmptyRecord
    <3>2. \/ judges' \in {Entered(conf.engines[asked + 1], "ok"), Entered(conf.engines[asked + 1], "error")}
          \/ tries' = tries + 1
          \/ pc' = "raised"
      BY <1>5, <2>2 DEF Judge
    <3>3. tries \in Nat
      BY DEF TypeOK
    <3> QED
      BY <3>1, <3>2, <3>3 DEF Untouched
  <2> QED
    BY <2>1, <2>2
<1>J. CASE Judged /\ UNCHANGED conf
  <2>1. pc = "judge" /\ UNCHANGED <<conf, src, built, setupOk, status, judges, tries>>
    BY <1>J DEF Judged
  <2> QED
    BY <2>1 DEF RealInv, Untouched, OnlyBuild, Accepts
<1>6. CASE Archive \/ Remove \/ Store \/ Fill
  BY <1>6 DEF Archive, Remove, Store, Fill
<1>7. CASE Raise \/ Crash
  BY <1>7 DEF Raise, Crash, Ended
<1> QED
  BY <1>1, <1>2, <1>3, <1>4, <1>5, <1>J, <1>6, <1>7 DEF Next, Step, Other

\* No row is solved by a stale build, but by a second tree or after a failed setup.
THEOREM SolvedByItsSource == Spec => []SolvedIsReal
<1>1. Init => BuildInv /\ JudgeInv /\ RealInv
  BY DEF Init, BuildInv, JudgeInv, RealInv, Working, Closing
<1>2. RealInv => SolvedIsReal
  BY DEF RealInv, SolvedIsReal
<1> QED
  BY <1>1, <1>2, TypesInit, TypesStep, BuildStep, JudgeStep, RealStep, PTL DEF Spec

-----------------------------------------------------------------------------
(* The archive and the result.                                               *)

LEMMA DiskStep ==
  TypeOK /\ StageInv /\ JudgeInv /\ RealInv /\ DiskInv /\ ResultAfterArchive /\ [Next]_vars
    => DiskInv' /\ ResultAfterArchive'
<1> SUFFICES ASSUME TypeOK, StageInv, JudgeInv, RealInv, DiskInv, ResultAfterArchive, [Next]_vars
             PROVE  DiskInv' /\ ResultAfterArchive'
  OBVIOUS
<1> USE DEF DiskInv, ResultAfterArchive, Packed, Clearing, Working, Closing, workspace, judging,
            record, disk
<1>1. CASE UNCHANGED vars
  BY <1>1 DEF vars, Accepts
<1>2. CASE Start \/ ClearEntry
  BY <1>2 DEF Start, ClearEntry
<1>C. CASE Cleared /\ UNCHANGED conf
  BY <1>C DEF Cleared, StageInv
<1>3. CASE (CloneOk \/ CloneFails) /\ UNCHANGED conf
  BY <1>3 DEF CloneOk, CloneFails, StageInv, Accepts
<1>4. CASE (Setup \/ Stage) /\ UNCHANGED conf
  BY <1>4 DEF Setup, Stage, StageInv, Staging
<1>5. CASE BaseAccept /\ UNCHANGED conf
  BY <1>5 DEF BaseAccept, StageInv
<1>6. CASE Accept /\ UNCHANGED conf
  <2>1. pc = "accept" /\ pc' \in {"judge", "archive", "stage"} /\ UNCHANGED <<present, archived, stored>>
    BY <1>6 DEF Accept
  <2> QED
    BY <1>6, <2>1
<1>7. CASE (Judge \/ Judged) /\ UNCHANGED conf
  <2>1. pc = "judge" /\ pc' \in {"judge", "archive", "raised"} /\ UNCHANGED <<present, archived, stored>>
    BY <1>7 DEF Judge, NextEngine, Judged
  <2> QED
    BY <2>1
<1>8. CASE Archive /\ UNCHANGED conf
  BY <1>8 DEF Archive, RealInv, JudgeInv, Untouched, Accepts, TypeOK, Versions
<1>9. CASE Remove /\ UNCHANGED conf
  BY <1>9 DEF Remove, Accepts
<1>10. CASE (Store \/ Fill) /\ UNCHANGED conf
  BY <1>10 DEF Store, Fill, Accepts, TypeOK
<1>11. CASE (Raise \/ Crash) /\ UNCHANGED conf
  <2>1. /\ UNCHANGED <<conf, status, present, stored>>
        /\ pc' \in {"raised", "idle", "halfCleared"} /\ (pc = "clear" => pc' = "halfCleared")
    BY <1>11 DEF Raise, Crash, Ended
  <2>2. pc # "archive" => archived' = archived
    BY <1>11 DEF Raise, Crash, CutShort
  <2>3. pc \in {"clear"} \cup Working \cup Closing
    BY <1>11 DEF Raise, Crash, TypeOK
  <2>4. CASE pc = "fill"
    BY <2>1, <2>2, <2>4 DEF TypeOK
  <2>5. CASE pc # "fill"
    BY <2>1, <2>2, <2>3, <2>5
  <2> QED
    BY <2>4, <2>5
<1> QED
  BY <1>1, <1>2, <1>C, <1>3, <1>4, <1>5, <1>6, <1>7, <1>8, <1>9, <1>10, <1>11 DEF Next, Step, Other

\* The result is written after the archive, and what was judged is never lost; only a
\* removal of the old directory that is cut short leaves an old result without it.
THEOREM ResultIsLast == Spec => []ResultAfterArchive
<1>1. Init => BuildInv /\ JudgeInv /\ RealInv /\ DiskInv /\ ResultAfterArchive
  BY DEF Init, BuildInv, JudgeInv, RealInv, DiskInv, ResultAfterArchive, Working, Closing
<1> QED
  BY <1>1, TypesInit, TypesStep, BuildStep, JudgeStep, RealStep, DiskStep, PTL DEF Spec

-----------------------------------------------------------------------------
(* What the judges leave.                                                    *)

LEMMA JudgesCompleteStep ==
  TypeOK /\ StageInv /\ JudgeInv /\ DiskInv /\ JudgesComplete /\ [Next]_vars => JudgesComplete'
<1> SUFFICES ASSUME TypeOK, StageInv, JudgeInv, DiskInv, JudgesComplete, [Next]_vars
             PROVE  JudgesComplete'
  OBVIOUS
<1> USE DEF JudgesComplete, Clearing, Working, Closing, workspace, judging, record, disk
<1>1. CASE UNCHANGED vars
  BY <1>1 DEF vars
<1>2. CASE Start \/ (ClearEntry /\ UNCHANGED conf)
  BY <1>2 DEF Start, ClearEntry
<1>3. CASE (Cleared \/ CloneOk \/ CloneFails \/ Setup \/ Stage) /\ UNCHANGED conf
  BY <1>3 DEF Cleared, CloneOk, CloneFails, Setup, Stage
<1>4. CASE (BaseAccept \/ Accept) /\ UNCHANGED conf
  BY <1>4 DEF BaseAccept, Accept, JudgeInv, DiskInv
<1>5. CASE (Judge \/ Judged) /\ UNCHANGED conf
  <2>1. pc = "judge" /\ status' = status /\ stored' = stored
    BY <1>5 DEF Judge, Judged
  <2> QED
    BY <2>1 DEF StageInv, DiskInv
<1>6. CASE (Archive \/ Remove) /\ UNCHANGED conf
  BY <1>6 DEF Archive, Remove
<1>7. CASE (Store \/ Fill) /\ UNCHANGED conf
  BY <1>7 DEF Store, Fill, JudgeInv, Asked
<1>8. CASE (Raise \/ Crash) /\ UNCHANGED conf
  BY <1>8 DEF Raise, Crash, Ended
<1> QED
  BY <1>1, <1>2, <1>3, <1>4, <1>5, <1>6, <1>7, <1>8 DEF Next, Step, Other

\* A solved result has heard every judge that was asked for, and only it has any.
THEOREM EveryJudgeHeard == Spec => []JudgesComplete
<1>1. Init => BuildInv /\ RealInv /\ DiskInv /\ ResultAfterArchive /\ JudgeInv /\ JudgesComplete
  BY DEF Init, BuildInv, RealInv, DiskInv, ResultAfterArchive, JudgeInv, JudgesComplete, Working,
         Closing
<1> QED
  BY <1>1, TypesInit, TypesStep, BuildStep, RealStep, DiskStep, JudgeStep, JudgesCompleteStep, PTL
  DEF Spec

=============================================================================
