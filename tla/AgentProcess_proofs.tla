------------------------ MODULE AgentProcess_proofs ------------------------
(***************************************************************************)
(* What _run_command promises of a stage that has returned, for every       *)
(* budget and every set of tools an agent may start.                        *)
(*                                                                         *)
(* The argument: only a live agent that was not told to go starts tools, so *)
(* the group that was signalled when the budget was used up never grows.    *)
(***************************************************************************)
EXTENDS AgentProcess, TLAPS

\* A live agent leads its group, and once it is dead and its pipes are closed the runner
\* goes on.
AgentInv ==
  /\ Agent \in alive => Agent \in group
  /\ pc = "returned" => Agent \notin alive /\ pipes = {}

\* After SIGTERM to the group of an agent that obeys it, all of the group that is left
\* was told to go or does not listen, and nothing joins it.
GroupInv ==
  timedOut /\ conf.permission = "group" /\ Agent \notin conf.deaf =>
    /\ Agent \in alive => Agent \in signalled
    /\ group \subseteq signalled \cup conf.deaf

StageInv == AgentInv /\ GroupInv

-----------------------------------------------------------------------------
(* The type invariant.                                                       *)

LEMMA TypeInductive == TypeOK /\ [Next]_vars => TypeOK'
<1> SUFFICES ASSUME TypeOK, [Next]_vars PROVE TypeOK'
  OBVIOUS
<1> USE ConstAssumption DEF TypeOK
<1>1. CASE Runner
  <2>1. CASE Finished \/ Refuse \/ Join
    BY <1>1, <2>1 DEF Runner, Finished, Refuse, Join, world
  <2>2. CASE Slice
    BY <1>1, <2>2 DEF Runner, Slice, Polling, world
  <2>3. CASE Terminate
    <3>1. group \subseteq alive /\ alive \cap {Agent} \subseteq alive
      OBVIOUS
    <3> QED
      BY <1>1, <2>3, <3>1 DEF Runner, Terminate
  <2>4. CASE Fallback
    BY <1>1, <2>4 DEF Runner, Fallback
  <2> QED
    BY <1>1, <2>1, <2>2, <2>3, <2>4 DEF Runner
<1>2. ASSUME NEW t \in Tools, StartTool(t) \/ Escape(t), UNCHANGED conf PROVE TypeOK'
  <2>1. t \in Procs
    BY DEF Procs
  <2> HIDE DEF Procs
  <2> QED
    BY <1>2, <2>1 DEF StartTool, Escape
<1>3. ASSUME NEW p \in Procs, Die(p), UNCHANGED conf PROVE TypeOK'
  BY <1>3 DEF Die
<1>4. CASE UNCHANGED vars
  BY <1>4 DEF vars, world
<1> QED
  BY <1>1, <1>2, <1>3, <1>4 DEF Next, World

LEMMA TypesInit == Init => TypeOK
<1> SUFFICES ASSUME Init PROVE TypeOK
  OBVIOUS
<1>1. elapsed \in 0..Budget
  BY ConstAssumption DEF Init
<1>2. alive \subseteq Procs /\ pipes \subseteq alive /\ group \subseteq alive /\ signalled \subseteq alive
  BY DEF Init, Procs
<1> QED
  BY <1>1, <1>2 DEF Init, TypeOK

\* The variables of a stage always have the types AgentProcess gives them.
THEOREM TypeCorrect == Spec => []TypeOK
BY TypesInit, TypeInductive, PTL DEF Spec

-----------------------------------------------------------------------------
(* The group.                                                                *)

LEMMA StageInductive == TypeOK /\ StageInv /\ [Next]_vars => StageInv'
<1> SUFFICES ASSUME TypeOK, StageInv, [Next]_vars PROVE StageInv'
  OBVIOUS
<1> USE DEF StageInv, AgentInv, GroupInv
<1>1. CASE Runner
  <2>1. CASE Finished \/ Slice \/ Refuse \/ Join
    BY <1>1, <2>1 DEF Runner, Finished, Slice, Refuse, Join, Eof, world
  <2>2. CASE Terminate
    <3>1. conf' = conf /\ alive' = alive /\ group' = group /\ pc' \in {"join", "fallback"}
      BY <1>1, <2>2 DEF Runner, Terminate
    <3>2. conf.permission = "group" => signalled' = signalled \cup (group \ conf.deaf)
      BY <2>2 DEF Terminate
    <3> QED
      BY <3>1, <3>2
  <2>3. CASE Fallback
    <3>1. /\ conf' = conf /\ alive' = alive /\ group' = group /\ pc' = "join"
          /\ timedOut' = timedOut /\ signalled \subseteq signalled'
      BY <1>1, <2>3 DEF Runner, Fallback
    <3> QED
      BY <3>1
  <2> QED
    BY <1>1, <2>1, <2>2, <2>3 DEF Runner
<1>2. ASSUME NEW t \in Tools, StartTool(t), UNCHANGED conf PROVE StageInv'
  BY <1>2 DEF StartTool
<1>3. ASSUME NEW t \in Tools, Escape(t), UNCHANGED conf PROVE StageInv'
  <2>1. t # Agent
    BY ConstAssumption
  <2> QED
    BY <1>3, <2>1 DEF Escape
<1>4. ASSUME NEW p \in Procs, Die(p), UNCHANGED conf PROVE StageInv'
  BY <1>4 DEF Die
<1>5. CASE UNCHANGED vars
  BY <1>5 DEF vars, world
<1> QED
  BY <1>1, <1>2, <1>3, <1>4, <1>5 DEF Next, World

LEMMA StageInit == Init => StageInv
BY DEF Init, StageInv, AgentInv, GroupInv

\* A stage that has returned has all the output of its agent, which is dead, and what is
\* left of a group that was sent SIGTERM is going or does not listen.
THEOREM NothingPending == Spec => []NothingPendingAfterReturn
<1>1. TypeOK /\ StageInv /\ [Next]_vars => StageInv'
  BY StageInductive
<1>2. StageInv => NothingPendingAfterReturn
  BY DEF StageInv, AgentInv, GroupInv, NothingPendingAfterReturn
<1> QED
  BY <1>1, <1>2, TypeCorrect, StageInit, PTL DEF Spec
=============================================================================
