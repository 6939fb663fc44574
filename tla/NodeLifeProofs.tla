---------------------------- MODULE NodeLifeProofs ----------------------------
(***************************************************************************)
(* Proofs about NodeLife, for every value of its constants: the types, the *)
(* bound on restarts over all lives of a node, leaks, what a Shutdown      *)
(* leaves and that it goes on, the capacity, and that it implements        *)
(* NodeContract. Most steps of a node are steps of AgentLifecycle, and its *)
(* invariants are kept by these for the reasons given in                   *)
(* AgentLifecycleProofs. What is new are the end of a process (Dies) and   *)
(* the steps of a start.                                                   *)
(***************************************************************************)
EXTENDS NodeLife, AgentLifecycleProofs

USE DEF mapVars, dockerVars, procVars, watchVars, Limits,
        monitorVars, shutdownVars, storeVars, ghostVars, nodeVars

\* The variables of the monitor, the saver and Shutdown.
NodeVarsOK ==
  /\ watch \in {"unborn", "on", "off"}
  /\ stopped \in BOOLEAN
  /\ shut \in [Closers -> ShutdownSteps]
  /\ todo \in [Closers -> SUBSET Agents]
  /\ \A c \in Closers : todo[c] # {} => shut[c] = "stop"
  /\ saver \in {"on", "last", "off"}
  /\ disk \subseteq Agents
  /\ stirred \subseteq Agents /\ adopted \subseteq Agents
  /\ flushed \in BOOLEAN

\* Between two processes nobody works on an agent, and there is no Shutdown
\* and no monitor.
AllQuiet == Free /\ LiveAgents = {} /\ \A a \in Agents : Quiet(a)
DownIsOff == node # "up" => (\A c \in Closers : shut[c] = "no") /\ watch = "unborn"

NodeInv == NodeTypeOK /\ DownIsOff

Parts ==
  /\ TypeOK /\ NodeVarsOK
  /\ node \in {"down", "found", "up", "exited"}
  /\ starts \in 0 .. MaxStarts
  /\ found \in [Agents -> Nat]
  /\ node # "up" => AllQuiet
  /\ DownIsOff

LEMMA NodeInvParts == (NodeInv <=> Parts) /\ (NodeInv' <=> Parts')
BY DEF NodeInv, NodeTypeOK, NodeVarsOK, AllQuiet, Parts

\* A step of a node that is up, for its agents.
Living == node = "up" /\ [Next]_vars /\ UNCHANGED <<node, starts, found>>

\* A step of Docker, or none.
Outside == UNCHANGED nodeVars /\ (UNCHANGED vars \/ \E a \in Agents : Environment(a))

\* What ends a process.
Ending == (\E c \in Closers : Exit(c)) \/ Crash

LEMMA StirringType ==
  ASSUME stirred \subseteq Agents, Stirring
  PROVE  stirred' \subseteq Agents
BY DEF Stirring

LEMMA SaveType ==
  ASSUME disk \subseteq Agents, NEW ok \in BOOLEAN, Save(ok)
  PROVE  disk' \subseteq Agents
BY DEF Save, Entries

LEMMA GoroutineStep ==
  ASSUME NodeInv,
         (\E w \in Workers : CommandStep(w)) \/ OtherStep \/ MonitorTick \/ MonitorEnd \/ Persist
  PROVE  Living /\ NodeVarsOK'
<1>. NodeVarsOK /\ DownIsOff
  BY NodeInvParts DEF Parts
<1>2. ASSUME NEW w \in Workers, CommandStep(w) PROVE Living /\ NodeVarsOK'
  <2>1. Command(w) => Next
    BY DEF Next
  <2>. QED BY <1>2, <2>1, StirringType DEF CommandStep, While, Living, NodeVarsOK
<1>3. CASE OtherStep
  <2>1. node = "up" /\ UNCHANGED <<node, starts, monitorVars, shutdownVars, storeVars, found, flushed>>
    BY <1>3 DEF OtherStep, While
  <2>2. Next /\ Stirring /\ adopted' = adopted \cap LiveAgents'
    BY <1>3 DEF OtherStep, While, Next, Check
  <2>. QED BY <2>1, <2>2, StirringType DEF Living, NodeVarsOK
<1>4. CASE MonitorTick
  BY <1>4 DEF MonitorTick, Living, Next, Check, NodeVarsOK
<1>5. CASE MonitorEnd
  BY <1>5 DEF MonitorEnd, Living, DownIsOff, NodeVarsOK
<1>6. CASE Persist
  <2>1. disk' \subseteq Agents
    BY <1>6, SaveType DEF Persist, NodeVarsOK
  <2>2. flushed' \in BOOLEAN
    BY <1>6 DEF Persist, NodeVarsOK
  <2>3. saver' \in {"on", "last", "off"}
    BY <1>6 DEF Persist, NodeVarsOK
  <2>. QED BY <1>6, <2>1, <2>2, <2>3 DEF Persist, Living, NodeVarsOK
<1>. QED BY <1>2, <1>3, <1>4, <1>5, <1>6

LEMMA ShutdownStep ==
  ASSUME NodeInv, NEW c \in Closers, Shutdown(c), ~Exit(c)
  PROVE  Living /\ NodeVarsOK'
<1>. NodeVarsOK /\ DownIsOff /\ c \in Workers
  BY NodeInvParts, NodeAssumption DEF Parts
<1>1. CASE ShutdownBegin(c)
  BY <1>1 DEF ShutdownBegin, Living, NodeVarsOK, ShutdownSteps
<1>2. CASE ShutdownStopMonitor(c)
  BY <1>2 DEF ShutdownStopMonitor, Living, NodeVarsOK, ShutdownSteps, DownIsOff
<1>3. CASE ShutdownList(c)
  BY <1>3 DEF ShutdownList, Living, NodeVarsOK, ShutdownSteps, DownIsOff, LiveAgents
<1>4. ASSUME NEW a \in Agents, ShutdownStop(c, a) PROVE Living /\ NodeVarsOK'
  <2>1. UNCHANGED vars \/ Next
    BY <1>4 DEF ShutdownStop, Next
  <2>2. node = "up"
    BY <1>4 DEF ShutdownStop, DownIsOff
  <2>3. NodeVarsOK'
    BY <1>4 DEF ShutdownStop, NodeVarsOK
  <2>. QED BY <1>4, <2>1, <2>2, <2>3 DEF ShutdownStop, Living
<1>5. CASE ShutdownSave(c)
  <2>1. disk' \subseteq Agents
    BY <1>5, SaveType DEF ShutdownSave, NodeVarsOK
  <2>2. flushed' \in BOOLEAN
    BY <1>5 DEF ShutdownSave
  <2>. QED BY <1>5, <2>1, <2>2 DEF ShutdownSave, Living, NodeVarsOK, ShutdownSteps, DownIsOff
<1>6. CASE ShutdownFlush(c)
  <2>1. saver' \in {"on", "last", "off"}
    BY <1>6 DEF ShutdownFlush, NodeVarsOK
  <2>. QED BY <1>6, <2>1 DEF ShutdownFlush, Living, NodeVarsOK, ShutdownSteps, DownIsOff
<1>. QED BY <1>1, <1>2, <1>3, <1>4, <1>5, <1>6 DEF Shutdown

LEMMA NodeCases ==
  ASSUME NodeInv, [NodeNext]_<<vars, nodeVars>>
  PROVE  \/ Living /\ NodeVarsOK'
         \/ Outside
         \/ Ending
         \/ RecoverList \/ RecoverListFails \/ RecoverRestore
         \/ \E a \in Agents : RecoverOrphan(a)
<1>1. CASE Docker \/ UNCHANGED <<vars, nodeVars>>
  BY <1>1 DEF Docker, Outside
<1>2. CASE Recover \/ Crash
  BY <1>2 DEF Recover, Ending
<1>3. ASSUME NEW c \in Closers, Shutdown(c) PROVE (Living /\ NodeVarsOK') \/ Ending
  BY <1>3, ShutdownStep DEF Ending
<1>. QED BY <1>1, <1>2, <1>3, GoroutineStep DEF NodeNext

-----------------------------------------------------------------------------
(* Types.                                                                   *)

LEMMA DiesType ==
  ASSUME NodeInv, Ending
  PROVE  NodeInv' /\ Dies /\ node' \in {"down", "exited"}
<1>. TypeOK /\ NodeVarsOK /\ starts \in 0 .. MaxStarts /\ found \in [Agents -> Nat]
  BY NodeInvParts DEF Parts
<1>1. Dies /\ node' \in {"down", "exited"}
  BY DEF Ending, Exit, Crash
<1>2. found' \in [Agents -> Nat]
  BY DEF Ending, Exit, Crash
<1>3. PcOK'
  BY <1>1, StepNames DEF Dies, PcOK, Steps, StepsOf
<1>4. /\ mu' \in Workers \cup {Nobody}
      /\ agents' \in [Agents -> [cid : Nat, count : Nat]]
      /\ saved' \in [Agents -> Nat] /\ held' \in [Procs -> Nat]
      /\ snap' \subseteq Agents \X Nat
  BY <1>1 DEF Dies, NoAgent
<1>5. TypeOK'
  BY <1>1, <1>3, <1>4 DEF Dies, TypeOK, PcOK
<1>6. NodeVarsOK'
  <2>1. disk' \subseteq Agents /\ UNCHANGED <<stirred, adopted>>
    BY <1>1 DEF Dies, NodeVarsOK
  <2>2. flushed' \in BOOLEAN
    BY <1>1 DEF Dies, NodeVarsOK
  <2>. QED BY <1>1, <2>1, <2>2 DEF Dies, NodeVarsOK, ShutdownSteps
<1>7. AllQuiet'
  BY <1>1 DEF Dies, AllQuiet, Free, LiveAgents, Live, Quiet, WorkOn
<1>8. DownIsOff' /\ starts' = starts
  BY <1>1 DEF Dies, DownIsOff
<1>. QED BY <1>1, <1>2, <1>5, <1>6, <1>7, <1>8, NodeInvParts DEF Parts

LEMMA StaysQuiet ==
  ASSUME AllQuiet, UNCHANGED <<mu, agents, pc>>, \A p \in Procs : pc[p] = "idle" \/ job'[p] = job[p]
  PROVE  AllQuiet'
BY DEF AllQuiet, Free, LiveAgents, Live, Quiet, WorkOn

LEMMA StartType ==
  ASSUME NodeInv, RecoverList \/ RecoverListFails
  PROVE  NodeInv' /\ AllQuiet /\ AllQuiet'
<1>. TypeOK /\ NodeVarsOK /\ starts \in 0 .. MaxStarts /\ found \in [Agents -> Nat]
  BY NodeInvParts DEF Parts
<1>1. Start /\ node' \in {"found", "up"}
  BY DEF RecoverList, RecoverListFails
<1>2. AllQuiet /\ DownIsOff /\ node # "up"
  BY <1>1, NodeInvParts DEF Parts, Start
<1>3. found' \in [Agents -> Nat] /\ left' \in [Agents -> BOOLEAN]
  BY DEF RecoverList, RecoverListFails, TypeOK
<1>4. saved' \in [Agents -> Nat] /\ starts' \in 0 .. MaxStarts
  BY <1>1, NodeAssumption DEF Start
<1>5. TypeOK'
  BY <1>1, <1>3, <1>4 DEF Start, TypeOK
<1>6. AllQuiet'
  BY <1>1, <1>2, StaysQuiet DEF Start
<1>7. NodeVarsOK' /\ DownIsOff'
  BY <1>1, <1>2 DEF Start, NodeVarsOK, DownIsOff
<1>. QED BY <1>1, <1>2, <1>3, <1>4, <1>5, <1>6, <1>7, NodeInvParts DEF Parts

LEMMA OrphanType ==
  ASSUME NodeInv, NEW a \in Agents, RecoverOrphan(a)
  PROVE  NodeInv' /\ AllQuiet /\ AllQuiet' /\ node' = "found"
<1>. TypeOK /\ NodeVarsOK /\ DownIsOff /\ starts \in 0 .. MaxStarts /\ found \in [Agents -> Nat]
  BY NodeInvParts DEF Parts
<1>1. node = "found" /\ AllQuiet /\ node' = "found"
  BY NodeInvParts DEF Parts, RecoverOrphan
<1>2. PICK ok \in BOOLEAN : Removing(a, found[a], ok)
  BY DEF RecoverOrphan
<1>3. docker' \in [Agents -> [cid : Nat, up : BOOLEAN]] /\ left' \in [Agents -> BOOLEAN]
  BY <1>2, RemovingType
<1>4. TypeOK'
  BY <1>3 DEF RecoverOrphan, TypeOK
<1>5. AllQuiet'
  BY <1>1, StaysQuiet DEF RecoverOrphan
<1>6. found' \in [Agents -> Nat] /\ NodeVarsOK' /\ DownIsOff' /\ starts' = starts
  BY DEF RecoverOrphan, NodeVarsOK, DownIsOff
<1>. QED BY <1>1, <1>4, <1>5, <1>6, NodeInvParts DEF Parts

LEMMA RestoreType ==
  ASSUME NodeInv, RecoverRestore
  PROVE  NodeInv' /\ AllQuiet /\ node = "found" /\ node' = "up" /\ starts' = starts
         /\ UNCHANGED <<mu, docker, made, left, runs, pc, job, held, snap, overlapped>>
<1>. TypeOK /\ NodeVarsOK /\ DownIsOff /\ starts \in 0 .. MaxStarts /\ found \in [Agents -> Nat]
  BY NodeInvParts DEF Parts
<1>1. Restoring
  BY DEF RecoverRestore
<1>2. PICK count \in [Kept -> 0 .. MaxRestartAttempts] :
        agents' = [a \in Agents |-> IF a \in Kept
                                    THEN [cid |-> found[a], count |-> count[a]] ELSE NoAgent]
  BY <1>1 DEF Restoring
<1>3. agents' \in [Agents -> [cid : Nat, count : Nat]]
  BY <1>2, LifecycleAssumption DEF NoAgent
<1>4. saved' \in [Agents -> Nat] /\ found' \in [Agents -> Nat]
  BY <1>1 DEF Restoring
<1>5. TypeOK'
  BY <1>1, <1>3, <1>4 DEF Restoring, TypeOK
<1>6. NodeVarsOK' /\ node = "found" /\ node' = "up" /\ starts' = starts
  BY <1>1 DEF Restoring, NodeVarsOK, Kept, Entries
<1>7. AllQuiet
  BY <1>6, NodeInvParts DEF Parts
<1>8. UNCHANGED <<mu, docker, made, left, runs, pc, job, held, snap, overlapped>>
  BY <1>1 DEF Restoring
<1>. QED BY <1>4, <1>5, <1>6, <1>7, <1>8, NodeInvParts DEF Parts, DownIsOff

LEMMA OutsideType ==
  ASSUME NodeInv, Outside
  PROVE  NodeInv' /\ UNCHANGED <<mu, agents, made, runs, pc, job, held>>
<1>. TypeOK /\ NodeVarsOK /\ DownIsOff /\ (node # "up" => AllQuiet)
  BY NodeInvParts DEF Parts
<1>1. UNCHANGED <<mu, agents, made, runs, pc, job, held>>
  BY DEF Outside, Environment, ContainerExits, ContainerRemoved, vars
<1>2. TypeOK'
  BY StepType DEF Outside, Next
<1>3. node' # "up" => AllQuiet'
  BY <1>1, StaysQuiet DEF Outside
<1>4. NodeVarsOK' /\ DownIsOff' /\ UNCHANGED <<node, starts, found>>
  BY DEF Outside, NodeVarsOK, DownIsOff
<1>. QED BY <1>1, <1>2, <1>3, <1>4, NodeInvParts DEF Parts

LEMMA NodeStepType ==
  ASSUME NodeInv, [NodeNext]_<<vars, nodeVars>>
  PROVE  NodeInv'
<1>1. CASE Living /\ NodeVarsOK'
  BY <1>1, StepType, NodeInvParts DEF Parts, Living, DownIsOff
<1>. QED BY <1>1, NodeCases, OutsideType, DiesType, StartType, OrphanType, RestoreType

LEMMA NodeInitType == NodeInit => NodeInv
<1>. SUFFICES ASSUME NodeInit PROVE NodeInv
  OBVIOUS
<1>1. TypeOK
  BY InitType DEF NodeInit
<1>2. NodeVarsOK /\ DownIsOff
  BY DEF NodeInit, NodeVarsOK, DownIsOff, ShutdownSteps
<1>3. AllQuiet
  BY DEF NodeInit, Init, AllQuiet, Free, LiveAgents, Live, Quiet, WorkOn
<1>. QED BY <1>1, <1>2, <1>3, NodeInvParts, NodeAssumption DEF Parts, NodeInit

(* The variables of a node keep their types over all its lives, and between *)
(* two of them nothing works on an agent.                                   *)
THEOREM NodeTypes == NodeSpec => []NodeTypeOK
<1>1. NodeInv => NodeTypeOK
  BY DEF NodeInv
<1>. QED BY <1>1, NodeInitType, NodeStepType, PTL DEF NodeSpec

-----------------------------------------------------------------------------
(* Restarts over all lives. The budgets of AgentLifecycle, with one more    *)
(* for each start; a node that is recovering has not spent the one of this  *)
(* start, and puts it into the records it restores.                         *)

Most == MaxAgents + Cardinality(Agents)

Unspent ==
  node = "found" =>
    \A a \in Agents : made[a] + MaxRestartAttempts <= MaxRestartAttempts * (runs[a] + starts)

NodeBudget == NodeInv /\ BudgetInv(Most, starts) /\ Unspent

LEMMA MostLimit == Most \in Limits /\ MaxAgents \in Nat /\ Most \in Nat
BY LifecycleAssumption, FS_CardinalityType DEF Most

\* The next three lemmas are about the state after a step.
LEMMA QuietCapacity ==
  ASSUME TypeOK', \A a \in Agents : Quiet(a)'
  PROVE  CapacityInv(Most)'
<1>1. \A p \in Procs : pc'[p] = "idle"
  BY DEF Quiet, WorkOn, TypeOK
<1>2. LockHeld' /\ SlotReserved(Most)'
  BY <1>1, StepNames DEF LockHeld, SlotReserved, DeploySteps
<1>3. Cardinality(LiveAgents') <= Cardinality(Agents) /\ Cardinality(Agents) \in Nat
      /\ Cardinality(LiveAgents') \in Nat
  BY LifecycleAssumption, FS_Subset, FS_CardinalityType DEF LiveAgents
<1>4. Within(Most)'
  BY <1>3, MostLimit DEF Within, Most
<1>. QED BY <1>2, <1>4 DEF CapacityInv

\* While nobody works on an agent, its containers and what its record still
\* allows are all there is to count.
LEMMA QuietCovered ==
  ASSUME TypeOK', Free', NEW a \in Agents, Quiet(a)', NEW k \in Nat,
         made'[a] + (IF Live(a)' THEN Slack(a)' ELSE 0) <= MaxRestartAttempts * (runs'[a] + k)
  PROVE  Covered(a, k)'
<1>1. Pending(a)' = {}
  BY StepNames DEF Quiet, WorkOn, Pending, Waiting
<1>2. Credit(a)' = IF Live(a)' THEN Slack(a)' ELSE 0
  BY LifecycleAssumption DEF Free, Credit, Deploying, Procs
<1>3. made'[a] \in Nat /\ Credit(a)' \in Nat
  BY CreditNat DEF TypeOK
<1>4. IsFiniteSet(Pending(a)') /\ Cardinality(Pending(a)') = 0
  BY <1>1, FS_EmptySet
<1>. QED BY <1>2, <1>3, <1>4 DEF Covered

LEMMA QuietBudget ==
  ASSUME TypeOK', AllQuiet', NEW k \in Nat,
         \A a \in Agents : made'[a] <= MaxRestartAttempts * (runs'[a] + k)
  PROVE  BudgetInv(Most, k)'
<1>1. CapacityInv(Most)'
  BY QuietCapacity DEF AllQuiet
<1>2. ASSUME NEW a \in Agents PROVE Covered(a, k)'
  <2>1. ~Live(a)' /\ Quiet(a)' /\ Free'
    BY DEF AllQuiet, LiveAgents
  <2>2. made'[a] + 0 <= MaxRestartAttempts * (runs'[a] + k)
    BY DEF TypeOK
  <2>. QED BY <2>1, <2>2, QuietCovered
<1>. QED BY <1>1, <1>2 DEF BudgetInv

LEMMA BudgetSpent ==
  ASSUME NEW k \in Nat, BudgetInv(Most, k), NEW a \in Agents
  PROVE  /\ made[a] <= MaxRestartAttempts * (runs[a] + k)
         /\ made[a] \in Nat /\ runs[a] \in Nat /\ MaxRestartAttempts * (runs[a] + k) \in Nat
BY MostLimit, CoveredNumbers

LEMMA NodeStepBudget ==
  ASSUME NodeBudget, [NodeNext]_<<vars, nodeVars>>
  PROVE  NodeBudget'
<1>1. PICK k \in Nat : k = starts
  BY NodeInvParts, NodeAssumption DEF Parts, NodeBudget
<1>. NodeInv /\ BudgetInv(Most, k) /\ Unspent /\ TypeOK
  BY <1>1, NodeInvParts DEF Parts, NodeBudget
<1>2. NodeInv' /\ TypeOK'
  BY NodeStepType, NodeInvParts DEF Parts
<1>3. ASSUME [Next]_vars, starts' = k, Unspent'
      PROVE  NodeBudget'
  <2>1. BudgetInv(Most, k)'
    BY <1>3, StepBudget, MostLimit
  <2>. QED BY <1>2, <1>3, <2>1 DEF NodeBudget, BudgetInv, Covered
<1>4. CASE Living
  BY <1>1, <1>3, <1>4 DEF Living, Unspent
<1>5. CASE Outside
  <2>1. [Next]_vars /\ starts' = k
    BY <1>1, <1>5 DEF Outside, Next
  <2>2. Unspent'
    BY <1>5, OutsideType DEF Outside, Unspent
  <2>. QED BY <1>3, <2>1, <2>2
<1>6. CASE Ending
  <2>1. AllQuiet' /\ UNCHANGED <<made, runs, starts>> /\ Unspent'
    BY <1>6, DiesType, NodeInvParts DEF Parts, Dies, Unspent
  <2>2. \A a \in Agents : made'[a] <= MaxRestartAttempts * (runs'[a] + k)
    BY <2>1, BudgetSpent
  <2>3. BudgetInv(Most, k)'
    BY <1>2, <2>1, <2>2, QuietBudget
  <2>. QED BY <1>1, <1>2, <2>1, <2>3 DEF NodeBudget, BudgetInv, Covered
<1>7. CASE RecoverList \/ RecoverListFails
  <2>1. AllQuiet' /\ UNCHANGED <<made, runs>> /\ starts' = k + 1 /\ k + 1 \in Nat
    <3>1. Start
      BY <1>7 DEF RecoverList, RecoverListFails
    <3>2. UNCHANGED <<made, runs>> /\ starts' = starts + 1
      BY <3>1 DEF Start
    <3>3. AllQuiet'
      BY <1>7, StartType
    <3>. QED BY <1>1, <3>2, <3>3
  <2>2. ASSUME NEW a \in Agents
        PROVE  made'[a] + MaxRestartAttempts <= MaxRestartAttempts * (runs'[a] + (k + 1))
    <3>1. made[a] <= MaxRestartAttempts * (runs[a] + k) /\ made[a] \in Nat /\ runs[a] \in Nat
      BY BudgetSpent
    <3>2. MaxRestartAttempts * (runs[a] + (k + 1)) = MaxRestartAttempts * (runs[a] + k) + MaxRestartAttempts
      BY <3>1, LifecycleAssumption
    <3>3. MaxRestartAttempts * (runs[a] + k) \in Nat /\ MaxRestartAttempts \in Nat
      BY <3>1, LifecycleAssumption
    <3>. QED BY <2>1, <3>1, <3>2, <3>3
  <2>3. Unspent'
    BY <2>1, <2>2 DEF Unspent
  <2>4. \A a \in Agents : made'[a] <= MaxRestartAttempts * (runs'[a] + (k + 1))
    <3>. TAKE a \in Agents
    <3>1. made'[a] \in Nat /\ runs'[a] \in Nat /\ MaxRestartAttempts \in Nat
      BY <1>2, LifecycleAssumption DEF TypeOK
    <3>2. MaxRestartAttempts * (runs'[a] + (k + 1)) \in Nat
      BY <2>1, <3>1
    <3>. QED BY <2>2, <3>1, <3>2
  <2>5. BudgetInv(Most, k + 1)'
    BY <1>2, <2>1, <2>4, QuietBudget
  <2>. QED BY <1>2, <2>1, <2>3, <2>5 DEF NodeBudget, BudgetInv, Covered
<1>8. ASSUME NEW a \in Agents, RecoverOrphan(a) PROVE NodeBudget'
  <2>1. AllQuiet' /\ UNCHANGED <<made, runs, starts>> /\ node = "found" /\ node' = "found"
    BY <1>8, OrphanType DEF RecoverOrphan
  <2>2. Unspent'
    BY <2>1 DEF Unspent
  <2>3. BudgetInv(Most, k)'
    BY <1>2, <2>1, BudgetSpent, QuietBudget
  <2>. QED BY <1>1, <1>2, <2>1, <2>2, <2>3 DEF NodeBudget, BudgetInv, Covered
<1>9. CASE RecoverRestore
  <2>1. /\ AllQuiet /\ node = "found" /\ node' = "up" /\ starts' = starts
        /\ UNCHANGED <<mu, made, runs, pc, job>>
    BY <1>9, RestoreType
  <2>2. Free' /\ \A a \in Agents : Quiet(a)'
    BY <2>1 DEF AllQuiet, Free, Quiet, WorkOn
  <2>3. ASSUME NEW a \in Agents PROVE Covered(a, k)'
    <3>1. made[a] + MaxRestartAttempts <= MaxRestartAttempts * (runs[a] + k)
      BY <1>1, <2>1 DEF Unspent
    <3>2. Slack(a)' \in Nat /\ Slack(a)' <= MaxRestartAttempts
      BY <1>2, LifecycleAssumption DEF Slack, TypeOK
    <3>3. made'[a] \in Nat /\ runs'[a] \in Nat /\ MaxRestartAttempts \in Nat
      BY <1>2, LifecycleAssumption DEF TypeOK
    <3>4. MaxRestartAttempts * (runs'[a] + k) \in Nat
      BY <3>3
    <3>5. made'[a] + (IF Live(a)' THEN Slack(a)' ELSE 0) <= MaxRestartAttempts * (runs'[a] + k)
      BY <2>1, <3>1, <3>2, <3>3, <3>4
    <3>. QED BY <1>2, <2>2, <3>5, QuietCovered
  <2>4. CapacityInv(Most)'
    BY <1>2, <2>2, QuietCapacity
  <2>. QED BY <1>1, <1>2, <2>1, <2>3, <2>4 DEF NodeBudget, BudgetInv, Covered, Unspent
<1>. QED BY <1>4, <1>5, <1>6, <1>7, <1>8, <1>9, NodeCases

LEMMA NodeInitBudget == NodeInit => NodeBudget
<1>. SUFFICES ASSUME NodeInit PROVE NodeBudget
  OBVIOUS
<1>1. BudgetInv(Most, 0)
  BY InitBudget, MostLimit DEF NodeInit
<1>2. starts = 0 /\ Unspent
  BY DEF NodeInit, Unspent
<1>. QED BY <1>1, <1>2, NodeInitType DEF NodeBudget, BudgetInv, Covered

(* manager.go:234-276, recover.go:77-83: over any number of crashes, exits  *)
(* and starts, the containers made for an agent are paid for by the calls   *)
(* of Run and the starts of the node: no restart begins a budget anew.      *)
THEOREM NodeRestartsBounded == NodeSpec => []RestartsBoundedOverLives
<1>1. NodeBudget => RestartsBoundedOverLives
  <2>. SUFFICES ASSUME NodeBudget, NEW a \in Agents
                PROVE  made[a] <= MaxRestartAttempts * (runs[a] + starts)
    BY DEF RestartsBoundedOverLives
  <2>1. PICK k \in Nat : k = starts
    BY NodeInvParts, NodeAssumption DEF Parts, NodeBudget
  <2>2. BudgetInv(Most, k)
    BY <2>1 DEF NodeBudget
  <2>. QED BY <2>1, <2>2, BudgetSpent
<1>. QED BY <1>1, NodeInitBudget, NodeStepBudget, PTL DEF NodeSpec

-----------------------------------------------------------------------------
(* No silent leak over all lives. While the node is up its agents are those *)
(* of AgentLifecycle. Between two lives no id is in a variable, and while   *)
(* it recovers every container it has not lost track of is in its list.     *)

Resting ==
  /\ \A p \in Procs : held[p] = 0
  /\ \A a \in Agents : docker[a].cid <= made[a] /\ (docker[a] = Gone <=> docker[a].cid = 0)

Seen ==
  \A a \in Agents : found[a] <= made[a] /\ (docker[a] # Gone => left[a] \/ found[a] = docker[a].cid)

NodeLeak ==
  /\ NodeBudget
  /\ IF node = "up" THEN \A a \in Agents : Traced(a) ELSE Resting
  /\ node = "found" => Seen

LEMMA NodeLeakParts ==
  ASSUME NodeLeak PROVE TypeOK /\ NodeInv /\ LiveAgents \subseteq Agents
BY NodeInvParts DEF NodeLeak, NodeBudget, Parts, LiveAgents

LEMMA RestTraced ==
  ASSUME AllQuiet \/ \A a \in Agents : Quiet(a), TypeOK, Resting,
         \A a \in Agents : agents'[a].cid <= made[a] /\ left'[a] \in BOOLEAN,
         \A a \in Agents : docker[a] # Gone =>
           left'[a] \/ (agents'[a] # NoAgent /\ docker[a].cid = agents'[a].cid),
         UNCHANGED <<docker, made, pc, job, held>>
  PROVE  \A a \in Agents : Traced(a)'
<1>. SUFFICES ASSUME NEW a \in Agents PROVE Traced(a)'
  OBVIOUS
<1>1. \A p \in Procs : pc'[p] = "idle" /\ held'[p] = 0
  BY DEF AllQuiet, Quiet, WorkOn, TypeOK, Resting
<1>2. Ids(a)'
  BY <1>1 DEF Ids, Resting, TypeOK
<1>3. Own(a)' /\ Done(a)'
  BY <1>1 DEF Own, Done, MadeBy, Making
<1>4. Known(a)'
  BY DEF Known, Live, Holds
<1>. QED BY <1>2, <1>3, <1>4 DEF Traced

LEMMA OutsideRests ==
  ASSUME NodeLeak, Outside, node # "up"
  PROVE  Resting' /\ (node = "found" => Seen')
<1>. TypeOK /\ NodeInv /\ Resting /\ (node = "found" => Seen)
  BY NodeLeakParts DEF NodeLeak
<1>1. UNCHANGED <<made, held, left, found>>
  BY DEF Outside, Environment, ContainerExits, ContainerRemoved, vars
<1>2. ASSUME NEW a \in Agents
      PROVE  docker'[a] = Gone \/ (docker[a] # Gone /\ docker'[a] # Gone /\ docker'[a].cid = docker[a].cid)
  <2>1. docker[a] \in [cid : Nat, up : BOOLEAN] /\ (docker[a] = Gone <=> docker[a].cid = 0)
    BY DEF TypeOK, Resting
  <2>2. ASSUME NEW b \in Agents, ContainerExits(b) \/ ContainerRemoved(b)
        PROVE  \/ docker'[a] = docker[a] \/ docker'[a] = Gone
               \/ docker[a].up /\ docker'[a] = [docker[a] EXCEPT !.up = FALSE]
    BY <2>2 DEF ContainerExits, ContainerRemoved, TypeOK
  <2>3. \/ docker'[a] = docker[a] \/ docker'[a] = Gone
        \/ docker[a].up /\ docker'[a] = [docker[a] EXCEPT !.up = FALSE]
    BY <2>2 DEF Outside, Environment, vars
  <2>. QED BY <2>1, <2>3 DEF Gone
<1>3. ASSUME NEW a \in Agents
      PROVE  docker'[a].cid <= made[a] /\ (docker'[a] = Gone <=> docker'[a].cid = 0)
  BY <1>2 DEF Resting, Gone, TypeOK
<1>4. Resting'
  BY <1>1, <1>3 DEF Resting
<1>. QED BY <1>1, <1>2, <1>4 DEF Seen

LEMMA EndingRests ==
  ASSUME NodeLeak, Ending
  PROVE  Resting'
<1>. TypeOK /\ NodeInv
  BY NodeLeakParts
<1>1. UNCHANGED <<docker, made>> /\ \A p \in Procs : held'[p] = 0
  BY DiesType DEF Dies
<1>2. ASSUME NEW a \in Agents
      PROVE  docker[a].cid <= made[a] /\ (docker[a] = Gone <=> docker[a].cid = 0)
  BY DEF NodeLeak, Resting, Traced, Ids
<1>. QED BY <1>1, <1>2 DEF Resting

LEMMA OrphanRests ==
  ASSUME NodeLeak, NEW a \in Agents, RecoverOrphan(a)
  PROVE  Resting' /\ Seen'
<1>. TypeOK /\ NodeInv /\ Resting /\ Seen /\ node = "found"
  BY NodeLeakParts DEF NodeLeak, RecoverOrphan
<1>1. PICK ok \in BOOLEAN : Removing(a, found[a], ok)
  BY DEF RecoverOrphan
<1>2. /\ UNCHANGED <<made, held>> /\ found' = [found EXCEPT ![a] = 0]
      /\ found \in [Agents -> Nat] /\ made \in [Agents -> Nat]
  BY NodeInvParts DEF RecoverOrphan, Parts, TypeOK
<1>3. \A b \in Agents \ {a} : docker'[b] = docker[b] /\ left'[b] = left[b]
  BY <1>1 DEF Removing, TypeOK
<1>4. docker'[a] = Gone \/ (docker'[a] = docker[a] /\ (docker[a] # Gone => left'[a]))
  BY <1>1 DEF Removing, Holds, Seen, TypeOK
<1>5. ASSUME NEW b \in Agents
      PROVE  docker'[b].cid <= made[b] /\ (docker'[b] = Gone <=> docker'[b].cid = 0)
  <2>1. docker'[b] = docker[b] \/ docker'[b] = Gone
    BY <1>3, <1>4
  <2>2. docker[b].cid <= made[b] /\ (docker[b] = Gone <=> docker[b].cid = 0) /\ made[b] \in Nat
    BY DEF Resting, TypeOK
  <2>3. Gone.cid = 0
    BY DEF Gone
  <2>. QED BY <2>1, <2>2, <2>3
<1>6. Resting'
  BY <1>2, <1>5 DEF Resting
<1>. QED BY <1>2, <1>3, <1>4, <1>6 DEF Seen

LEMMA NodeStepLeak ==
  ASSUME NodeLeak, [NodeNext]_<<vars, nodeVars>>
  PROVE  NodeLeak'
<1>. NodeBudget /\ NodeInv /\ TypeOK
  BY NodeLeakParts DEF NodeLeak
<1>1. NodeBudget'
  BY NodeStepBudget
<1>2. ASSUME node = "up", node' = "up", [Next]_vars PROVE NodeLeak'
  <2>1. LeakInv(Most)
    BY <1>2 DEF NodeLeak, NodeBudget, BudgetInv, LeakInv
  <2>2. LeakInv(Most)'
    BY <1>2, <2>1, StepLeak, MostLimit
  <2>. QED BY <1>1, <1>2, <2>2 DEF LeakInv, NodeLeak
<1>3. CASE Living
  BY <1>2, <1>3 DEF Living
<1>4. CASE Outside
  <2>1. [Next]_vars /\ node' = node
    BY <1>4 DEF Outside, Next
  <2>. QED BY <1>1, <1>2, <1>4, <2>1, OutsideRests DEF NodeLeak
<1>5. CASE Ending
  BY <1>1, <1>5, DiesType, EndingRests DEF NodeLeak
<1>6. CASE RecoverList
  <2>1. /\ UNCHANGED <<docker, made, held, left>> /\ found' = [a \in Agents |-> docker[a].cid]
        /\ node # "up" /\ node' = "found"
    BY <1>6 DEF RecoverList, Start
  <2>2. Resting' /\ Seen'
    BY <2>1 DEF NodeLeak, Resting, Seen
  <2>. QED BY <1>1, <2>1, <2>2 DEF NodeLeak
<1>7. CASE RecoverListFails
  <2>1. /\ UNCHANGED <<docker, made, agents, pc, job, held>>
        /\ left' = [a \in Agents |-> docker[a] # Gone]
        /\ node # "up" /\ node' = "up" /\ AllQuiet
    BY <1>7, StartType DEF RecoverListFails, Start
  <2>2. \A a \in Agents : agents'[a].cid <= made[a]
    BY <2>1 DEF AllQuiet, LiveAgents, Live, NoAgent, TypeOK
  <2>3. \A a \in Agents : Traced(a)'
    BY <2>1, <2>2, RestTraced DEF NodeLeak
  <2>. QED BY <1>1, <2>1, <2>3 DEF NodeLeak
<1>8. ASSUME NEW a \in Agents, RecoverOrphan(a) PROVE NodeLeak'
  BY <1>1, <1>8, OrphanRests DEF NodeLeak, RecoverOrphan
<1>9. CASE RecoverRestore
  <2>1. /\ AllQuiet /\ node = "found" /\ node' = "up"
        /\ UNCHANGED <<docker, made, left, pc, job, held>>
    BY <1>9, RestoreType
  <2>2. Resting /\ Seen
    BY <2>1 DEF NodeLeak
  <2>3. PICK count \in [Kept -> 0 .. MaxRestartAttempts] :
          agents' = [a \in Agents |-> IF a \in Kept
                                      THEN [cid |-> found[a], count |-> count[a]] ELSE NoAgent]
    BY <1>9 DEF RecoverRestore, Restoring
  <2>4. \A a \in Agents : docker[a] # Gone => left[a] \/ (a \in Kept /\ found[a] = docker[a].cid)
    BY <1>9, <2>2 DEF RecoverRestore, Orphans, Kept, Entries, Seen, Resting
  <2>5. \A a \in Agents : agents'[a].cid <= made[a] /\ (a \in Kept => agents'[a] # NoAgent /\ agents'[a].cid = found[a])
    BY <2>2, <2>3 DEF Seen, NoAgent, TypeOK, Kept
  <2>6. \A a \in Agents : left'[a] \in BOOLEAN
    BY <2>1 DEF TypeOK
  <2>7. \A a \in Agents : Traced(a)'
    BY <2>1, <2>2, <2>4, <2>5, <2>6, RestTraced
  <2>. QED BY <1>1, <2>1, <2>7 DEF NodeLeak
<1>. QED BY <1>3, <1>4, <1>5, <1>6, <1>7, <1>8, <1>9, NodeCases

LEMMA NodeInitLeak == NodeInit => NodeLeak
<1>. SUFFICES ASSUME NodeInit PROVE NodeLeak
  OBVIOUS
<1>1. NodeBudget /\ node = "down"
  BY NodeInitBudget DEF NodeInit
<1>2. Resting
  BY DEF NodeInit, Init, Resting, Gone
<1>. QED BY <1>1, <1>2 DEF NodeLeak

(* recover.go:41-72, manager.go:92-322: over any number of crashes, exits   *)
(* and starts, a container that no agent of a node that is up owns is one   *)
(* the node failed to remove or lost track of.                              *)
THEOREM NodeNoSilentLeak == NodeSpec => []UpNoSilentLeak
<1>1. NodeLeak => UpNoSilentLeak
  <2>. SUFFICES ASSUME NodeLeak, node = "up" PROVE NoSilentLeak
    BY DEF UpNoSilentLeak
  <2>1. LeakInv(Most)
    BY DEF NodeLeak, NodeBudget, BudgetInv, LeakInv
  <2>. QED BY <2>1, NothingSilent, MostLimit
<1>. QED BY <1>1, NodeInitLeak, NodeStepLeak, PTL DEF NodeSpec

-----------------------------------------------------------------------------
(* What a Shutdown leaves behind. The agents it does not find in the file   *)
(* are those that somebody else worked on (stirred): of every other one the *)
(* record is the container's and the entry the record's, as in SavedInv,    *)
(* while closers themselves never deploy.                                   *)

CloserSteps == {"idle", "stop", "remove", "delete"}
ClosersStop == \A c \in Closing : pc[c] \in CloserSteps

OthersStir ==
  Closing # {} => \A a \in Agents, p \in Procs \ Closing : WorkOn(p, a) => a \in stirred

\* A Shutdown goes on, or the process has ended.
Final == node \in {"down", "exited"} \/ Closing # {}
Untouched(a) == docker[a] # Gone /\ a \notin stirred /\ ~overlapped[a] /\ ~left[a]
Written == flushed => Final /\ \A a \in Agents : Untouched(a) => a \in disk

ShutInv ==
  /\ NodeLeak
  /\ node = "up" => SavedInv(FALSE)
  /\ ClosersStop /\ OthersStir /\ Written

\* A container appears, and the node takes one back into account, only where
\* a goroutine deploys the agent.
LEMMA KeptTrack ==
  ASSUME TypeOK, [Next]_vars, NEW a \in Agents
  PROVE  /\ overlapped[a] => overlapped'[a]
         /\ \/ \E p \in Procs : WorkOn(p, a) /\ pc[p] \in DeploySteps
            \/ (left[a] => left'[a]) /\ (docker'[a] # Gone => docker[a] # Gone)
<1>. DEFINE Deploys == \E p \in Procs : WorkOn(p, a) /\ pc[p] \in DeploySteps
            Tracks == (left[a] => left'[a]) /\ (docker'[a] # Gone => docker[a] # Gone)
            Claim == (overlapped[a] => overlapped'[a]) /\ (Deploys \/ Tracks)
<1>1. ASSUME NEW p \in Workers \cup Restarters, CreateSteps(p) PROVE Claim
  <2>. p \in Procs /\ job[p] \in Agents
    BY StepNames DEF TypeOK
  <2>1. pc[p] \in DeploySteps /\ UNCHANGED overlapped
    BY <1>1 DEF CreateSteps, CreateList, CreateEvict, CreateContainer, CreateFails,
                StartContainer, StartUndo, At, DeploySteps
  <2>2. job[p] = a => Deploys
    BY <2>1 DEF WorkOn, DeploySteps
  <2>3. job[p] # a => docker'[a] = docker[a] /\ left'[a] = left[a]
    BY <1>1 DEF CreateSteps, CreateList, CreateEvict, CreateContainer, CreateFails,
                StartContainer, StartUndo, Removing, TypeOK
  <2>. QED BY <2>1, <2>2, <2>3
<1>2. ASSUME NEW p \in Workers \cup Restarters, RunCommit(p) \/ RestartCommit(p) PROVE Claim
  <2>. p \in Procs /\ job[p] \in Agents
    BY StepNames DEF TypeOK
  <2>1. pc[p] \in DeploySteps /\ UNCHANGED <<overlapped, docker>>
    BY <1>2 DEF RunCommit, RestartCommit, At, DeploySteps
  <2>2. job[p] = a => Deploys
    BY <2>1 DEF WorkOn, DeploySteps
  <2>3. job[p] # a => left'[a] = left[a]
    BY <1>2 DEF RunCommit, RestartCommit, TypeOK
  <2>. QED BY <2>1, <2>2, <2>3
<1>3. ASSUME NEW p \in Procs, UNCHANGED <<agents, made, left, overlapped>>,
             NEW ok \in BOOLEAN, Stopping(job[p], held[p], ok)
      PROVE  Claim
  <2>1. job[p] \in Agents
    BY DEF TypeOK
  <2>. QED BY <1>3, <2>1, StoppingParts DEF Shrinks
<1>4. ASSUME NEW p \in Procs, UNCHANGED <<agents, made, overlapped>>,
             NEW ok \in BOOLEAN, Removing(job[p], held[p], ok)
      PROVE  Claim
  <2>1. job[p] \in Agents
    BY DEF TypeOK
  <2>. QED BY <1>4, <2>1, RemovingParts DEF Shrinks
<1>5. ASSUME NEW w \in Workers, Command(w) PROVE Claim
  <2>. w \in Procs
    BY StepNames
  <2>1. CASE StopContainer(w)
    BY <2>1, <1>3 DEF StopContainer
  <2>2. CASE StopRemove(w)
    BY <2>2, <1>4 DEF StopRemove
  <2>3. CASE StopDelete(w)
    BY <2>3 DEF StopDelete
  <2>. QED BY <1>1, <1>2, <1>5, <2>1, <2>2, <2>3 DEF Command
<1>6. ASSUME NEW t \in Handlers, Failure(t) PROVE Claim
  <2>. t \in Procs
    BY StepNames DEF Handlers
  <2>1. CASE HandleFailure(t) \/ GiveUpMark(t) \/ GiveUpForget(t)
    BY <2>1 DEF HandleFailure, GiveUpMark, GiveUpForget
  <2>2. CASE GiveUpStop(t)
    BY <2>2, <1>3 DEF GiveUpStop
  <2>3. CASE GiveUpRemove(t)
    BY <2>3, <1>4 DEF GiveUpRemove
  <2>4. CASE GiveUpDrop(t)
    <3>1. PICK lost \in BOOLEAN : left' = [left EXCEPT ![job[t]] = @ \/ lost]
      BY <2>4 DEF GiveUpDrop, Live, Holds
    <3>2. left[a] => left'[a]
      BY <3>1 DEF TypeOK
    <3>. QED BY <2>4, <3>2 DEF GiveUpDrop
  <2>. QED BY <1>6, <2>1, <2>2, <2>3, <2>4 DEF Failure
<1>7. ASSUME NEW r \in Restarters, Restart(r) PROVE Claim
  <2>. r \in Procs
    BY StepNames
  <2>1. CASE RestartRead(r) \/ RestartSave(r)
    BY <2>1 DEF RestartRead, RestartSave
  <2>2. CASE RestartStopOld(r)
    BY <2>2, <1>3 DEF RestartStopOld
  <2>3. CASE RestartRemoveOld(r) \/ RestartDiscard(r)
    BY <2>3, <1>4 DEF RestartRemoveOld, RestartDiscard
  <2>. QED BY <1>1, <1>2, <1>7, <2>1, <2>2, <2>3 DEF Restart
<1>8. CASE \E w \in Workers, b \in Agents : RunBegin(w, b) \/ StopBegin(w, b)
  BY <1>8 DEF RunBegin, StopBegin, Begin, TypeOK
<1>9. CASE Check
  BY <1>9 DEF Check, MonitorSnapshot, MonitorInspect, Begin, TypeOK
<1>10. ASSUME NEW b \in Agents, Environment(b) PROVE Claim
  <2>1. ContainerExits(b) => docker[b] # Gone
    BY DEF ContainerExits, Gone
  <2>. QED BY <1>10, <2>1 DEF Environment, ContainerExits, ContainerRemoved, TypeOK
<1>. QED BY <1>5, <1>6, <1>7, <1>8, <1>9, <1>10 DEF Next, vars

\* A closer goes on with its Stop, or stays where it is.
LEMMA CloserWalks ==
  ASSUME TypeOK, NEW c \in Workers, pc[c] \in CloserSteps,
         \/ \E w \in Workers : Command(w)
         \/ \E w \in Workers \ {c}, a \in Agents : RunBegin(w, a) \/ StopBegin(w, a)
         \/ \E t \in Handlers : Failure(t)
         \/ \E r \in Restarters : Restart(r)
         \/ Check
  PROVE  pc'[c] \in CloserSteps
<1>. c \in Procs /\ c \notin Handlers
  BY StepNames, LifecycleAssumption
<1>1. ASSUME NEW p \in Procs \ {c}, NEW to, Goto(p, to) PROVE pc'[c] = pc[c]
  BY <1>1 DEF Goto, TypeOK
<1>2. ASSUME NEW w \in Workers, Command(w) PROVE pc'[c] \in CloserSteps
  <2>1. \E to : Goto(w, to)
    BY <1>2 DEF Command, CreateSteps, CreateList, CreateEvict, CreateContainer, CreateFails,
                StartContainer, StartUndo, RunCommit, StopContainer, StopRemove, StopDelete, Move
  <2>2. CASE w = c
    <3>1. ~CreateSteps(c) /\ ~RunCommit(c)
      BY DEF CreateSteps, CreateList, CreateEvict, CreateContainer, CreateFails,
             StartContainer, StartUndo, RunCommit, At, CloserSteps
    <3>2. \E to \in CloserSteps : Goto(c, to)
      BY <1>2, <2>2, <3>1 DEF Command, StopContainer, StopRemove, StopDelete, Move, CloserSteps
    <3>. QED BY <3>2 DEF Goto, TypeOK
  <2>. QED BY <1>1, <2>1, <2>2, StepNames
<1>3. ASSUME NEW w \in Workers \ {c}, NEW a \in Agents, RunBegin(w, a) \/ StopBegin(w, a)
      PROVE  pc'[c] \in CloserSteps
  BY <1>1, <1>3, StepNames DEF RunBegin, StopBegin, Begin
<1>4. CASE (\E t \in Handlers : Failure(t)) \/ (\E r \in Restarters : Restart(r)) \/ Check
  BY <1>4, HandlersLeaveLock
<1>. QED BY <1>2, <1>3, <1>4

\* While a closer is at work, an agent whose container nobody else touches has an
\* entry in memory.
LEMMA Listed ==
  ASSUME ShutInv, node = "up", Closing # {}, NEW a \in Agents, Untouched(a)
  PROVE  a \in Entries
<1>. TypeOK /\ ~overlapped[a]
  BY NodeLeakParts DEF ShutInv, Untouched
<1>1. \A p \in Procs : WorkOn(p, a) => pc[p] \in CloserSteps
  BY DEF ShutInv, ClosersStop, OthersStir, Untouched
<1>2. Agreed(a, FALSE)
  BY DEF ShutInv, SavedInv, Synced
<1>3. Live(a) /\ Holds(a, agents[a].cid) /\ docker[a].cid # 0
  <2>1. ~ \E p \in Procs : MadeBy(p, a)
    BY <1>1 DEF MadeBy, Making, WorkOn, CloserSteps
  <2>. QED BY <2>1 DEF ShutInv, NodeLeak, Traced, Known, Ids, Untouched
<1>4. \A p \in Procs : job[p] = a => pc[p] \notin Storing
  BY <1>1 DEF Storing, WorkOn, CloserSteps
<1>5. saved[a] # 0
  BY <1>2, <1>3, <1>4 DEF Agreed, Holds
<1>. QED BY <1>5 DEF Entries

\* A step while the node is up that neither begins nor ends a Shutdown, and
\* leaves the file alone.
LEMMA GoesOn ==
  ASSUME ShutInv, NodeLeak', node = "up", [Next]_vars,
         UNCHANGED <<node, disk, flushed>>, stirred \subseteq stirred', Closing' = Closing,
         ClosersStop', OthersStir'
  PROVE  ShutInv'
<1>. TypeOK
  BY NodeLeakParts DEF ShutInv
<1>1. SavedInv(FALSE)'
  BY StepSaved DEF ShutInv
<1>2. ASSUME flushed PROVE Closing # {} /\ Final'
  BY <1>2 DEF ShutInv, Written, Final
<1>3. ASSUME flushed, NEW a \in Agents, Untouched(a)' PROVE a \in disk
  <2>1. ~ \E p \in Procs : WorkOn(p, a) /\ pc[p] \in DeploySteps
    <3>1. \A p \in Procs : WorkOn(p, a) => pc[p] \in CloserSteps
      BY <1>2, <1>3 DEF ShutInv, ClosersStop, OthersStir, Untouched
    <3>. QED BY <3>1 DEF DeploySteps, CloserSteps
  <2>2. Untouched(a)
    BY <1>3, <2>1, KeptTrack DEF Untouched
  <2>. QED BY <1>3, <2>2 DEF ShutInv, Written
<1>4. Written'
  BY <1>2, <1>3 DEF Written
<1>. QED BY <1>1, <1>4 DEF ShutInv

\* A save: once there is a Shutdown, one that succeeds writes every agent that
\* matters.
LEMMA SavesAll ==
  ASSUME ShutInv, NodeLeak', node = "up", UNCHANGED <<vars, node, stirred>>, Closing' = Closing,
         flushed' => Closing # {} /\ disk' = Entries
  PROVE  ShutInv'
<1>1. ClosersStop' /\ OthersStir'
  BY DEF ShutInv, ClosersStop, OthersStir, WorkOn, vars
<1>2. SavedInv(FALSE)'
  BY StepSaved DEF ShutInv
<1>3. \A a \in Agents : Untouched(a)' => Untouched(a)
  BY DEF Untouched, vars
<1>4. Written'
  BY <1>3, Listed DEF Written, Final
<1>. QED BY <1>1, <1>2, <1>4 DEF ShutInv

LEMMA GoroutineShuts ==
  ASSUME ShutInv, NodeLeak',
         (\E w \in Workers : CommandStep(w)) \/ OtherStep \/ MonitorTick \/ MonitorEnd
  PROVE  ShutInv'
<1>. TypeOK /\ NodeInv /\ Closers \subseteq Workers
  BY NodeLeakParts, NodeAssumption DEF ShutInv
<1>1. Living
  BY GoroutineStep
<1>2. UNCHANGED <<disk, flushed, shut>>
  BY DEF CommandStep, OtherStep, While, MonitorTick, MonitorEnd
<1>3. Closing' = Closing
  BY <1>2 DEF Closing
<1>4. CASE MonitorTick \/ MonitorEnd
  <2>1. UNCHANGED <<pc, job, stirred>>
    BY <1>4 DEF MonitorTick, MonitorEnd, MonitorSnapshot, vars
  <2>2. ClosersStop' /\ OthersStir'
    BY <1>3, <2>1 DEF ShutInv, ClosersStop, OthersStir, WorkOn
  <2>. QED BY <1>1, <1>2, <1>3, <2>1, <2>2, GoesOn DEF Living
<1>5. CASE (\E w \in Workers : CommandStep(w)) \/ OtherStep
  <2>1. Stirring
    BY <1>5 DEF CommandStep, OtherStep, While
  <2>2. stirred \subseteq stirred' /\ OthersStir'
    BY <1>3, <2>1 DEF Stirring, OthersStir
  <2>3. ASSUME NEW c \in Closing PROVE pc'[c] \in CloserSteps
    <3>1. \/ \E w \in Workers : Command(w)
          \/ \E w \in Workers \ {c}, a \in Agents : RunBegin(w, a) \/ StopBegin(w, a)
          \/ \E t \in Handlers : Failure(t)
          \/ \E r \in Restarters : Restart(r)
          \/ Check
      BY <1>5, <2>3 DEF CommandStep, OtherStep, While, Check
    <3>2. c \in Workers /\ pc[c] \in CloserSteps
      BY <2>3 DEF Closing, ShutInv, ClosersStop
    <3>. QED BY <3>1, <3>2, CloserWalks
  <2>4. ClosersStop'
    BY <1>3, <2>3 DEF ClosersStop
  <2>. QED BY <1>1, <1>2, <1>3, <2>2, <2>4, GoesOn DEF Living
<1>. QED BY <1>4, <1>5

LEMMA ShutdownShuts ==
  ASSUME ShutInv, NodeLeak', NEW c \in Closers, Shutdown(c), ~Exit(c)
  PROVE  ShutInv'
<1>. TypeOK /\ NodeInv /\ NodeVarsOK /\ c \in Workers /\ c \in Procs
  BY NodeLeakParts, NodeInvParts, NodeAssumption, StepNames DEF ShutInv, Parts
<1>1. Living /\ node = "up"
  BY ShutdownStep DEF Living
<1>2. CASE ShutdownBegin(c)
  <2>1. /\ UNCHANGED <<vars, disk, flushed, node>> /\ stirred \subseteq stirred'
        /\ shut' = [shut EXCEPT ![c] = "monitor"] /\ shut[c] = "no" /\ pc[c] = "idle"
    BY <1>2 DEF ShutdownBegin, At
  <2>2. Closing' = Closing \cup {c}
    BY <2>1 DEF Closing, NodeVarsOK
  <2>3. ClosersStop'
    BY <2>1, <2>2 DEF ShutInv, ClosersStop, CloserSteps, vars
  <2>4. OthersStir'
    BY <1>2, <2>1, <2>2 DEF ShutdownBegin, OthersStir, WorkOn, vars
  <2>5. SavedInv(FALSE)'
    BY <1>1, StepSaved DEF Living, ShutInv
  <2>6. Written'
    BY <2>1, <2>2 DEF ShutInv, Written, Final, Untouched, vars
  <2>. QED BY <2>3, <2>4, <2>5, <2>6 DEF ShutInv
<1>3. CASE ShutdownStopMonitor(c) \/ ShutdownList(c) \/ ShutdownFlush(c)
  <2>1. /\ UNCHANGED <<vars, disk, flushed, node, stirred>>
        /\ shut[c] \in {"monitor", "list", "stop"}
        /\ \E to \in {"list", "stop", "save"} : shut' = [shut EXCEPT ![c] = to]
    BY <1>3 DEF ShutdownStopMonitor, ShutdownList, ShutdownFlush
  <2>2. Closing' = Closing
    BY <2>1 DEF Closing, NodeVarsOK
  <2>3. ClosersStop' /\ OthersStir'
    BY <2>1, <2>2 DEF ShutInv, ClosersStop, OthersStir, WorkOn, vars
  <2>. QED BY <1>1, <2>1, <2>2, <2>3, GoesOn DEF Living
<1>4. ASSUME NEW a \in Agents, ShutdownStop(c, a) PROVE ShutInv'
  <2>1. UNCHANGED <<disk, flushed, node, stirred, shut>> /\ shut[c] = "stop" /\ pc[c] = "idle"
    BY <1>4 DEF ShutdownStop, At
  <2>2. Closing' = Closing /\ c \in Closing
    BY <2>1 DEF Closing
  <2>3. /\ \A p \in Procs \ {c} : pc'[p] = pc[p] /\ job'[p] = job[p]
        /\ pc'[c] \in CloserSteps
    BY <1>4, <2>1 DEF ShutdownStop, StopBegin, Begin, Goto, CloserSteps, TypeOK, vars
  <2>4. ClosersStop'
    <3>1. ASSUME NEW d \in Closing PROVE pc'[d] \in CloserSteps
      BY <2>3, <3>1, NodeAssumption, StepNames DEF Closing, ShutInv, ClosersStop
    <3>. QED BY <2>2, <3>1 DEF ClosersStop
  <2>5. OthersStir'
    BY <2>1, <2>2, <2>3 DEF ShutInv, OthersStir, WorkOn
  <2>. QED BY <1>1, <2>1, <2>2, <2>4, <2>5, GoesOn DEF Living
<1>5. CASE ShutdownSave(c)
  <2>1. /\ UNCHANGED <<vars, node, stirred>> /\ (flushed' => disk' = Entries)
        /\ shut[c] = "save" /\ shut' = [shut EXCEPT ![c] = "done"]
    BY <1>5 DEF ShutdownSave, Save
  <2>2. Closing' = Closing /\ c \in Closing
    BY <2>1 DEF Closing, NodeVarsOK
  <2>. QED BY <1>1, <2>1, <2>2, SavesAll
<1>. QED BY <1>2, <1>3, <1>4, <1>5 DEF Shutdown

\* The node is being started, or it has just come up: no closer is at work.
LEMMA NoCloser ==
  ASSUME NodeLeak', \A c \in Closers : shut'[c] = "no", ~flushed',
         node' = "up" => SavedInv(FALSE)'
  PROVE  ShutInv'
<1>1. Closing' = {}
  BY DEF Closing
<1>. QED BY <1>1 DEF ShutInv, ClosersStop, OthersStir, Written

LEMMA RestSaved ==
  ASSUME TypeOK, TypeOK', AllQuiet, UNCHANGED <<pc, job>>,
         \A a \in Agents : saved'[a] = agents'[a].cid \/ agents'[a].cid = 0
  PROVE  SavedInv(FALSE)'
<1>1. \A p \in Procs : pc'[p] = "idle"
  BY DEF AllQuiet, Quiet, WorkOn, TypeOK
<1>2. \A a \in Agents : Synced(a, FALSE)'
  BY <1>1 DEF Synced, Sole, Agreed, WorkOn
<1>. QED BY <1>2 DEF SavedInv

LEMMA NodeStepShut ==
  ASSUME ShutInv, [NodeNext]_<<vars, nodeVars>>
  PROVE  ShutInv'
<1>. NodeLeak /\ NodeInv /\ TypeOK /\ DownIsOff
  BY NodeLeakParts, NodeInvParts DEF ShutInv, Parts
<1>1. NodeLeak' /\ TypeOK'
  <2>1. NodeLeak'
    BY NodeStepLeak
  <2>. QED BY <2>1, NodeStepType, NodeInvParts DEF Parts
<1>2. CASE Persist
  <2>1. /\ UNCHANGED <<vars, node, stirred, shut>> /\ node = "up"
        /\ flushed' => flushed /\ disk' = Entries
    BY <1>2 DEF Persist, Save
  <2>2. Closing' = Closing /\ (flushed => Closing # {})
    BY <2>1 DEF Closing, ShutInv, Written, Final
  <2>. QED BY <1>1, <2>1, <2>2, SavesAll
<1>3. CASE Outside
  <2>1. /\ UNCHANGED <<node, disk, flushed, stirred, shut, pc, job, left, overlapped>>
        /\ [Next]_vars
        /\ \A a \in Agents : docker'[a] # Gone => docker[a] # Gone
    <3>1. UNCHANGED <<pc, job, left, overlapped>>
      BY <1>3 DEF Outside, Environment, ContainerExits, ContainerRemoved, vars
    <3>2. \A a \in Agents : docker'[a] # Gone => docker[a] # Gone
      <4>1. \A b \in Agents : ContainerExits(b) => docker[b] # Gone
        BY DEF ContainerExits, Gone
      <4>. QED BY <1>3, <4>1 DEF Outside, Environment, ContainerExits, ContainerRemoved, vars, TypeOK
    <3>. QED BY <1>3, <3>1, <3>2 DEF Outside, Next
  <2>2. Closing' = Closing /\ (Final' <=> Final)
    BY <2>1 DEF Closing, Final
  <2>3. ClosersStop' /\ OthersStir' /\ Written'
    BY <2>1, <2>2 DEF ShutInv, ClosersStop, OthersStir, Written, Untouched, WorkOn
  <2>4. node = "up" => SavedInv(FALSE)'
    BY <2>1, StepSaved DEF ShutInv
  <2>. QED BY <1>1, <2>1, <2>3, <2>4 DEF ShutInv
<1>4. CASE Ending
  <2>1. /\ UNCHANGED <<docker, left, overlapped, stirred>> /\ node' \in {"down", "exited"}
        /\ \A c \in Closers : shut'[c] = "no"
        /\ flushed' => flushed /\ disk' = disk
    BY <1>4, DiesType DEF Dies
  <2>2. Written'
    BY <2>1 DEF ShutInv, Written, Final, Untouched
  <2>3. Closing' = {}
    BY <2>1 DEF Closing
  <2>. QED BY <1>1, <2>1, <2>2, <2>3 DEF ShutInv, ClosersStop, OthersStir
<1>5. ~flushed \/ node # "found"
  BY DEF ShutInv, Written, Final, Closing, DownIsOff
<1>6. CASE RecoverList \/ RecoverListFails
  <2>1. UNCHANGED <<pc, job, shut, agents>> /\ ~flushed' /\ AllQuiet /\ node # "up"
    BY <1>6, StartType DEF RecoverList, RecoverListFails, Start
  <2>2. SavedInv(FALSE)'
    <3>1. \A a \in Agents : agents'[a].cid = 0
      BY <2>1 DEF AllQuiet, LiveAgents, Live, NoAgent
    <3>. QED BY <1>1, <2>1, <3>1, RestSaved
  <2>. QED BY <1>1, <2>1, <2>2, NoCloser DEF DownIsOff
<1>7. ASSUME NEW a \in Agents, RecoverOrphan(a) PROVE ShutInv'
  BY <1>1, <1>5, <1>7, NoCloser DEF RecoverOrphan, DownIsOff
<1>8. CASE RecoverRestore
  <2>1. UNCHANGED <<pc, job, shut, flushed>> /\ node' = "up" /\ AllQuiet /\ node = "found"
    BY <1>8, RestoreType DEF RecoverRestore, Restoring
  <2>2. \A a \in Agents : saved'[a] = agents'[a].cid
    BY <1>8 DEF RecoverRestore, Restoring, NoAgent
  <2>3. SavedInv(FALSE)'
    BY <1>1, <2>1, <2>2, RestSaved
  <2>. QED BY <1>1, <1>5, <2>1, <2>3, NoCloser DEF DownIsOff
<1>. QED BY <1>1, <1>2, <1>3, <1>4, <1>6, <1>7, <1>8, GoroutineShuts, ShutdownShuts
         DEF NodeNext, Recover, Docker, Outside, Ending

LEMMA NodeInitShut == NodeInit => ShutInv
<1>. SUFFICES ASSUME NodeInit PROVE ShutInv
  OBVIOUS
<1>1. NodeLeak /\ node = "down" /\ ~flushed /\ \A c \in Closers : shut[c] = "no"
  BY NodeInitLeak DEF NodeInit
<1>2. Closing = {}
  BY <1>1 DEF Closing
<1>. QED BY <1>1, <1>2 DEF ShutInv, ClosersStop, OthersStir, Written, Final

(* daemon.go:228-269, state.go:89-99: whatever agents a node has, and       *)
(* whatever saves failed before: when the final save of a Shutdown succeeds *)
(* and none that is still under way spoils it, the file that is left names  *)
(* every container that nobody else was working on.                         *)
THEOREM NodeShutdownForgetsNothing == NodeSpec => []ShutdownForgetsNothing
<1>1. ShutInv => ShutdownForgetsNothing
  BY DEF ShutInv, ShutdownForgetsNothing, Written, Final, Untouched
<1>. QED BY <1>1, NodeInitShut, NodeStepShut, PTL DEF NodeSpec

-----------------------------------------------------------------------------
(* A Shutdown goes on. It waits for nobody but workers that have Manager.mu, *)
(* and these give it back (HolderWorks, GivesBack).                          *)

LEMMA NodeStepHolder ==
  ASSUME NodeInv, HolderWorks, NodeInv', [NodeNext]_<<vars, nodeVars>>
  PROVE  HolderWorks' /\ (node' = "up" => \A w \in Workers : mu = w => GivesBack(w))
<1>. TypeOK /\ Nobody \notin Workers /\ \A w \in Workers : w \in Procs
  BY NodeInvParts, StepNames, LifecycleAssumption DEF Parts, Procs
<1>0. node # "up" => mu = Nobody
  BY NodeInvParts DEF Parts, AllQuiet, Free
<1>1. ASSUME node' # "up" PROVE HolderWorks'
  <2>1. /\ mu' = Nobody /\ job' \in [Procs -> Agents]
        /\ \A a \in Agents, p \in Procs : ~(pc'[p] # "idle" /\ job'[p] = a)
    BY <1>1, NodeInvParts DEF Parts, AllQuiet, Free, Quiet, WorkOn, TypeOK
  <2>. QED BY <2>1 DEF HolderWorks
<1>2. CASE (Living /\ NodeVarsOK') \/ Outside
  <2>1. [Next]_vars
    BY <1>2 DEF Living, Outside, Next
  <2>. QED BY <2>1, StepHolder
<1>3. CASE Ending \/ RecoverList
  BY <1>1, <1>3 DEF Ending, Exit, Crash, RecoverList
<1>4. CASE RecoverListFails \/ RecoverRestore \/ \E a \in Agents : RecoverOrphan(a)
  <2>1. UNCHANGED <<mu, pc>> /\ node # "up"
    BY <1>4 DEF RecoverListFails, RecoverRestore, Restoring, RecoverOrphan, Start
  <2>. QED BY <1>0, <2>1 DEF HolderWorks
<1>. QED BY <1>2, <1>3, <1>4, NodeCases

(* manager.go:57-162, daemon.go:228-269: also of a node that shuts down, at *)
(* most one worker is inside Run or Stop, and it has Manager.mu.            *)
THEOREM NodeHolderWorks == NodeSpec => []HolderWorks
<1>1. NodeInit => HolderWorks
  BY InitHolder DEF NodeInit
<1>2. NodeInv /\ NodeInv' /\ HolderWorks /\ [NodeNext]_<<vars, nodeVars>> => HolderWorks'
  BY NodeStepHolder
<1>. QED BY <1>1, <1>2, NodeInitType, NodeStepType, PTL DEF NodeSpec

\* The steps of closer c itself.
LEMMA CloserNearer ==
  ASSUME NodeInv, HolderWorks, NEW c \in Closing, node' = "up", Shutdown(c) \/ CommandStep(c)
  PROVE  Nearer(c)
<1>. TypeOK /\ NodeVarsOK /\ c \in Closers /\ c \in Workers /\ c \in Procs /\ shut[c] # "no"
  BY NodeInvParts, NodeAssumption, StepNames DEF Parts, Closing
<1>1. CASE CommandStep(c)
  <2>1. UNCHANGED <<shut, todo>> /\ Command(c)
    BY <1>1 DEF CommandStep, While
  <2>2. /\ pc[c] # "idle"
        /\ pc'[c] = "idle" \/ StepsAfter[pc'[c]] < StepsAfter[pc[c]]
    BY <2>1, HolderSteps DEF HolderWorks, Goto, TypeOK
  <2>. QED BY <2>1, <2>2 DEF Nearer
<1>2. CASE ShutdownStopMonitor(c)
  BY <1>2 DEF ShutdownStopMonitor, Nearer, Stage, NodeVarsOK
<1>3. CASE ShutdownList(c)
  BY <1>3 DEF ShutdownList, Nearer, Stage, NodeVarsOK
<1>4. ASSUME NEW a \in Agents, ShutdownStop(c, a) PROVE Nearer(c)
  BY <1>4 DEF ShutdownStop, Nearer, NodeVarsOK
<1>5. CASE ShutdownSave(c)
  BY <1>5 DEF ShutdownSave, Nearer, Stage, NodeVarsOK
<1>6. CASE ShutdownFlush(c)
  BY <1>6 DEF ShutdownFlush, Nearer, Stage, NodeVarsOK
<1>7. ~ShutdownBegin(c) /\ ~Exit(c)
  BY DEF ShutdownBegin, Exit
<1>. QED BY <1>1, <1>2, <1>3, <1>4, <1>5, <1>6, <1>7 DEF Shutdown

\* The steps of everybody else.
LEMMA CloserKept ==
  ASSUME NodeInv, HolderWorks, NEW c \in Closing, node' = "up", [NodeNext]_<<vars, nodeVars>>,
         ~Shutdown(c), ~CommandStep(c)
  PROVE  UNCHANGED <<shut[c], todo[c], pc[c]>>
<1>. /\ TypeOK /\ NodeVarsOK /\ c \in Closers /\ c \in Workers /\ c \in Procs /\ node = "up"
     /\ Closers \subseteq Workers
  BY NodeInvParts, NodeAssumption, StepNames DEF Parts, DownIsOff, Closing
<1>1. ASSUME NEW p \in Procs \ {c}, NEW to, Goto(p, to) PROVE pc'[c] = pc[c]
  BY <1>1 DEF Goto, TypeOK
<1>2. ASSUME NEW w \in Workers, CommandStep(w) PROVE UNCHANGED <<shut[c], todo[c], pc[c]>>
  <2>1. w # c /\ Command(w) /\ UNCHANGED <<shut, todo>>
    BY <1>2 DEF CommandStep, While
  <2>2. \E to : Goto(w, to)
    BY <2>1, HolderSteps
  <2>. QED BY <1>1, <2>1, <2>2, StepNames
<1>3. CASE OtherStep
  <2>1. UNCHANGED <<shut, todo>>
    BY <1>3 DEF OtherStep, While
  <2>2. ASSUME NEW w \in Workers \ Closing, NEW a \in Agents, RunBegin(w, a) \/ StopBegin(w, a)
        PROVE  pc'[c] = pc[c]
    BY <1>1, <2>2, StepNames DEF RunBegin, StopBegin, Begin
  <2>3. CASE (\E t \in Handlers : Failure(t)) \/ (\E r \in Restarters : Restart(r)) \/ MonitorInspect
    BY <2>1, <2>3, HandlersLeaveLock DEF Check
  <2>. QED BY <1>3, <2>1, <2>2, <2>3 DEF OtherStep, While
<1>4. CASE MonitorTick \/ MonitorEnd \/ Persist
  BY <1>4 DEF MonitorTick, MonitorSnapshot, MonitorEnd, Persist, vars
<1>5. ASSUME NEW d \in Closers, Shutdown(d) PROVE UNCHANGED <<shut[c], todo[c], pc[c]>>
  <2>1. d # c
    BY <1>5
  <2>2. ASSUME NEW a \in Agents, ShutdownStop(d, a) PROVE UNCHANGED <<shut[c], todo[c], pc[c]>>
    <3>1. UNCHANGED pc \/ \E to : Goto(d, to)
      BY <2>2 DEF ShutdownStop, StopBegin, Begin, vars
    <3>. QED BY <1>1, <2>1, <2>2, <3>1, StepNames DEF ShutdownStop, NodeVarsOK
  <2>3. CASE ShutdownBegin(d) \/ ShutdownStopMonitor(d) \/ ShutdownList(d)
              \/ ShutdownFlush(d) \/ ShutdownSave(d)
    BY <2>1, <2>3 DEF ShutdownBegin, ShutdownStopMonitor, ShutdownList, ShutdownFlush, ShutdownSave,
                      NodeVarsOK, vars
  <2>4. ~Exit(d)
    BY DEF Exit
  <2>. QED BY <1>5, <2>2, <2>3, <2>4 DEF Shutdown
<1>6. CASE Docker \/ UNCHANGED <<vars, nodeVars>>
  BY <1>6 DEF Docker, Environment, ContainerExits, ContainerRemoved, vars
<1>7. ~Crash /\ ~Recover
  BY DEF Crash, Recover, RecoverList, RecoverListFails, RecoverRestore, Restoring, RecoverOrphan, Start
<1>. QED BY <1>2, <1>3, <1>4, <1>5, <1>6, <1>7 DEF NodeNext

(* daemon.go:228-269: a Shutdown only goes forward, whatever goes on        *)
(* besides: with the fairness that ShutdownEnds assumes, it ends.           *)
THEOREM NodeShutdownForward == NodeSpec => ShutdownOnlyForward
<1>. DEFINE Forward == \A c \in Closing : node' = "up" =>
              IF Shutdown(c) \/ CommandStep(c) THEN Nearer(c)
              ELSE UNCHANGED <<shut[c], todo[c], pc[c]>>
<1>1. NodeInv /\ HolderWorks /\ [NodeNext]_<<vars, nodeVars>> => [Forward]_<<vars, nodeVars>>
  BY CloserNearer, CloserKept
<1>2. NodeSpec => []NodeInv
  BY NodeInitType, NodeStepType, PTL DEF NodeSpec
<1>. QED BY <1>1, <1>2, NodeHolderWorks, PTL DEF NodeSpec, ShutdownOnlyForward

-----------------------------------------------------------------------------
(* Capacity over all lives. Adopted agents aside, a slot is kept for each   *)
(* agent and for the worker that deploys one. When the process ends, what   *)
(* the next start may bring back are the containers of these agents: a      *)
(* restart that nobody interferes with works on an agent that is there.     *)

Counted == LiveAgents \ adopted

Room ==
  /\ Cardinality(Counted) <= MaxAgents
  /\ \A w \in Workers : pc[w] \in DeploySteps => Cardinality(Counted) < MaxAgents

Rebuilds == DeploySteps \cup {"stopOld", "removeOld", "discard"}

Rooted ==
  \A r \in Restarters, a \in Agents :
    WorkOn(r, a) /\ pc[r] \in Rebuilds /\ ~overlapped[a] => Live(a) /\ pc[r] # "discard"

Clear(a) == a \notin adopted /\ ~overlapped[a] /\ ~left[a]
Expected == {a \in Agents : docker[a] # Gone /\ Clear(a)}
Listable == {a \in Agents : found[a] # 0 /\ Clear(a)}

RoomInv ==
  /\ ShutInv
  /\ IF node = "up" THEN Room /\ Rooted ELSE Cardinality(Expected) <= MaxAgents
  /\ node = "found" => Cardinality(Listable) <= MaxAgents

LEMMA Fewer ==
  ASSUME NEW S, NEW T \in SUBSET Agents, S \subseteq T
  PROVE  Cardinality(S) \in Nat /\ Cardinality(T) \in Nat /\ Cardinality(S) <= Cardinality(T)
BY LifecycleAssumption, FS_Subset, FS_CardinalityType

LEMMA OneMore ==
  ASSUME NEW S \in SUBSET Agents, NEW a, NEW T, T \subseteq S \cup {a}
  PROVE  Cardinality(T) \in Nat /\ Cardinality(T) <= Cardinality(S) + 1
<1>1. IsFiniteSet(S) /\ Cardinality(S) \in Nat
  BY LifecycleAssumption, FS_Subset, FS_CardinalityType
<1>2. /\ IsFiniteSet(S \cup {a})
      /\ \/ Cardinality(S \cup {a}) = Cardinality(S)
         \/ Cardinality(S \cup {a}) = Cardinality(S) + 1
  BY <1>1, FS_AddElement, Zenon
<1>3. Cardinality(T) <= Cardinality(S \cup {a}) /\ Cardinality(T) \in Nat
  BY <1>2, FS_Subset, FS_CardinalityType
<1>. QED BY <1>1, <1>2, <1>3

\* Who makes a record appear or go.
LEMMA RecordMoves ==
  ASSUME LeakInv(Most), [Next]_vars, NEW a \in Agents
  PROVE  /\ Live(a) /\ ~Live(a)' => \E p \in Procs : WorkOn(p, a) /\ pc[p] \in {"delete", "drop"}
         /\ ~Live(a) /\ Live(a)' => \E w \in Workers : job[w] = a /\ RunCommit(w)
<1>. TypeOK
  BY DEF LeakInv, CapacityInv
<1>. DEFINE Goes == \E p \in Procs : WorkOn(p, a) /\ pc[p] \in {"delete", "drop"}
            Comes == \E w \in Workers : job[w] = a /\ RunCommit(w)
            Claim == (Live(a) /\ ~Live(a)' => Goes) /\ (~Live(a) /\ Live(a)' => Comes)
<1>1. ASSUME UNCHANGED agents PROVE Claim
  BY <1>1 DEF Live
<1>2. ASSUME NEW p \in Workers \cup Restarters, CreateSteps(p) PROVE Claim
  BY <1>1, <1>2 DEF CreateSteps, CreateList, CreateEvict, CreateContainer, CreateFails,
                    StartContainer, StartUndo
<1>3. ASSUME NEW p \in Procs, pc[p] \in {"delete", "drop"},
             agents' = [agents EXCEPT ![job[p]] = NoAgent]
      PROVE  Claim
  <2>1. job[p] = a => Goes
    BY <1>3 DEF WorkOn
  <2>2. job[p] # a => agents'[a] = agents[a]
    BY <1>3 DEF TypeOK
  <2>3. job[p] = a => ~Live(a)'
    BY <1>3 DEF Live, TypeOK
  <2>. QED BY <2>1, <2>2, <2>3 DEF Live
<1>4. ASSUME NEW w \in Workers, Command(w) PROVE Claim
  <2>1. CASE RunCommit(w)
    <3>1. job[w] # a => agents'[a] = agents[a]
      BY <2>1 DEF RunCommit, TypeOK
    <3>2. ~Live(job[w])
      BY <2>1 DEF RunCommit, At, LeakInv, CapacityInv, SlotReserved, DeploySteps
    <3>3. job[w] = a => Comes
      BY <2>1
    <3>. QED BY <3>1, <3>2, <3>3 DEF Live
  <2>2. CASE StopContainer(w) \/ StopRemove(w)
    BY <1>1, <2>2 DEF StopContainer, StopRemove
  <2>3. CASE StopDelete(w)
    BY <1>3, <2>3, StepNames DEF StopDelete, At
  <2>. QED BY <1>2, <1>4, <2>1, <2>2, <2>3 DEF Command
<1>5. ASSUME NEW t \in Handlers, Failure(t) PROVE Claim
  <2>. t \in Procs /\ job[t] \in Agents
    BY StepNames DEF Handlers, TypeOK
  <2>1. CASE HandleFailure(t)
    <3>1. \/ agents' = agents
          \/ Live(job[t]) /\ agents[job[t]].count + 1 \in Nat \ {0}
             /\ agents' = [agents EXCEPT ![job[t]].count = agents[job[t]].count + 1]
      BY <2>1 DEF HandleFailure, TypeOK
    <3>. QED BY <3>1 DEF Live, NoAgent, TypeOK
  <2>2. CASE GiveUpDrop(t)
    BY <1>3, <2>2 DEF GiveUpDrop, At
  <2>. QED BY <1>1, <1>5, <2>1, <2>2
       DEF Failure, GiveUpMark, GiveUpStop, GiveUpRemove, GiveUpForget
<1>6. ASSUME NEW r \in Restarters, Restart(r) PROVE Claim
  <2>1. CASE RestartCommit(r)
    <3>1. agents' = agents \/ (Live(job[r]) /\ agents' = [agents EXCEPT ![job[r]].cid = held[r]])
      BY <2>1 DEF RestartCommit
    <3>2. r \in Procs /\ job[r] \in Agents /\ MadeBy(r, job[r])
      BY <2>1, StepNames DEF RestartCommit, At, MadeBy, Making, TypeOK
    <3>3. held[r] # 0
      BY <3>2 DEF LeakInv, Traced, Own
    <3>. QED BY <3>1, <3>2, <3>3 DEF Live, NoAgent, TypeOK
  <2>. QED BY <1>1, <1>2, <1>6, <2>1
       DEF Restart, RestartRead, RestartStopOld, RestartRemoveOld, RestartSave, RestartDiscard
<1>7. CASE \E w \in Workers, b \in Agents : RunBegin(w, b) \/ StopBegin(w, b)
  BY <1>1, <1>7 DEF RunBegin, StopBegin
<1>8. CASE Check \/ \E b \in Agents : Environment(b)
  BY <1>1, <1>8 DEF Check, MonitorSnapshot, MonitorInspect, Environment, ContainerExits, ContainerRemoved
<1>. QED BY <1>1, <1>4, <1>5, <1>6, <1>7, <1>8 DEF Next, vars

LEMMA WorkerMoves ==
  ASSUME LeakInv(Most), [Next]_vars, NEW w \in Workers, pc'[w] \in DeploySteps
  PROVE  pc[w] \in DeploySteps \/ \E a \in Agents : RunBegin(w, a)
<1>. TypeOK /\ CapacityInv(Most) /\ Most \in Limits /\ w \in Procs
  BY StepNames, MostLimit DEF LeakInv, CapacityInv
<1>1. ASSUME NEW v \in Workers, Command(v) PROVE pc[w] \in DeploySteps
  <2>1. CASE CreateSteps(v)
    <3>1. PICK to : Goto(v, to) /\ pc[v] \in DeploySteps
      BY <2>1, CreateShape
    <3>. QED BY <3>1 DEF Goto, TypeOK
  <2>2. CASE ~CreateSteps(v)
    <3>1. PICK to \in {"idle", "remove", "delete"} : Goto(v, to)
      BY <1>1, <2>2 DEF Command, RunCommit, StopContainer, StopRemove, StopDelete, Move
    <3>. QED BY <3>1 DEF Goto, DeploySteps, TypeOK
  <2>. QED BY <2>1, <2>2
<1>2. ASSUME NEW v \in Workers, NEW a \in Agents, RunBegin(v, a) \/ StopBegin(v, a)
      PROVE  pc[w] \in DeploySteps \/ RunBegin(w, a)
  <2>1. RunBegin(v, a) \/ pc' = [pc EXCEPT ![v] = "stop"]
    BY <1>2 DEF StopBegin, Begin, Goto
  <2>2. pc' = [pc EXCEPT ![v] = "stop"] \/ pc' = [pc EXCEPT ![v] = "list"]
    BY <1>2 DEF RunBegin, StopBegin, Begin, Goto
  <2>. QED BY <2>1, <2>2 DEF DeploySteps, TypeOK
<1>3. CASE (\E t \in Handlers : Failure(t)) \/ (\E r \in Restarters : Restart(r)) \/ Check
  BY <1>3, HandlersLeaveLock
<1>4. CASE (\E a \in Agents : Environment(a)) \/ UNCHANGED vars
  BY <1>4 DEF Environment, ContainerExits, ContainerRemoved, vars
<1>. QED BY <1>1, <1>2, <1>3, <1>4 DEF Next

LEMMA RestarterMoves ==
  ASSUME LeakInv(Most), [Next]_vars, NEW r \in Restarters
  PROVE  \/ pc'[r] = pc[r] /\ job'[r] = job[r]
         \/ Restart(r) \/ pc'[r] \notin Rebuilds
<1>. TypeOK /\ CapacityInv(Most) /\ Most \in Limits /\ r \in Procs /\ r \notin Workers /\ r # Monitor
  BY StepNames, MostLimit, LifecycleAssumption DEF LeakInv, CapacityInv
<1>. DEFINE Stays == pc'[r] = pc[r] /\ job'[r] = job[r]
<1>1. ASSUME NEW p \in Procs \ {r}, NEW to, Goto(p, to), UNCHANGED job PROVE Stays
  BY <1>1 DEF Goto, TypeOK
<1>2. ASSUME NEW w \in Workers, Command(w) PROVE Stays
  <2>1. (\E to : Goto(w, to)) /\ UNCHANGED job
    BY <1>2 DEF Command, CreateSteps, CreateList, CreateEvict, CreateContainer, CreateFails,
                StartContainer, StartUndo, RunCommit, StopContainer, StopRemove, StopDelete, Move
  <2>. QED BY <1>1, <2>1, StepNames
<1>3. ASSUME NEW w \in Workers, NEW a \in Agents, RunBegin(w, a) \/ StopBegin(w, a) PROVE Stays
  BY <1>3 DEF RunBegin, StopBegin, Begin, Goto, TypeOK
<1>4. ASSUME NEW t \in Handlers, Failure(t) PROVE Stays \/ pc'[r] \notin Rebuilds
  <2>1. CASE HandleFailure(t)
    <3>1. \/ UNCHANGED job /\ \E to \in {"idle", "mark"} : Goto(t, to)
          \/ \E q \in Restarters : /\ pc' = [pc EXCEPT ![t] = "idle", ![q] = "read"]
                                   /\ job' = [job EXCEPT ![q] = job[t]]
      BY <2>1 DEF HandleFailure, Move, Idle
    <3>. QED BY <3>1 DEF Goto, Rebuilds, DeploySteps, TypeOK
  <2>2. CASE ~HandleFailure(t)
    <3>1. UNCHANGED job /\ \E to \in {"stopDead", "removeDead", "drop", "forget", "idle"} : Goto(t, to)
      BY <1>4, <2>2 DEF Failure, GiveUpMark, GiveUpStop, GiveUpRemove, GiveUpDrop, GiveUpForget, Move
    <3>. QED BY <3>1 DEF Goto, Rebuilds, DeploySteps, TypeOK
  <2>. QED BY <2>1, <2>2
<1>5. ASSUME NEW q \in Restarters \ {r}, Restart(q) PROVE Stays
  <2>1. (\E to : Goto(q, to)) /\ UNCHANGED job
    BY <1>5 DEF Restart, CreateSteps, CreateList, CreateEvict, CreateContainer, CreateFails,
                StartContainer, StartUndo, RestartRead, RestartStopOld, RestartRemoveOld,
                RestartCommit, RestartSave, RestartDiscard, Move
  <2>. QED BY <1>1, <2>1, StepNames
<1>6. CASE Check
  BY <1>6, MonitorFrame
<1>7. CASE (\E a \in Agents : Environment(a)) \/ UNCHANGED vars
  BY <1>7 DEF Environment, ContainerExits, ContainerRemoved, vars
<1>. QED BY <1>2, <1>3, <1>4, <1>5, <1>6, <1>7 DEF Next

LEMMA StepRooted ==
  ASSUME LeakInv(Most), SavedInv(FALSE), Rooted, [Next]_vars
  PROVE  Rooted'
<1>. SUFFICES ASSUME NEW r \in Restarters, NEW a \in Agents,
                     WorkOn(r, a)', pc'[r] \in Rebuilds, ~overlapped'[a]
              PROVE  Live(a)' /\ pc'[r] # "discard"
  BY DEF Rooted
<1>. TypeOK /\ r \in Procs
  BY StepNames DEF SavedInv
<1>1. ~overlapped[a] /\ Sole(a)
  BY KeptTrack DEF SavedInv, Synced
<1>2. CASE pc'[r] = pc[r] /\ job'[r] = job[r]
  <2>1. WorkOn(r, a) /\ Live(a) /\ pc[r] # "discard" /\ pc[r] \notin {"delete", "drop"}
    BY <1>1, <1>2 DEF Rooted, WorkOn, Rebuilds, DeploySteps
  <2>. QED BY <1>1, <1>2, <2>1, RecordMoves DEF Sole
<1>3. CASE Restart(r)
  <2>1. UNCHANGED job /\ pc[r] \in Rebuilds \cup {"read", "save"}
    BY <1>3 DEF Restart, CreateSteps, CreateList, CreateEvict, CreateContainer, CreateFails,
                StartContainer, StartUndo, RestartRead, RestartStopOld, RestartRemoveOld,
                RestartCommit, RestartSave, RestartDiscard, At, Rebuilds, DeploySteps
  <2>2. WorkOn(r, a) /\ job[r] = a
    BY <2>1 DEF WorkOn, Rebuilds, DeploySteps
  <2>3. Live(a)
    <3>1. pc[r] \in {"read", "save"} => RestartRead(r) \/ RestartSave(r)
      BY <1>3 DEF Restart, CreateSteps, CreateList, CreateEvict, CreateContainer, CreateFails,
                  StartContainer, StartUndo, RestartStopOld, RestartRemoveOld,
                  RestartCommit, RestartDiscard, At
    <3>2. RestartSave(r) => pc'[r] = "idle"
      BY DEF RestartSave, Move, Goto, TypeOK
    <3>3. RestartRead(r) => Live(a) \/ pc'[r] = "idle"
      BY <2>2 DEF RestartRead, Move, Goto, TypeOK
    <3>. QED BY <1>1, <2>1, <2>2, <3>1, <3>2, <3>3 DEF Rooted, Rebuilds, DeploySteps
  <2>4. Live(a)'
    <3>1. pc[r] \notin {"delete", "drop"}
      BY <2>1 DEF Rebuilds, DeploySteps
    <3>. QED BY <1>1, <2>2, <2>3, <3>1, RecordMoves DEF Sole
  <2>5. pc'[r] # "discard"
    <3>1. \E to \in Steps \ {"discard"} : Goto(r, to)
      BY <1>3, <2>2, <2>3
      DEF Restart, CreateSteps, CreateList, CreateEvict, CreateContainer, CreateFails,
          StartContainer, StartUndo, RestartRead, RestartStopOld, RestartRemoveOld, AfterFailure,
          RestartCommit, RestartSave, RestartDiscard, Move, Steps, RestartSteps, DeploySteps, FailureSteps
    <3>. QED BY <3>1 DEF Goto, TypeOK
  <2>. QED BY <2>4, <2>5
<1>. QED BY <1>2, <1>3, RestarterMoves

LEMMA StepRoom ==
  ASSUME LeakInv(Most), Room, adopted \subseteq Agents, [Next]_vars,
         LiveAgents' \ adopted' \subseteq LiveAgents' \ adopted
  PROVE  Room'
<1>. TypeOK /\ LockHeld /\ MaxAgents \in Nat
  BY MostLimit DEF LeakInv, CapacityInv
<1>0. Counted \subseteq Agents /\ Counted \subseteq LiveAgents /\ Cardinality(Counted) \in Nat
  BY Fewer DEF Counted, LiveAgents
<1>1. ASSUME NEW w \in Workers, RunCommit(w) PROVE Room'
  <2>1. pc[w] = "commit" /\ mu = w /\ pc'[w] = "idle"
    BY <1>1, StepNames, MoveParts DEF RunCommit, At, LockHeld
  <2>2. Counted' \subseteq Counted \cup {job[w]}
    <3>1. ASSUME NEW a \in Agents, Live(a)', ~Live(a) PROVE a = job[w]
      <4>1. PICK v \in Workers : job[v] = a /\ RunCommit(v)
        BY <3>1, RecordMoves
      <4>2. v = mu
        BY <4>1 DEF RunCommit, At, LockHeld
      <4>. QED BY <2>1, <4>1, <4>2
    <3>. QED BY <3>1 DEF Counted, LiveAgents
  <2>3. Cardinality(Counted) < MaxAgents
    BY <2>1 DEF Room, DeploySteps
  <2>4. Cardinality(Counted') <= MaxAgents
    <3>1. Cardinality(Counted') \in Nat /\ Cardinality(Counted') <= Cardinality(Counted) + 1
      BY <1>0, <2>2, OneMore
    <3>. QED BY <1>0, <2>3, <3>1
  <2>5. ASSUME NEW v \in Workers, pc'[v] \in DeploySteps PROVE FALSE
    <3>1. pc[v] \in DeploySteps \/ Free
      BY <2>5, WorkerMoves DEF RunBegin
    <3>2. mu = v
      BY <2>1, <3>1, LifecycleAssumption, StepNames DEF Free, LockHeld, DeploySteps
    <3>. QED BY <2>1, <2>5, <3>2 DEF DeploySteps
  <2>. QED BY <2>4, <2>5 DEF Room
<1>2. CASE ~ \E w \in Workers : RunCommit(w)
  <2>1. LiveAgents' \subseteq LiveAgents
    BY <1>2, RecordMoves DEF LiveAgents
  <2>2. Counted' \subseteq Counted
    BY <2>1 DEF Counted
  <2>3. Cardinality(Counted') \in Nat /\ Cardinality(Counted') <= Cardinality(Counted)
    BY <1>0, <2>2, Fewer
  <2>4. ASSUME NEW w \in Workers, pc'[w] \in DeploySteps PROVE Cardinality(Counted') < MaxAgents
    <3>1. CASE pc[w] \in DeploySteps
      BY <1>0, <2>3, <3>1 DEF Room
    <3>2. CASE \E a \in Agents : RunBegin(w, a)
      <4>1. Cardinality(LiveAgents) < MaxAgents
        BY <3>2 DEF RunBegin
      <4>2. Cardinality(Counted) <= Cardinality(LiveAgents) /\ Cardinality(LiveAgents) \in Nat
        BY <1>0, Fewer DEF LiveAgents
      <4>. QED BY <1>0, <2>3, <4>1, <4>2
    <3>. QED BY <2>4, <3>1, <3>2, WorkerMoves
  <2>. QED BY <1>0, <2>3, <2>4 DEF Room
<1>. QED BY <1>1, <1>2

\* What the node manages, or is making, is all that a next start may bring
\* back and count.
LEMMA ExpectedCounted ==
  ASSUME LeakInv(Most), Room, Rooted
  PROVE  Cardinality(Expected) <= MaxAgents
<1>. TypeOK /\ LockHeld /\ MaxAgents \in Nat
  BY MostLimit DEF LeakInv, CapacityInv
<1>0. Counted \subseteq Agents /\ Cardinality(Counted) \in Nat /\ Cardinality(Counted) <= MaxAgents
  BY Fewer DEF Counted, LiveAgents, Room
<1>1. ASSUME NEW a \in Expected
      PROVE  a \in Counted \/ \E w \in Workers : pc[w] \in DeploySteps /\ job[w] = a
  <2>. SUFFICES ASSUME ~Live(a)
                PROVE  \E w \in Workers : pc[w] \in DeploySteps /\ job[w] = a
    BY DEF Expected, Clear, Counted, LiveAgents
  <2>1. PICK p \in Procs : MadeBy(p, a)
    BY DEF LeakInv, Traced, Known, Expected, Clear
  <2>2. p \in Restarters => pc[p] \in Rebuilds /\ WorkOn(p, a)
    BY <2>1 DEF MadeBy, Making, Rebuilds, DeploySteps, WorkOn
  <2>3. p \notin Restarters
    BY <2>2 DEF Rooted, Expected, Clear
  <2>4. p # Monitor
    BY <2>1, StepNames DEF MadeBy, Making, FailureSteps, TypeOK
  <2>5. p \in Workers /\ pc[p] \in {"idle"} \cup CommandSteps
    BY <2>3, <2>4, StepNames DEF Procs, TypeOK
  <2>. QED BY <2>1, <2>5 DEF MadeBy, Making, CommandSteps, DeploySteps
<1>2. ASSUME NEW w \in Workers, pc[w] \in DeploySteps
      PROVE  Cardinality(Expected) <= MaxAgents
  <2>1. \A v \in Workers : pc[v] \in DeploySteps => v = w
    BY <1>2 DEF LockHeld, DeploySteps
  <2>2. Expected \subseteq Counted \cup {job[w]}
    BY <1>1, <2>1
  <2>3. Cardinality(Expected) \in Nat /\ Cardinality(Expected) <= Cardinality(Counted) + 1
    BY <1>0, <2>2, OneMore
  <2>4. Cardinality(Counted) < MaxAgents
    BY <1>2 DEF Room
  <2>. QED BY <1>0, <2>3, <2>4
<1>3. CASE \A w \in Workers : pc[w] \notin DeploySteps
  <2>1. Expected \subseteq Counted
    BY <1>1, <1>3
  <2>2. Cardinality(Expected) \in Nat /\ Cardinality(Expected) <= Cardinality(Counted)
    BY <1>0, <2>1, Fewer
  <2>. QED BY <1>0, <2>2
<1>. QED BY <1>2, <1>3

\* A set that only got smaller.
LEMMA StillFits ==
  ASSUME NEW S, NEW T \in SUBSET Agents, S \subseteq T, Cardinality(T) <= MaxAgents
  PROVE  Cardinality(S) <= MaxAgents
<1>1. Cardinality(S) \in Nat /\ Cardinality(T) \in Nat /\ Cardinality(S) <= Cardinality(T)
  BY Fewer
<1>. QED BY <1>1, LifecycleAssumption

\* A node that comes up, nobody at work yet.
LEMMA UpRoom ==
  ASSUME TypeOK', AllQuiet, UNCHANGED <<pc, job>>,
         NEW T \in SUBSET Agents, Cardinality(T) <= MaxAgents, Counted' \subseteq T
  PROVE  Room' /\ Rooted'
<1>1. \A p \in Procs : pc'[p] = "idle"
  BY DEF AllQuiet, Quiet, WorkOn, TypeOK
<1>2. Cardinality(Counted') <= MaxAgents
  BY StillFits
<1>. QED BY <1>1, <1>2, StepNames DEF Room, Rooted, WorkOn, DeploySteps

\* Only a recovery takes agents out of the count.
LEMMA LivingAdopts ==
  ASSUME \/ \E w \in Workers : CommandStep(w)
         \/ OtherStep \/ MonitorTick \/ MonitorEnd \/ Persist
         \/ \E c \in Closers : Shutdown(c) /\ ~Exit(c)
         \/ Outside
  PROVE  LiveAgents' \ adopted' \subseteq LiveAgents' \ adopted
<1>1. adopted' = adopted \/ adopted' = adopted \cap LiveAgents'
  BY DEF CommandStep, OtherStep, While, MonitorTick, MonitorEnd, Persist, Shutdown,
         ShutdownBegin, ShutdownStopMonitor, ShutdownList, ShutdownStop, ShutdownFlush, ShutdownSave, Outside
<1>. QED BY <1>1

LEMMA UpStepRoom ==
  ASSUME RoomInv, ShutInv', node = "up", node' = "up", [Next]_vars,
         LiveAgents' \ adopted' \subseteq LiveAgents' \ adopted
  PROVE  RoomInv'
<1>1. LeakInv(Most) /\ SavedInv(FALSE) /\ Room /\ Rooted /\ adopted \subseteq Agents
  BY NodeInvParts DEF RoomInv, ShutInv, NodeLeak, NodeBudget, BudgetInv, LeakInv, Parts, NodeVarsOK
<1>2. Room' /\ Rooted'
  BY <1>1, StepRoom, StepRooted
<1>. QED BY <1>2 DEF RoomInv

LEMMA NodeStepRoom ==
  ASSUME RoomInv, [NodeNext]_<<vars, nodeVars>>
  PROVE  RoomInv'
<1>. ShutInv /\ NodeLeak /\ NodeInv /\ TypeOK
  BY NodeLeakParts DEF RoomInv, ShutInv
<1>1. ShutInv' /\ TypeOK'
  BY NodeStepShut, NodeStepType, NodeInvParts DEF Parts
<1>2. ASSUME ~Ending, ~Recover PROVE RoomInv'
  <2>1. \/ \E w \in Workers : CommandStep(w)
        \/ OtherStep \/ MonitorTick \/ MonitorEnd \/ Persist
        \/ \E c \in Closers : Shutdown(c) /\ ~Exit(c)
        \/ Outside
    BY <1>2 DEF NodeNext, Ending, Docker, Outside
  <2>2. Living \/ Outside
    BY <2>1, GoroutineStep, ShutdownStep
  <2>3. CASE node = "up"
    <3>1. [Next]_vars /\ node' = node
      BY <2>2 DEF Living, Outside, Next
    <3>. QED BY <1>1, <2>1, <2>3, <3>1, LivingAdopts, UpStepRoom
  <2>4. CASE node # "up"
    <3>1. Outside /\ node' = node
      BY <2>2, <2>4 DEF Living, Outside
    <3>2. UNCHANGED <<left, overlapped, adopted, found>>
      BY <3>1 DEF Outside, Environment, ContainerExits, ContainerRemoved, vars
    <3>3. \A a \in Agents : docker'[a] # Gone => docker[a] # Gone
      <4>1. \A b \in Agents : ContainerExits(b) => docker[b] # Gone
        BY DEF ContainerExits, Gone
      <4>. QED BY <3>1, <4>1 DEF Outside, Environment, ContainerExits, ContainerRemoved, vars, TypeOK
    <3>4. Expected' \subseteq Expected /\ Listable' = Listable
      BY <3>2, <3>3 DEF Expected, Listable, Clear
    <3>5. Cardinality(Expected') <= MaxAgents
      BY <2>4, <3>4, StillFits DEF RoomInv, Expected
    <3>. QED BY <1>1, <2>4, <3>1, <3>4, <3>5 DEF RoomInv
  <2>. QED BY <2>3, <2>4
<1>3. CASE Ending
  <2>1. UNCHANGED <<docker, left, overlapped, adopted>> /\ node' \in {"down", "exited"}
    BY <1>3, DiesType DEF Dies, Ending, Exit, Crash
  <2>2. Cardinality(Expected) <= MaxAgents
    <3>1. CASE node = "up"
      BY <3>1, ExpectedCounted DEF RoomInv, NodeLeak, NodeBudget, BudgetInv, LeakInv
    <3>. QED BY <3>1 DEF RoomInv
  <2>3. Expected' = Expected
    BY <2>1 DEF Expected, Clear
  <2>. QED BY <1>1, <2>1, <2>2, <2>3 DEF RoomInv
<1>4. CASE RecoverList
  <2>1. /\ UNCHANGED <<docker, left, overlapped, adopted>> /\ node # "up" /\ node' = "found"
        /\ found' = [a \in Agents |-> docker[a].cid]
    BY <1>4 DEF RecoverList, Start
  <2>2. Expected' = Expected /\ Listable' = Expected
    BY <2>1 DEF Expected, Listable, Clear, NodeLeak, Resting
  <2>. QED BY <1>1, <2>1, <2>2 DEF RoomInv
<1>5. CASE RecoverListFails
  <2>1. UNCHANGED <<pc, job, agents>> /\ AllQuiet /\ node' = "up"
    BY <1>5, StartType DEF RecoverListFails, Start
  <2>2. Counted' \subseteq {}
    BY <2>1 DEF AllQuiet, Counted, LiveAgents, Live
  <2>3. Cardinality({}) <= MaxAgents
    BY FS_EmptySet, LifecycleAssumption
  <2>4. Room' /\ Rooted'
    BY <1>1, <2>1, <2>2, <2>3, UpRoom
  <2>. QED BY <1>1, <2>1, <2>4 DEF RoomInv
<1>6. ASSUME NEW a \in Agents, RecoverOrphan(a) PROVE RoomInv'
  <2>1. /\ UNCHANGED <<overlapped, adopted>> /\ node = "found" /\ node' = "found"
        /\ found' = [found EXCEPT ![a] = 0] /\ found \in [Agents -> Nat]
    BY <1>6, NodeInvParts DEF RecoverOrphan, Parts
  <2>2. PICK ok \in BOOLEAN : Removing(a, found[a], ok)
    BY <1>6 DEF RecoverOrphan
  <2>3. \A b \in Agents : (docker'[b] # Gone => docker[b] # Gone) /\ (left[b] => left'[b])
    <3>1. UNCHANGED <<agents, made>>
      BY <1>6 DEF RecoverOrphan
    <3>2. \A b \in Agents \ {a} : docker'[b] = docker[b] /\ left'[b] = left[b]
      BY <2>2, <3>1, RemovingParts
    <3>3. Shrinks(a)
      BY <2>2, <3>1, RemovingParts
    <3>. QED BY <3>2, <3>3 DEF Shrinks
  <2>4. Expected' \subseteq Expected /\ Listable' \subseteq Listable
    BY <2>1, <2>3 DEF Expected, Listable, Clear
  <2>5. Cardinality(Expected') <= MaxAgents /\ Cardinality(Listable') <= MaxAgents
    BY <2>1, <2>4, StillFits DEF RoomInv, Expected, Listable
  <2>. QED BY <1>1, <2>1, <2>5 DEF RoomInv
<1>7. CASE RecoverRestore
  <2>1. UNCHANGED <<pc, job>> /\ AllQuiet /\ node = "found" /\ node' = "up"
    BY <1>7, RestoreType
  <2>2. /\ adopted' = {a \in Kept : a \in adopted \/ left[a] \/ overlapped[a]}
        /\ \A a \in Agents : a \notin Kept => agents'[a] = NoAgent
    BY <1>7 DEF RecoverRestore, Restoring
  <2>3. Counted' \subseteq Listable
    BY <2>2 DEF Counted, LiveAgents, Live, Listable, Clear, Kept, Entries
  <2>4. Listable \in SUBSET Agents /\ Cardinality(Listable) <= MaxAgents
    BY <2>1 DEF RoomInv, Listable
  <2>5. Room' /\ Rooted'
    BY <1>1, <2>1, <2>3, <2>4, UpRoom
  <2>. QED BY <1>1, <2>1, <2>5 DEF RoomInv
<1>. QED BY <1>2, <1>3, <1>4, <1>5, <1>6, <1>7 DEF Recover

LEMMA NodeInitRoom == NodeInit => RoomInv
<1>. SUFFICES ASSUME NodeInit PROVE RoomInv
  OBVIOUS
<1>1. ShutInv /\ node = "down"
  BY NodeInitShut DEF NodeInit
<1>2. Expected = {}
  BY DEF NodeInit, Init, Expected
<1>3. Cardinality(Expected) <= MaxAgents
  BY <1>2, FS_EmptySet, LifecycleAssumption
<1>. QED BY <1>1, <1>3 DEF RoomInv

(* recover.go:73-87, manager.go:62: over any number of lives, the agents a  *)
(* node manages, those aside that a recovery brought back although it had   *)
(* given their container up or they were worked on twice at once, are never *)
(* more than its capacity.                                                  *)
THEOREM NodeWithinCapacity == NodeSpec => []WithinCapacity
<1>1. RoomInv => WithinCapacity
  <2>. SUFFICES ASSUME RoomInv PROVE WithinCapacity
    OBVIOUS
  <2>1. CASE node = "up"
    BY <2>1 DEF RoomInv, Room, Counted, WithinCapacity
  <2>2. CASE node # "up"
    <3>1. LiveAgents \ adopted = {}
      BY <2>2, NodeLeakParts, NodeInvParts DEF RoomInv, ShutInv, Parts, AllQuiet
    <3>. QED BY <3>1, FS_EmptySet, LifecycleAssumption DEF WithinCapacity
  <2>. QED BY <2>1, <2>2
<1>. QED BY <1>1, NodeInitRoom, NodeStepRoom, PTL DEF NodeSpec

-----------------------------------------------------------------------------
(* The contract over all lives. While the node is up its steps are those of *)
(* AgentContract, with a renewal for each start; the others are the end of  *)
(* a process and the steps of a recovery, for which it matters that nothing *)
(* is in found but while the node recovers.                                 *)

NothingFound == node # "found" => \A a \in Agents : found[a] = 0

NodeContractInv == NodeLeak /\ NamedRecords /\ NothingFound

LEMMA NodeContractParts ==
  ASSUME NodeContractInv
  PROVE  /\ NodeLeak /\ NodeInv /\ TypeOK /\ NamedRecords /\ NothingFound /\ DownIsOff
         /\ found \in [Agents -> Nat] /\ starts \in Nat
         /\ node \in {"down", "found", "up", "exited"}
         /\ \A a \in Agents : docker[a] = Gone <=> docker[a].cid = 0
<1>1. NodeLeak /\ NodeInv /\ TypeOK /\ NamedRecords /\ NothingFound
  BY NodeLeakParts DEF NodeContractInv
<1>2. /\ found \in [Agents -> Nat] /\ starts \in Nat /\ DownIsOff
      /\ node \in {"down", "found", "up", "exited"}
  BY <1>1, NodeInvParts, NodeAssumption DEF Parts
<1>3. \A a \in Agents : docker[a] = Gone <=> docker[a].cid = 0
  BY <1>1 DEF NodeLeak, Resting, Traced, Ids
<1>. QED BY <1>1, <1>2, <1>3

\* A step of the contract is one of a node that is up.
LEMMA LivesMaps ==
  ASSUME TypeOK, node = "up", ContractStep(starts), UNCHANGED <<node, starts, found>>
  PROVE  (\E a \in Agents : Lives!Live(a)) \/ UNCHANGED Lives!nodeContractVars
<1>1. ASSUME NEW a \in Agents, Contract!Step(a, starts) PROVE Lives!Live(a)
  <2>1. Lives!Step(a, starts)
    BY <1>1 DEF Contract!Step, Contract!Accept, Contract!Refuse, Contract!Make, Contract!Record,
                Contract!Discard, Contract!Remove, Contract!Drop, Contract!Managed, Contract!Cardinality,
                Lives!Step, Lives!Accept, Lives!Refuse, Lives!Make, Lives!Record,
                Lives!Discard, Lives!Remove, Lives!Drop, Lives!Managed, Lives!Cardinality
  <2>. QED BY <2>1 DEF Lives!Live
<1>2. UNCHANGED Contract!contractVars => UNCHANGED Lives!nodeContractVars
  BY DEF Contract!contractVars, Lives!nodeContractVars, Lives!contractVars
<1>. QED BY <1>1, <1>2, ContractMaps

LEMMA VanishMaps ==
  ASSUME NodeContractInv, Outside
  PROVE  (\E a \in Agents : Lives!Vanish(a)) \/ UNCHANGED Lives!nodeContractVars
<1>. TypeOK /\ \A a \in Agents : docker[a] = Gone <=> docker[a].cid = 0
  BY NodeContractParts
<1>1. UNCHANGED <<agents, made, runs, held, pc, job, node, starts, found>>
  BY DEF Outside, Environment, ContainerExits, ContainerRemoved, vars
<1>2. SameMaking /\ Admitted' = Admitted /\ SameRecords /\ SameBudget
  BY <1>1 DEF SameMaking, InMaking, MadeBy, Admitted, SameRecords, SameBudget
<1>3. SameContainers \/ \E a \in Agents : ContainerRemoved(a)
  <2>1. ASSUME NEW a \in Agents, ContainerExits(a) PROVE SameContainers
    BY <2>1 DEF ContainerExits, SameContainers, TypeOK
  <2>. QED BY <2>1 DEF Outside, Environment, vars, SameContainers
<1>4. ASSUME NEW a \in Agents, ContainerRemoved(a) PROVE Lives!Vanish(a)
  <2>1. docker[a].cid # 0 /\ \A b \in Agents : docker'[b].cid = IF b = a THEN 0 ELSE docker[b].cid
    BY <1>4 DEF ContainerRemoved, Gone, TypeOK
  <2>. QED BY <1>1, <1>2, <2>1 DEF Lives!Vanish, Lives!Remove, SameMaking, SameRecords, SameBudget
<1>5. SameContainers => UNCHANGED Lives!nodeContractVars
  BY <1>1, <1>2 DEF SameContainers, SameMaking, SameRecords, SameBudget,
                    Lives!nodeContractVars, Lives!contractVars
<1>. QED BY <1>3, <1>4, <1>5

LEMMA EndingMaps ==
  ASSUME NodeContractInv, Ending
  PROVE  Lives!End /\ NamedRecords' /\ NothingFound'
<1>. /\ NodeInv /\ NothingFound /\ DownIsOff /\ found \in [Agents -> Nat]
     /\ node \in {"down", "found", "up", "exited"}
  BY NodeContractParts
<1>1. Dies /\ node' \in {"down", "exited"}
  BY DiesType
<1>2. node \in {"found", "up"} /\ found' = [a \in Agents |-> 0]
  <2>1. CASE Crash
    BY <2>1 DEF Crash
  <2>2. ASSUME NEW c \in Closers, Exit(c) PROVE node = "up" /\ found' = [a \in Agents |-> 0]
    <3>1. node = "up" /\ found' = found
      BY <2>2 DEF Exit, DownIsOff
    <3>. QED BY <3>1 DEF NothingFound
  <2>. QED BY <2>1, <2>2 DEF Ending
<1>3. \A a \in Agents : agents'[a].cid = 0 /\ InMaking(a)' = {} /\ ~Live(a)'
  BY <1>1 DEF Dies, NoAgent, InMaking, MadeBy, Making, Live
<1>4. Admitted' = {}
  BY <1>1, StepNames DEF Dies, Admitted, DeploySteps
<1>5. UNCHANGED <<docker, made, runs, starts>>
  BY <1>1 DEF Dies
<1>6. Lives!End
  BY <1>1, <1>2, <1>3, <1>4, <1>5 DEF Lives!End, Lives!Nothing
<1>. QED BY <1>2, <1>3, <1>6 DEF NamedRecords, NothingFound

LEMMA StartMaps ==
  ASSUME NodeContractInv, RecoverList \/ RecoverListFails
  PROVE  Lives!Start /\ NamedRecords' /\ NothingFound'
<1>. NodeInv /\ NothingFound /\ NamedRecords /\ found \in [Agents -> Nat]
  BY NodeContractParts
<1>1. /\ node \in {"down", "exited"} /\ starts' = starts + 1
      /\ UNCHANGED <<agents, docker, made, runs, pc, job, held>>
  BY DEF RecoverList, RecoverListFails, Start
<1>2. UNCHANGED Lives!contractVars
  BY <1>1 DEF Lives!contractVars, InMaking, MadeBy, Admitted
<1>3. \/ node' = "found" /\ found' = [a \in Agents |-> docker[a].cid]
      \/ node' = "up" /\ found' = found
  BY DEF RecoverList, RecoverListFails
<1>. QED BY <1>1, <1>2, <1>3 DEF Lives!Start, NamedRecords, Live, NothingFound

LEMMA OrphanMaps ==
  ASSUME NodeContractInv, NEW a \in Agents, RecoverOrphan(a)
  PROVE  Lives!GiveUp(a) /\ NamedRecords' /\ NothingFound'
<1>. TypeOK /\ NamedRecords /\ found \in [Agents -> Nat]
  BY NodeContractParts
<1>1. /\ node = "found" /\ found[a] # 0 /\ found' = [found EXCEPT ![a] = 0]
      /\ UNCHANGED <<agents, made, runs, pc, job, held, node, starts>>
  BY DEF RecoverOrphan, Orphans
<1>2. PICK ok \in BOOLEAN : Removing(a, found[a], ok)
  BY DEF RecoverOrphan
<1>3. \/ SameContainers
      \/ docker[a].cid = found[a] /\ \A b \in Agents : docker'[b].cid = IF b = a THEN 0 ELSE docker[b].cid
  BY <1>2, RemovingCids
<1>4. \A b \in Agents : agents'[b].cid = agents[b].cid /\ InMaking(b)' = InMaking(b)
  BY <1>1 DEF InMaking, MadeBy
<1>5. Admitted' = Admitted
  BY <1>1 DEF Admitted
<1>6. Lives!GiveUp(a)
  BY <1>1, <1>3, <1>4, <1>5 DEF Lives!GiveUp, SameContainers
<1>. QED BY <1>1, <1>6 DEF NamedRecords, Live, NothingFound

LEMMA RestoreMaps ==
  ASSUME NodeContractInv, RecoverRestore
  PROVE  Lives!Restore /\ NamedRecords' /\ NothingFound'
<1>. NodeInv /\ found \in [Agents -> Nat]
  BY NodeContractParts
<1>1. /\ node = "found" /\ node' = "up" /\ starts' = starts
      /\ UNCHANGED <<docker, made, runs, pc, job, held>>
  BY RestoreType
<1>2. PICK count \in [Kept -> 0 .. MaxRestartAttempts] :
        agents' = [a \in Agents |-> IF a \in Kept
                                    THEN [cid |-> found[a], count |-> count[a]] ELSE NoAgent]
  BY DEF RecoverRestore, Restoring
<1>3. Orphans = {} /\ found' = [a \in Agents |-> 0]
  BY DEF RecoverRestore, Restoring
<1>4. \A a \in Agents : agents'[a].cid = found[a] /\ (Live(a)' => found[a] # 0)
  BY <1>2, <1>3 DEF Orphans, Kept, NoAgent, Live
<1>5. Admitted' = Admitted /\ \A a \in Agents : InMaking(a)' = InMaking(a)
  BY <1>1 DEF Admitted, InMaking, MadeBy
<1>6. Lives!Restore
  BY <1>1, <1>3, <1>4, <1>5 DEF Lives!Restore, Lives!Nothing
<1>. QED BY <1>1, <1>3, <1>4, <1>6 DEF NamedRecords, NothingFound

LEMMA NodeStepContract ==
  ASSUME NodeContractInv, [NodeNext]_<<vars, nodeVars>>
  PROVE  NodeContractInv' /\ [Lives!NodeNext]_(Lives!nodeContractVars)
<1>. NodeLeak /\ NodeInv /\ TypeOK /\ NamedRecords /\ NothingFound /\ starts \in Nat
  BY NodeContractParts
<1>1. NodeLeak'
  BY NodeStepLeak
<1>2. CASE Living
  <2>0. PICK k \in Nat : k = starts
    OBVIOUS
  <2>1. ContractInv(Most, k)
    BY <1>2, <2>0 DEF Living, NodeLeak, NodeBudget, BudgetInv, LeakInv, ContractInv
  <2>2. ContractStep(k) /\ ContractInv(Most, k)'
    BY <1>2, <2>1, StepContract, MostLimit DEF Living
  <2>3. (\E a \in Agents : Lives!Live(a)) \/ UNCHANGED Lives!nodeContractVars
    BY <1>2, <2>0, <2>2, LivesMaps DEF Living
  <2>4. NamedRecords' /\ NothingFound'
    BY <1>2, <2>2 DEF ContractInv, Living, NothingFound
  <2>. QED BY <1>1, <2>3, <2>4 DEF NodeContractInv, Lives!NodeNext
<1>3. CASE Outside
  <2>1. NamedRecords' /\ NothingFound'
    BY <1>3 DEF Outside, Environment, ContainerExits, ContainerRemoved, vars, NamedRecords, NothingFound, Live
  <2>. QED BY <1>1, <1>3, <2>1, VanishMaps DEF NodeContractInv, Lives!NodeNext
<1>. QED BY <1>1, <1>2, <1>3, NodeCases, EndingMaps, StartMaps, OrphanMaps, RestoreMaps
         DEF NodeContractInv, Lives!NodeNext

LEMMA NodeInitContract == NodeInit => NodeContractInv /\ Lives!NodeInit
<1>. SUFFICES ASSUME NodeInit PROVE NodeContractInv /\ Lives!NodeInit
  OBVIOUS
<1>1. NamedRecords /\ Contract!Init
  BY InitContract, MostLimit DEF NodeInit, ContractInv
<1>2. NothingFound
  BY DEF NodeInit, NothingFound
<1>3. Lives!Init
  BY <1>1 DEF Contract!Init, Lives!Init
<1>4. Lives!NodeInit
  BY <1>3 DEF NodeInit, Lives!NodeInit, Lives!Nothing
<1>. QED BY <1>1, <1>2, <1>4, NodeInitLeak DEF NodeContractInv

(* manager.go, recover.go:41-87: over any number of crashes, exits and      *)
(* starts the node implements NodeContract.                                 *)
THEOREM NodeImplementsContract == NodeSpec => ImplementsNodeContract
<1>. QED BY NodeInitContract, NodeStepContract, PTL
         DEF NodeSpec, ImplementsNodeContract, Lives!NodeSpec
=============================================================================
