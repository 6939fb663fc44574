------------------------- MODULE AgentLifecycleProofs -------------------------
(***************************************************************************)
(* Proofs about AgentLifecycle, for every value of its constants: the      *)
(* types, the capacity of the node, the lock, the budget of restarts, what *)
(* becomes of containers, the saved entries, and that it implements        *)
(* AgentContract. CapacityInv strengthens TypeOK by what the lock          *)
(* protects; BudgetInv adds who may still create a container, LeakInv who  *)
(* holds which container's id; SavedInv says how record and saved entry    *)
(* differ. Where they have parameters they also hold of a node that        *)
(* recovered more agents than MaxAgents (m) or was started k times         *)
(* (NodeLifeProofs).                                                       *)
(***************************************************************************)
EXTENDS AgentLifecycle, FiniteSetTheorems, TLAPS

USE DEF mapVars, dockerVars, procVars, watchVars

PcOK == pc \in [Procs -> Steps] /\ \A p \in Procs : pc[p] \in StepsOf(p)

LEMMA GotoType ==
  ASSUME TypeOK, NEW p \in Procs, NEW to \in StepsOf(p), Goto(p, to)
  PROVE  PcOK'
<1>1. to \in Steps
  BY DEF StepsOf, Steps
<1>. QED BY <1>1 DEF Goto, TypeOK, PcOK

LEMMA MoveType ==
  ASSUME TypeOK, NEW p \in Procs, NEW to \in StepsOf(p), Move(p, to)
  PROVE  PcOK' /\ held' \in [Procs -> Nat]
<1>1. PcOK'
  BY GotoType DEF Move
<1>2. held' \in [Procs -> Nat]
  BY DEF Move, TypeOK
<1>. QED BY <1>1, <1>2

LEMMA UpdateType ==
  ASSUME NEW S, NEW T, NEW f \in [S -> T], NEW s \in S, NEW v \in T
  PROVE  [f EXCEPT ![s] = v] \in [S -> T]
OBVIOUS

LEMMA MarkType ==
  ASSUME TypeOK, NEW a \in Agents, NEW b \in BOOLEAN,
         left' = [left EXCEPT ![a] = b]
  PROVE  left' \in [Agents -> BOOLEAN]
BY UpdateType, Zenon DEF TypeOK

LEMMA StoppingType ==
  ASSUME TypeOK, NEW a \in Agents, NEW c, NEW ok \in BOOLEAN, Stopping(a, c, ok)
  PROVE  docker' \in [Agents -> [cid : Nat, up : BOOLEAN]]
<1>1. CASE docker' = [docker EXCEPT ![a].up = FALSE]
  BY <1>1 DEF TypeOK
<1>2. CASE docker' = docker
  BY <1>2 DEF TypeOK
<1>. QED BY <1>1, <1>2 DEF Stopping

LEMMA RemovingType ==
  ASSUME TypeOK, NEW a \in Agents, NEW c, NEW ok \in BOOLEAN, Removing(a, c, ok)
  PROVE  /\ docker' \in [Agents -> [cid : Nat, up : BOOLEAN]]
         /\ left' \in [Agents -> BOOLEAN]
<1>1. CASE docker' = [docker EXCEPT ![a] = Gone] /\ left' = left
  BY <1>1 DEF TypeOK, Gone
<1>2. CASE docker' = docker /\ left' = [left EXCEPT ![a] = @ \/ Holds(a, c)]
  <2>1. left' = [left EXCEPT ![a] = left[a] \/ Holds(a, c)]
    BY <1>2
  <2>2. (left[a] \/ Holds(a, c)) \in BOOLEAN
    OBVIOUS
  <2>3. left' \in [Agents -> BOOLEAN]
    BY <2>1, <2>2, MarkType
  <2>. QED BY <1>2, <2>3 DEF TypeOK
<1>. QED BY <1>1, <1>2 DEF Removing

LEMMA StepNames ==
  /\ \A w \in Workers : w \in Procs /\ StepsOf(w) = {"idle"} \cup CommandSteps
  /\ \A r \in Restarters :
       r \in Procs /\ r \in Handlers /\ r \notin Workers
       /\ StepsOf(r) = {"idle"} \cup FailureSteps \cup RestartSteps
  /\ Monitor \in Procs /\ StepsOf(Monitor) = {"idle"} \cup FailureSteps
BY LifecycleAssumption DEF Procs, Handlers, StepsOf

LEMMA DeployType ==
  ASSUME TypeOK, NEW p \in Workers \cup Restarters, CreateSteps(p)
  PROVE  TypeOK'
<1>. p \in Procs /\ DeploySteps \subseteq StepsOf(p) /\ AfterFailure(p) \in StepsOf(p)
  BY StepNames DEF CommandSteps, FailureSteps, RestartSteps, AfterFailure
<1>. {"idle", "list", "evict", "create", "start", "undo", "commit", "fail"} \subseteq Steps
  BY DEF Steps, CommandSteps, DeploySteps, FailureSteps
<1>. job[p] \in Agents /\ held[p] \in Nat
  BY DEF TypeOK
<1>1. CASE CreateList(p)
  <2>1. docker[job[p]].cid \in Nat
    BY DEF TypeOK
  <2>2. held' \in [Procs -> Nat]
    BY <1>1, <2>1 DEF CreateList, Move, TypeOK
  <2>3. Goto(p, "evict") \/ Goto(p, "create")
    BY <1>1 DEF CreateList, Move
  <2>4. PcOK'
    BY <2>3, GotoType DEF DeploySteps
  <2>. QED BY <1>1, <2>2, <2>4 DEF CreateList, TypeOK, PcOK
<1>2. CASE CreateEvict(p)
  <2>1. PcOK' /\ held' \in [Procs -> Nat]
    BY <1>2, MoveType DEF CreateEvict, DeploySteps
  <2>. QED BY <1>2, <2>1, RemovingType DEF CreateEvict, TypeOK, PcOK
<1>3. CASE CreateContainer(p)
  <2>1. made' \in [Agents -> Nat] /\ made'[job[p]] \in Nat
    BY <1>3 DEF CreateContainer, TypeOK
  <2>2. docker' \in [Agents -> [cid : Nat, up : BOOLEAN]]
    BY <1>3, <2>1 DEF CreateContainer, TypeOK
  <2>3. left' \in [Agents -> BOOLEAN]
    BY <1>3, MarkType DEF CreateContainer
  <2>4. PcOK' /\ held' \in [Procs -> Nat]
    BY <1>3, <2>1, GotoType DEF CreateContainer, DeploySteps, TypeOK
  <2>. QED BY <1>3, <2>1, <2>2, <2>3, <2>4 DEF CreateContainer, TypeOK, PcOK
<1>4. CASE CreateFails(p)
  <2>1. PcOK' /\ held' \in [Procs -> Nat]
    BY <1>4, MoveType DEF CreateFails
  <2>. QED BY <1>4, <2>1 DEF CreateFails, Release, TypeOK, PcOK
<1>5. CASE StartContainer(p)
  <2>1. docker' \in [Agents -> [cid : Nat, up : BOOLEAN]]
    <3>1. CASE docker' = [docker EXCEPT ![job[p]].up = TRUE]
      BY <3>1 DEF TypeOK
    <3>2. CASE docker' = docker
      BY <3>2 DEF TypeOK
    <3>. QED BY <1>5, <3>1, <3>2 DEF StartContainer
  <2>2. Move(p, "commit") \/ Move(p, "undo")
    BY <1>5 DEF StartContainer
  <2>3. PcOK' /\ held' \in [Procs -> Nat]
    BY <2>2, MoveType DEF DeploySteps
  <2>. QED BY <1>5, <2>1, <2>3 DEF StartContainer, TypeOK, PcOK
<1>6. CASE StartUndo(p)
  <2>1. PcOK' /\ held' \in [Procs -> Nat]
    BY <1>6, MoveType DEF StartUndo
  <2>2. \E ok \in BOOLEAN : Removing(job[p], held[p], ok)
    BY <1>6 DEF StartUndo
  <2>3. docker' \in [Agents -> [cid : Nat, up : BOOLEAN]] /\ left' \in [Agents -> BOOLEAN]
    BY <2>2, RemovingType
  <2>. QED BY <1>6, <2>1, <2>3 DEF StartUndo, Release, TypeOK, PcOK
<1>. QED BY <1>1, <1>2, <1>3, <1>4, <1>5, <1>6 DEF CreateSteps

LEMMA CommandType ==
  ASSUME TypeOK, NEW w \in Workers,
         RunCommit(w) \/ StopContainer(w) \/ StopRemove(w) \/ StopDelete(w)
  PROVE  TypeOK'
<1>. w \in Procs /\ {"idle", "remove", "delete"} \subseteq StepsOf(w)
  BY StepNames DEF CommandSteps
<1>. job[w] \in Agents /\ held[w] \in Nat
  BY DEF TypeOK
<1>1. CASE RunCommit(w)
  <2>1. PcOK' /\ held' \in [Procs -> Nat]
    BY <1>1, MoveType DEF RunCommit
  <2>2. left' \in [Agents -> BOOLEAN]
    BY <1>1, MarkType, Misses(job[w], held[w]) \in BOOLEAN DEF RunCommit, Misses
  <2>3. agents' \in [Agents -> [cid : Nat, count : Nat]] /\ saved' \in [Agents -> Nat]
    BY <1>1 DEF RunCommit, TypeOK
  <2>. QED BY <1>1, <2>1, <2>2, <2>3 DEF RunCommit, Release, TypeOK, PcOK
<1>2. CASE StopContainer(w)
  <2>1. Move(w, "remove") \/ Move(w, "idle")
    BY <1>2 DEF StopContainer
  <2>2. PcOK' /\ held' \in [Procs -> Nat]
    BY <2>1, MoveType
  <2>3. \E ok \in BOOLEAN : Stopping(job[w], held[w], ok)
    BY <1>2 DEF StopContainer
  <2>. QED BY <1>2, <2>2, <2>3, StoppingType DEF StopContainer, TypeOK, PcOK, Release
<1>3. CASE StopRemove(w)
  <2>1. Move(w, "delete") \/ Move(w, "idle")
    BY <1>3 DEF StopRemove
  <2>2. PcOK' /\ held' \in [Procs -> Nat]
    BY <2>1, MoveType
  <2>3. \E ok \in BOOLEAN : Removing(job[w], held[w], ok)
    BY <1>3 DEF StopRemove
  <2>. QED BY <1>3, <2>2, <2>3, RemovingType DEF StopRemove, TypeOK, PcOK, Release
<1>4. CASE StopDelete(w)
  <2>1. PcOK' /\ held' \in [Procs -> Nat]
    BY <1>4, MoveType DEF StopDelete
  <2>2. agents' \in [Agents -> [cid : Nat, count : Nat]] /\ saved' \in [Agents -> Nat]
    BY <1>4 DEF StopDelete, TypeOK, NoAgent
  <2>. QED BY <1>4, <2>1, <2>2 DEF StopDelete, Release, TypeOK, PcOK
<1>. QED BY <1>1, <1>2, <1>3, <1>4

LEMMA FailureType ==
  ASSUME TypeOK, NEW t \in Handlers, Failure(t)
  PROVE  TypeOK'
<1>. t \in Procs /\ {"idle"} \cup FailureSteps \subseteq StepsOf(t)
  BY StepNames DEF Handlers
<1>. job[t] \in Agents /\ held[t] \in Nat
  BY DEF TypeOK
<1>. agents[job[t]] \in [cid : Nat, count : Nat]
  BY DEF TypeOK
<1>1. CASE HandleFailure(t)
  <2>0. agents[job[t]].count + 1 \in Nat
    OBVIOUS
  <2>1. agents' \in [Agents -> [cid : Nat, count : Nat]]
    <3>1. CASE agents' = agents
      BY <3>1 DEF TypeOK
    <3>2. CASE agents' = [agents EXCEPT ![job[t]].count = agents[job[t]].count + 1]
      BY <3>2, <2>0 DEF TypeOK
    <3>. QED BY <1>1, <3>1, <3>2 DEF HandleFailure
  <2>2. held' \in [Procs -> Nat]
    <3>1. held' = held \/ (\E n \in Nat : held' = [held EXCEPT ![t] = n])
      BY <1>1, 0 \in Nat DEF HandleFailure, Move
    <3>. QED BY <3>1 DEF TypeOK
  <2>3. job' \in [Procs -> Agents]
    BY <1>1 DEF HandleFailure, TypeOK
  <2>4. PcOK'
    <3>1. \A r \in Restarters : r \in Procs /\ "read" \in StepsOf(r)
      BY StepNames DEF RestartSteps
    <3>2. \/ \E to \in {"idle", "mark"} : Goto(t, to)
          \/ \E r \in Restarters : pc' = [pc EXCEPT ![t] = "idle", ![r] = "read"]
      BY <1>1 DEF HandleFailure, Move, Idle
    <3>3. CASE \E to \in {"idle", "mark"} : Goto(t, to)
      BY <3>3, GotoType DEF FailureSteps
    <3>4. ASSUME NEW r \in Restarters, pc' = [pc EXCEPT ![t] = "idle", ![r] = "read"]
          PROVE  PcOK'
      BY <3>1, <3>4 DEF TypeOK, PcOK, Steps, RestartSteps
    <3>. QED BY <3>2, <3>3, <3>4
  <2>. QED BY <1>1, <2>1, <2>2, <2>3, <2>4 DEF HandleFailure, TypeOK, PcOK
<1>2. CASE GiveUpMark(t)
  <2>1. PcOK'
    BY <1>2, GotoType DEF GiveUpMark, FailureSteps
  <2>2. held' \in [Procs -> Nat]
    BY <1>2 DEF GiveUpMark, TypeOK
  <2>. QED BY <1>2, <2>1, <2>2 DEF GiveUpMark, TypeOK, PcOK
<1>3. CASE GiveUpStop(t)
  <2>1. PcOK' /\ held' \in [Procs -> Nat]
    BY <1>3, MoveType DEF GiveUpStop, FailureSteps
  <2>2. \E ok \in BOOLEAN : Stopping(job[t], held[t], ok)
    BY <1>3 DEF GiveUpStop
  <2>. QED BY <1>3, <2>1, <2>2, StoppingType DEF GiveUpStop, TypeOK, PcOK
<1>4. CASE GiveUpRemove(t)
  <2>1. PcOK' /\ held' \in [Procs -> Nat]
    BY <1>4, MoveType DEF GiveUpRemove, FailureSteps
  <2>2. \E ok \in BOOLEAN : Removing(job[t], held[t], ok)
    BY <1>4 DEF GiveUpRemove
  <2>. QED BY <1>4, <2>1, <2>2, RemovingType DEF GiveUpRemove, TypeOK, PcOK
<1>5. CASE GiveUpDrop(t)
  <2>1. PcOK' /\ held' \in [Procs -> Nat]
    BY <1>5, MoveType DEF GiveUpDrop, FailureSteps
  <2>2. agents' \in [Agents -> [cid : Nat, count : Nat]]
    BY <1>5 DEF GiveUpDrop, TypeOK, NoAgent
  <2>3. \E b \in BOOLEAN : left' = [left EXCEPT ![job[t]] = b]
    BY <1>5, Zenon DEF GiveUpDrop
  <2>. QED BY <1>5, <2>1, <2>2, <2>3, MarkType DEF GiveUpDrop, TypeOK, PcOK
<1>6. CASE GiveUpForget(t)
  <2>1. PcOK' /\ held' \in [Procs -> Nat]
    BY <1>6, MoveType DEF GiveUpForget
  <2>. QED BY <1>6, <2>1 DEF GiveUpForget, TypeOK, PcOK
<1>. QED BY <1>1, <1>2, <1>3, <1>4, <1>5, <1>6 DEF Failure

LEMMA RestartType ==
  ASSUME TypeOK, NEW r \in Restarters,
         \/ RestartRead(r) \/ RestartStopOld(r) \/ RestartRemoveOld(r)
         \/ RestartCommit(r) \/ RestartSave(r) \/ RestartDiscard(r)
  PROVE  TypeOK'
<1>. r \in Procs /\ {"idle"} \cup RestartSteps \subseteq StepsOf(r)
  BY StepNames
<1>. job[r] \in Agents /\ held[r] \in Nat
  BY DEF TypeOK
<1>1. CASE RestartRead(r)
  <2>1. Goto(r, "stopOld") \/ Goto(r, "idle")
    BY <1>1 DEF RestartRead, Move
  <2>2. PcOK'
    BY <2>1, GotoType DEF RestartSteps
  <2>3. held' \in [Procs -> Nat]
    BY <1>1 DEF RestartRead, Move, TypeOK
  <2>. QED BY <1>1, <2>2, <2>3 DEF RestartRead, TypeOK, PcOK
<1>2. CASE RestartStopOld(r)
  <2>1. PcOK' /\ held' \in [Procs -> Nat]
    BY <1>2, MoveType DEF RestartStopOld, RestartSteps
  <2>2. \E ok \in BOOLEAN : Stopping(job[r], held[r], ok)
    BY <1>2 DEF RestartStopOld
  <2>. QED BY <1>2, <2>1, <2>2, StoppingType DEF RestartStopOld, TypeOK, PcOK
<1>3. CASE RestartRemoveOld(r)
  <2>1. PcOK' /\ held' \in [Procs -> Nat]
    BY <1>3, MoveType DEF RestartRemoveOld, RestartSteps, DeploySteps
  <2>2. \E ok \in BOOLEAN : Removing(job[r], held[r], ok)
    BY <1>3 DEF RestartRemoveOld
  <2>. QED BY <1>3, <2>1, <2>2, RemovingType DEF RestartRemoveOld, TypeOK, PcOK
<1>4. CASE RestartCommit(r)
  <2>1. Move(r, "save") \/ Move(r, "discard")
    BY <1>4 DEF RestartCommit
  <2>2. PcOK' /\ held' \in [Procs -> Nat]
    BY <2>1, MoveType DEF RestartSteps
  <2>3. agents' = agents \/ agents' = [agents EXCEPT ![job[r]].cid = held[r]]
    BY <1>4 DEF RestartCommit
  <2>6. agents' \in [Agents -> [cid : Nat, count : Nat]]
    BY <2>3 DEF TypeOK
  <2>4. left' = left \/ \E b \in BOOLEAN : left' = [left EXCEPT ![job[r]] = b]
    BY <1>4, Zenon DEF RestartCommit, Misses
  <2>5. left' \in [Agents -> BOOLEAN]
    BY <2>4, MarkType DEF TypeOK
  <2>. QED BY <1>4, <2>2, <2>5, <2>6 DEF RestartCommit, TypeOK, PcOK
<1>5. CASE RestartSave(r)
  <2>1. PcOK' /\ held' \in [Procs -> Nat]
    BY <1>5, MoveType DEF RestartSave
  <2>. QED BY <1>5, <2>1 DEF RestartSave, TypeOK, PcOK
<1>6. CASE RestartDiscard(r)
  <2>1. PcOK' /\ held' \in [Procs -> Nat]
    BY <1>6, MoveType DEF RestartDiscard
  <2>2. \E ok \in BOOLEAN : Removing(job[r], held[r], ok)
    BY <1>6 DEF RestartDiscard
  <2>. QED BY <1>6, <2>1, <2>2, RemovingType DEF RestartDiscard, TypeOK, PcOK
<1>. QED BY <1>1, <1>2, <1>3, <1>4, <1>5, <1>6

LEMMA BeginType ==
  ASSUME TypeOK, NEW p \in Procs, NEW a \in Agents, NEW to \in StepsOf(p), Begin(p, a, to)
  PROVE  /\ PcOK'
         /\ job' \in [Procs -> Agents]
         /\ overlapped' \in [Agents -> BOOLEAN]
<1>1. PcOK'
  BY GotoType DEF Begin
<1>2. job' \in [Procs -> Agents]
  BY DEF Begin, TypeOK
<1>3. \E b \in BOOLEAN : overlapped' = [overlapped EXCEPT ![a] = b]
  BY Zenon DEF Begin
<1>4. overlapped \in [Agents -> BOOLEAN]
  BY DEF TypeOK
<1>5. overlapped' \in [Agents -> BOOLEAN]
  BY <1>3, <1>4, UpdateType, Zenon
<1>. QED BY <1>1, <1>2, <1>5

LEMMA OtherType ==
  ASSUME TypeOK,
         \/ \E w \in Workers, a \in Agents : RunBegin(w, a) \/ StopBegin(w, a)
         \/ Check
         \/ \E a \in Agents : Environment(a)
  PROVE  TypeOK'
<1>1. ASSUME NEW w \in Workers, NEW a \in Agents, RunBegin(w, a)
      PROVE  TypeOK'
  <2>1. w \in Procs /\ "list" \in StepsOf(w)
    BY StepNames DEF CommandSteps, DeploySteps
  <2>2. PcOK' /\ job' \in [Procs -> Agents] /\ overlapped' \in [Agents -> BOOLEAN]
    BY <1>1, <2>1, BeginType DEF RunBegin
  <2>3. runs' \in [Agents -> 0 .. MaxRuns]
    BY <1>1, LifecycleAssumption DEF RunBegin, TypeOK
  <2>. QED BY <1>1, <2>2, <2>3 DEF RunBegin, TypeOK, PcOK
<1>2. ASSUME NEW w \in Workers, NEW a \in Agents, StopBegin(w, a)
      PROVE  TypeOK'
  <2>1. w \in Procs /\ "stop" \in StepsOf(w)
    BY StepNames DEF CommandSteps
  <2>2. PcOK' /\ job' \in [Procs -> Agents] /\ overlapped' \in [Agents -> BOOLEAN]
    BY <1>2, <2>1, BeginType DEF StopBegin
  <2>3. held' \in [Procs -> Nat]
    BY <1>2 DEF StopBegin, TypeOK
  <2>. QED BY <1>2, <2>2, <2>3 DEF StopBegin, TypeOK, PcOK
<1>3. CASE MonitorSnapshot
  BY <1>3 DEF MonitorSnapshot, TypeOK, LiveAgents
<1>4. CASE MonitorInspect
  <2>1. PICK s \in snap : 
          /\ snap' = snap \ {s}
          /\ UNCHANGED <<pc, job, overlapped>> \/ Begin(Monitor, s[1], "fail")
    BY <1>4 DEF MonitorInspect
  <2>2. s[1] \in Agents /\ snap' \subseteq Agents \X Nat
    BY <2>1 DEF TypeOK
  <2>3. Monitor \in Procs /\ "fail" \in StepsOf(Monitor)
    BY StepNames DEF FailureSteps
  <2>4. PcOK' /\ job' \in [Procs -> Agents] /\ overlapped' \in [Agents -> BOOLEAN]
    BY <2>1, <2>2, <2>3, BeginType DEF TypeOK, PcOK
  <2>. QED BY <1>4, <2>2, <2>4 DEF MonitorInspect, TypeOK, PcOK
<1>5. ASSUME NEW a \in Agents, ContainerExits(a)
      PROVE  TypeOK'
  BY <1>5 DEF ContainerExits, TypeOK
<1>6. ASSUME NEW a \in Agents, ContainerRemoved(a)
      PROVE  TypeOK'
  BY <1>6 DEF ContainerRemoved, TypeOK, Gone
<1>. QED BY <1>1, <1>2, <1>3, <1>4, <1>5, <1>6 DEF Check, Environment

(* Every variable keeps its type, whatever the numbers of agents, workers   *)
(* and restarts, and whatever Docker answers.                               *)
LEMMA StepType == TypeOK /\ [Next]_vars => TypeOK'
<1>. SUFFICES ASSUME TypeOK, [Next]_vars
              PROVE  TypeOK'
  OBVIOUS
<1>1. ASSUME NEW w \in Workers, Command(w)
      PROVE  TypeOK'
  BY <1>1, DeployType, CommandType DEF Command
<1>2. ASSUME NEW w \in Workers, NEW a \in Agents, RunBegin(w, a) \/ StopBegin(w, a)
      PROVE  TypeOK'
  BY <1>2, OtherType
<1>3. ASSUME NEW t \in Handlers, Failure(t)
      PROVE  TypeOK'
  BY <1>3, FailureType
<1>4. ASSUME NEW r \in Restarters, Restart(r)
      PROVE  TypeOK'
  BY <1>4, DeployType, RestartType DEF Restart
<1>5. CASE Check \/ \E a \in Agents : Environment(a)
  BY <1>5, OtherType
<1>6. CASE UNCHANGED vars
  BY <1>6 DEF vars, TypeOK
<1>. QED BY <1>1, <1>2, <1>3, <1>4, <1>5, <1>6 DEF Next

LEMMA InitType == Init => TypeOK
<1>. SUFFICES ASSUME Init PROVE TypeOK
  OBVIOUS
<1>1. PcOK
  BY DEF Init, PcOK, Steps, StepsOf
<1>. QED BY <1>1, LifecycleAssumption DEF Init, TypeOK, PcOK, NoAgent, Gone

THEOREM LifecycleTypeOK == Spec => []TypeOK
BY InitType, StepType, PTL DEF Spec

-----------------------------------------------------------------------------
(* Capacity. The lock keeps what Run has checked true until it commits:     *)
(* only the worker that holds it is busy, and nobody else adds a record.    *)

Limits == {m \in Nat : MaxAgents <= m}

USE DEF Limits

Within(m) == Cardinality(LiveAgents) <= m

LockHeld == \A w \in Workers : pc[w] # "idle" => mu = w

SlotReserved(m) ==
  \A w \in Workers : pc[w] \in DeploySteps =>
    ~Live(job[w]) /\ Cardinality(LiveAgents) < m

CapacityInv(m) == TypeOK /\ LockHeld /\ SlotReserved(m) /\ Within(m)

LEMMA LiveFinite == IsFiniteSet(LiveAgents) /\ Cardinality(LiveAgents) \in Nat
BY LifecycleAssumption, FS_Subset, FS_CardinalityType DEF LiveAgents

LEMMA LiveShrinks ==
  ASSUME LiveAgents' \subseteq LiveAgents
  PROVE  /\ Cardinality(LiveAgents') <= Cardinality(LiveAgents)
         /\ Cardinality(LiveAgents') \in Nat
         /\ \A a \in Agents : ~Live(a) => ~Live(a)'
<1>1. Cardinality(LiveAgents') <= Cardinality(LiveAgents)
  BY LiveFinite, FS_Subset
<1>2. Cardinality(LiveAgents') \in Nat
  BY LiveFinite, FS_Subset, FS_CardinalityType
<1>3. \A a \in Agents : ~Live(a) => ~Live(a)'
  BY DEF LiveAgents
<1>. QED BY <1>1, <1>2, <1>3

LEMMA SameAgentsShrink ==
  ASSUME agents' = agents
  PROVE  LiveAgents' \subseteq LiveAgents
BY DEF LiveAgents, Live

\* A goroutine that is not a worker adds no record and leaves the lock alone.
LEMMA HandlerKeepsCapacity ==
  ASSUME NEW m \in Limits, CapacityInv(m), TypeOK', LiveAgents' \subseteq LiveAgents, mu' = mu,
         \A w \in Workers : pc'[w] = pc[w] /\ job'[w] = job[w]
  PROVE  CapacityInv(m)'
<1>1. LockHeld'
  BY DEF CapacityInv, LockHeld
<1>2. SlotReserved(m)'
  <2>. SUFFICES ASSUME NEW w \in Workers, pc[w] \in DeploySteps
                PROVE  ~Live(job[w])' /\ Cardinality(LiveAgents') < m
    BY DEF SlotReserved
  <2>1. job[w] \in Agents
    BY StepNames DEF CapacityInv, TypeOK
  <2>2. ~Live(job[w]) /\ Cardinality(LiveAgents) < m
    BY DEF CapacityInv, SlotReserved
  <2>3. agents'[job[w]] = NoAgent
    BY <2>1, <2>2, LiveShrinks DEF Live
  <2>4. ~Live(job[w])'
    BY <2>3 DEF Live
  <2>. QED BY <2>2, <2>4, LiveShrinks, LiveFinite, LifecycleAssumption
<1>3. Within(m)'
  BY LiveShrinks, LiveFinite, LifecycleAssumption DEF CapacityInv, Within
<1>. QED BY <1>1, <1>2, <1>3 DEF CapacityInv

\* A busy worker goes on with the lock, or ends and may release it.
LEMMA WorkerKeepsCapacity ==
  ASSUME NEW m \in Limits, CapacityInv(m), TypeOK', LiveAgents' \subseteq LiveAgents, UNCHANGED job,
         NEW w \in Workers, NEW to, Goto(w, to), pc[w] # "idle",
         to # "idle" => mu' = mu,
         to \in DeploySteps => pc[w] \in DeploySteps
  PROVE  CapacityInv(m)'
<1>1. mu = w
  BY DEF CapacityInv, LockHeld
<1>2. w \in Procs /\ pc'[w] = to
  BY StepNames DEF Goto, CapacityInv, TypeOK
<1>3. \A v \in Workers \ {w} : v \in Procs /\ pc'[v] = "idle"
  BY <1>1, StepNames DEF Goto, CapacityInv, LockHeld, TypeOK
<1>4. LockHeld'
  BY <1>1, <1>2, <1>3 DEF LockHeld
<1>5. SlotReserved(m)'
  <2>. SUFFICES ASSUME NEW v \in Workers, pc'[v] \in DeploySteps
                PROVE  ~Live(job[v])' /\ Cardinality(LiveAgents') < m
    BY DEF SlotReserved
  <2>1. v = w /\ pc[w] \in DeploySteps
    BY <1>2, <1>3 DEF DeploySteps
  <2>2. ~Live(job[w]) /\ Cardinality(LiveAgents) < m /\ job[w] \in Agents
    BY <1>2, <2>1 DEF CapacityInv, SlotReserved, TypeOK
  <2>3. ~Live(job[v])'
    BY <2>1, <2>2, LiveShrinks DEF Live
  <2>. QED BY <2>2, <2>3, LiveShrinks, LiveFinite, LifecycleAssumption
<1>6. Within(m)'
  BY LiveShrinks, LiveFinite, LifecycleAssumption DEF CapacityInv, Within
<1>. QED BY <1>4, <1>5, <1>6 DEF CapacityInv

\* What a step of goroutine p outside Run and Stop does to the rest.
LEMMA HandlerFrame ==
  ASSUME NEW m \in Limits, CapacityInv(m), NEW p \in Handlers, NEW to, Goto(p, to), UNCHANGED job
  PROVE  \A w \in Workers : pc'[w] = pc[w] /\ job'[w] = job[w]
BY StepNames, LifecycleAssumption DEF Goto, CapacityInv, TypeOK

LEMMA CreateShape ==
  ASSUME NEW m \in Limits, CapacityInv(m), NEW p \in Workers \cup Restarters, CreateSteps(p)
  PROVE  \E to \in DeploySteps \cup {AfterFailure(p)} :
           /\ Goto(p, to) /\ UNCHANGED <<agents, job>>
           /\ pc[p] \in DeploySteps
           /\ to \in DeploySteps => mu' = mu
           /\ p \in Restarters => mu' = mu
<1>1. CASE CreateList(p)
  BY <1>1 DEF CreateList, Move, At, DeploySteps
<1>2. CASE CreateEvict(p)
  BY <1>2 DEF CreateEvict, Move, At, DeploySteps
<1>3. CASE CreateContainer(p)
  BY <1>3 DEF CreateContainer, Move, At, DeploySteps
<1>7. p \in Restarters => mu # p
  BY LifecycleAssumption DEF CapacityInv, TypeOK, Handlers, Procs
<1>8. AfterFailure(p) \notin DeploySteps
  BY DEF AfterFailure, DeploySteps
<1>4. CASE CreateFails(p)
  BY <1>4, <1>7, <1>8 DEF CreateFails, Move, Release, At, DeploySteps
<1>5. CASE StartContainer(p)
  BY <1>5 DEF StartContainer, Move, At, DeploySteps
<1>6. CASE StartUndo(p)
  BY <1>6, <1>7, <1>8 DEF StartUndo, Move, Release, At, DeploySteps
<1>. QED BY <1>1, <1>2, <1>3, <1>4, <1>5, <1>6 DEF CreateSteps

\* Only RunCommit changes agents so that a record appears.
LEMMA WorkerCapacity ==
  ASSUME NEW m \in Limits, CapacityInv(m), TypeOK', NEW w \in Workers, Command(w)
  PROVE  CapacityInv(m)'
<1>. TypeOK /\ w \in Procs /\ job[w] \in Agents
  BY StepNames DEF CapacityInv, TypeOK
<1>1. CASE CreateSteps(w)
  <2>1. PICK to \in DeploySteps \cup {"idle"} :
          /\ Goto(w, to) /\ UNCHANGED <<agents, job>>
          /\ pc[w] \in DeploySteps
          /\ to \in DeploySteps => mu' = mu
    BY <1>1, CreateShape DEF AfterFailure
  <2>. QED BY <2>1, SameAgentsShrink, WorkerKeepsCapacity DEF DeploySteps
<1>2. CASE RunCommit(w)
  <2>1. pc[w] = "commit" /\ mu = w
    BY <1>2 DEF RunCommit, At, CapacityInv, LockHeld
  <2>2. Cardinality(LiveAgents) < m
    BY <2>1 DEF CapacityInv, SlotReserved, DeploySteps
  <2>3. \A v \in Workers : pc'[v] = "idle"
    BY <1>2, <2>1, StepNames DEF RunCommit, Move, Goto, CapacityInv, LockHeld, TypeOK
  <2>4. LiveAgents' \subseteq LiveAgents \cup {job[w]}
    BY <1>2 DEF RunCommit, LiveAgents, Live, TypeOK
  <2>5. Cardinality(LiveAgents') <= Cardinality(LiveAgents) + 1
    <3>0. /\ IsFiniteSet(LiveAgents \cup {job[w]})
          /\ \/ Cardinality(LiveAgents \cup {job[w]}) = Cardinality(LiveAgents)
             \/ Cardinality(LiveAgents \cup {job[w]}) = Cardinality(LiveAgents) + 1
      BY LiveFinite, FS_AddElement, Zenon
    <3>1. /\ IsFiniteSet(LiveAgents \cup {job[w]})
          /\ Cardinality(LiveAgents \cup {job[w]}) <= Cardinality(LiveAgents) + 1
      BY <3>0, LiveFinite
    <3>2. Cardinality(LiveAgents') <= Cardinality(LiveAgents \cup {job[w]})
      BY <2>4, <3>1, FS_Subset
    <3>3. Cardinality(LiveAgents') \in Nat /\ Cardinality(LiveAgents \cup {job[w]}) \in Nat
      BY <2>4, <3>1, FS_Subset, FS_CardinalityType
    <3>. QED BY <3>1, <3>2, <3>3, LiveFinite
  <2>6. Cardinality(LiveAgents') \in Nat
    BY <2>4, LiveFinite, FS_AddElement, FS_Subset, FS_CardinalityType
  <2>7. Within(m)'
    BY <2>2, <2>5, <2>6, LiveFinite, LifecycleAssumption DEF Within
  <2>8. LockHeld' /\ SlotReserved(m)'
    BY <2>3 DEF LockHeld, SlotReserved, DeploySteps
  <2>. QED BY <2>7, <2>8 DEF CapacityInv
<1>3. CASE StopContainer(w)
  <2>1. PICK to \in {"remove", "idle"} :
          Goto(w, to) /\ (to # "idle" => mu' = mu) /\ pc[w] = "stop" /\ UNCHANGED <<agents, job>>
    BY <1>3 DEF StopContainer, Move, At
  <2>. QED BY <2>1, SameAgentsShrink, WorkerKeepsCapacity DEF DeploySteps
<1>4. CASE StopRemove(w)
  <2>1. PICK to \in {"delete", "idle"} :
          Goto(w, to) /\ (to # "idle" => mu' = mu) /\ pc[w] = "remove" /\ UNCHANGED <<agents, job>>
    BY <1>4 DEF StopRemove, Move, At
  <2>. QED BY <2>1, SameAgentsShrink, WorkerKeepsCapacity DEF DeploySteps
<1>5. CASE StopDelete(w)
  <2>1. Goto(w, "idle") /\ pc[w] = "delete" /\ UNCHANGED job
    BY <1>5 DEF StopDelete, Move, At
  <2>2. LiveAgents' \subseteq LiveAgents
    BY <1>5 DEF StopDelete, LiveAgents, Live, TypeOK
  <2>. QED BY <2>1, <2>2, WorkerKeepsCapacity DEF DeploySteps
<1>. QED BY <1>1, <1>2, <1>3, <1>4, <1>5 DEF Command

LEMMA BeginCapacity ==
  ASSUME NEW m \in Limits, CapacityInv(m), TypeOK', NEW w \in Workers, NEW a \in Agents,
         RunBegin(w, a) \/ StopBegin(w, a)
  PROVE  CapacityInv(m)'
<1>. TypeOK /\ w \in Procs
  BY StepNames DEF CapacityInv
<1>1. mu = Nobody /\ mu' = w /\ agents' = agents /\ job' = [job EXCEPT ![w] = a]
  BY DEF RunBegin, StopBegin, Begin, Free
<1>2. \A v \in Workers : v \in Procs /\ pc[v] = "idle"
  BY <1>1, StepNames, LifecycleAssumption DEF CapacityInv, LockHeld
<1>3. \/ RunBegin(w, a) /\ pc' = [pc EXCEPT ![w] = "list"]
      \/ pc' = [pc EXCEPT ![w] = "stop"]
  BY DEF RunBegin, StopBegin, Begin, Goto
<1>4. LockHeld'
  BY <1>1, <1>2, <1>3 DEF LockHeld, TypeOK
<1>5. SlotReserved(m)'
  <2>. SUFFICES ASSUME NEW v \in Workers, pc'[v] \in DeploySteps
                PROVE  ~Live(job[v])' /\ Cardinality(LiveAgents') < m
    BY DEF SlotReserved
  <2>1. v = w /\ RunBegin(w, a)
    BY <1>2, <1>3 DEF DeploySteps, TypeOK
  <2>2. job'[w] = a /\ ~Live(a) /\ Cardinality(LiveAgents) < m
    <3>1. job'[w] = a /\ ~Live(a) /\ Cardinality(LiveAgents) < MaxAgents
      BY <1>1, <2>1 DEF RunBegin, TypeOK
    <3>. QED BY <3>1, LiveFinite, LifecycleAssumption
  <2>3. LiveAgents' = LiveAgents
    BY <1>1 DEF LiveAgents, Live
  <2>. QED BY <1>1, <2>1, <2>2, <2>3 DEF Live
<1>6. Within(m)'
  BY <1>1, SameAgentsShrink, LiveShrinks, LiveFinite, LifecycleAssumption
  DEF CapacityInv, Within
<1>. QED BY <1>4, <1>5, <1>6 DEF CapacityInv

LEMMA FailureCapacity ==
  ASSUME NEW m \in Limits, CapacityInv(m), TypeOK', NEW t \in Handlers, Failure(t)
  PROVE  CapacityInv(m)'
<1>. TypeOK /\ t \in Procs /\ t \notin Workers /\ job[t] \in Agents
  BY StepNames, LifecycleAssumption DEF CapacityInv, TypeOK, Handlers
<1>1. mu' = mu
  BY DEF Failure, HandleFailure, GiveUpMark, GiveUpStop, GiveUpRemove, GiveUpDrop, GiveUpForget
<1>2. LiveAgents' \subseteq LiveAgents
  <2>1. \/ agents' = agents
        \/ agents' = [agents EXCEPT ![job[t]] = NoAgent]
        \/ Live(job[t]) /\ \E n \in Nat : agents' = [agents EXCEPT ![job[t]].count = n]
    <3>1. agents[job[t]].count + 1 \in Nat
      BY DEF TypeOK
    <3>2. CASE HandleFailure(t)
      BY <3>1, <3>2 DEF HandleFailure
    <3>3. CASE GiveUpDrop(t)
      BY <3>3 DEF GiveUpDrop
    <3>. QED BY <3>2, <3>3 DEF Failure, GiveUpMark, GiveUpStop, GiveUpRemove, GiveUpForget
  <2>. QED BY <2>1 DEF LiveAgents, Live, TypeOK
<1>3. \A w \in Workers : pc'[w] = pc[w] /\ job'[w] = job[w]
  <2>1. CASE HandleFailure(t)
    <3>1. \/ job' = job /\ \E to \in {"idle", "mark"} : pc' = [pc EXCEPT ![t] = to]
          \/ \E r \in Restarters : /\ pc' = [pc EXCEPT ![t] = "idle", ![r] = "read"]
                                   /\ job' = [job EXCEPT ![r] = job[t]]
      BY <2>1 DEF HandleFailure, Move, Goto, Idle
    <3>. QED BY <3>1, StepNames DEF TypeOK
  <2>2. CASE ~HandleFailure(t)
    <3>1. UNCHANGED job /\ \E to : Goto(t, to)
      BY <2>2 DEF Failure, GiveUpMark, GiveUpStop, GiveUpRemove, GiveUpDrop, GiveUpForget, Move
    <3>. QED BY <3>1, HandlerFrame
  <2>. QED BY <2>1, <2>2
<1>. QED BY <1>1, <1>2, <1>3, HandlerKeepsCapacity

LEMMA RestartCapacity ==
  ASSUME NEW m \in Limits, CapacityInv(m), TypeOK', NEW r \in Restarters, Restart(r)
  PROVE  CapacityInv(m)'
<1>. TypeOK /\ r \in Procs /\ r \in Handlers /\ job[r] \in Agents /\ held[r] \in Nat
  BY StepNames DEF CapacityInv, TypeOK
<1>1. mu' = mu /\ UNCHANGED job /\ \E to : Goto(r, to)
  <2>1. CASE CreateSteps(r)
    BY <2>1, CreateShape
  <2>2. CASE ~CreateSteps(r)
    BY <2>2 DEF Restart, RestartRead, RestartStopOld, RestartRemoveOld, RestartCommit,
                RestartSave, RestartDiscard, Move
  <2>. QED BY <2>1, <2>2
<1>2. LiveAgents' \subseteq LiveAgents
  <2>1. \/ agents' = agents
        \/ Live(job[r]) /\ agents' = [agents EXCEPT ![job[r]].cid = held[r]]
    <3>1. CASE CreateSteps(r)
      BY <3>1, CreateShape
    <3>2. CASE RestartCommit(r)
      BY <3>2 DEF RestartCommit
    <3>. QED BY <3>1, <3>2 DEF Restart, RestartRead, RestartStopOld, RestartRemoveOld,
                               RestartSave, RestartDiscard
  <2>. QED BY <2>1 DEF LiveAgents, Live, TypeOK
<1>. QED BY <1>1, <1>2, HandlerFrame, HandlerKeepsCapacity

LEMMA MonitorFrame ==
  ASSUME NEW m \in Limits, CapacityInv(m), Check
  PROVE  /\ UNCHANGED <<mu, agents, made, runs>>
         /\ \A p \in Procs \ {Monitor} : pc'[p] = pc[p] /\ job'[p] = job[p]
<1>1. CASE MonitorSnapshot
  BY <1>1 DEF MonitorSnapshot
<1>2. CASE MonitorInspect
  BY <1>2 DEF MonitorInspect, Begin, Goto, CapacityInv, TypeOK
<1>. QED BY <1>1, <1>2 DEF Check

LEMMA StepCapacity ==
  ASSUME NEW m \in Limits, CapacityInv(m), [Next]_vars
  PROVE  CapacityInv(m)'
<1>. TypeOK'
  BY StepType DEF CapacityInv
<1>1. CASE Check
  BY <1>1, MonitorFrame, SameAgentsShrink, HandlerKeepsCapacity, StepNames, LifecycleAssumption
  DEF Handlers
<1>2. ASSUME NEW a \in Agents, Environment(a)
      PROVE  CapacityInv(m)'
  BY <1>2, SameAgentsShrink, HandlerKeepsCapacity
  DEF Environment, ContainerExits, ContainerRemoved
<1>3. CASE UNCHANGED vars
  BY <1>3, SameAgentsShrink, HandlerKeepsCapacity DEF vars
<1>. QED BY <1>1, <1>2, <1>3, WorkerCapacity, BeginCapacity, FailureCapacity, RestartCapacity
         DEF Next

LEMMA InitCapacity ==
  ASSUME NEW m \in Limits, Init
  PROVE  CapacityInv(m)
<1>1. LiveAgents = {}
  BY DEF Init, LiveAgents, Live
<1>2. Within(m)
  BY <1>1, FS_EmptySet, LifecycleAssumption DEF Within
<1>3. LockHeld /\ SlotReserved(m)
  BY StepNames DEF Init, LockHeld, SlotReserved, DeploySteps
<1>. QED BY <1>2, <1>3, InitType DEF CapacityInv

(* manager.go:57-113 and 279-333: the node never manages more agents than   *)
(* MaxAgents, for any number of agents, concurrent commands and restarts.   *)
THEOREM LifecycleCapacity == Spec => []CapacityRespected
<1>. DEFINE Inv == CapacityInv(MaxAgents)
<1>. MaxAgents \in Limits
  BY LifecycleAssumption
<1>1. Init => Inv
  BY InitCapacity
<1>2. Inv /\ [Next]_vars => Inv'
  BY StepCapacity
<1>3. Inv => CapacityRespected
  BY DEF CapacityInv, CapacityRespected, Within
<1>. QED BY <1>1, <1>2, <1>3, PTL DEF Spec

-----------------------------------------------------------------------------
(* The lock. It is the workers' own affair: handlers take it within a step. *)

\* A worker's step is one with the lock: the last, or one nearer to it.
LEMMA HolderSteps ==
  ASSUME TypeOK, HolderWorks, NEW w \in Workers, Command(w)
  PROVE  /\ mu = w
         /\ \/ mu' = Nobody /\ Goto(w, "idle")
            \/ mu' = w /\ \E to \in CommandSteps : Goto(w, to) /\ StepsAfter[to] < StepsAfter[pc[w]]
<1>. DEFINE Goes == \/ mu' = Nobody /\ Goto(w, "idle")
                    \/ mu' = w /\ \E to \in CommandSteps :
                                     Goto(w, to) /\ StepsAfter[to] < StepsAfter[pc[w]]
<1>1. pc[w] # "idle"
  BY DEF Command, CreateSteps, CreateList, CreateEvict, CreateContainer, CreateFails, StartContainer,
         StartUndo, RunCommit, StopContainer, StopRemove, StopDelete, At
<1>2. mu = w
  BY <1>1 DEF HolderWorks
<1>3. ASSUME Release(w), Goto(w, "idle") PROVE Goes
  BY <1>2, <1>3 DEF Release
<1>4. ASSUME UNCHANGED mu, NEW from, pc[w] = from, NEW to, Goto(w, to),
             <<from, to>> \in {<<"list", "evict">>, <<"list", "create">>, <<"evict", "create">>,
                              <<"create", "start">>, <<"start", "commit">>, <<"start", "undo">>,
                              <<"stop", "remove">>, <<"remove", "delete">>}
      PROVE  Goes
  <2>1. to \in CommandSteps /\ StepsAfter[to] < StepsAfter[from]
    BY <1>4 DEF CommandSteps, DeploySteps, StepsAfter
  <2>. QED BY <1>2, <1>4, <2>1
<1>5. CASE CreateSteps(w)
  <2>1. CASE CreateList(w) \/ CreateEvict(w) \/ CreateContainer(w) \/ StartContainer(w)
    BY <1>2, <1>4, <2>1 DEF CreateList, CreateEvict, CreateContainer, StartContainer, At, Move
  <2>2. CASE CreateFails(w) \/ StartUndo(w)
    BY <1>2, <1>3, <2>2 DEF CreateFails, StartUndo, AfterFailure, Move
  <2>. QED BY <1>5, <2>1, <2>2 DEF CreateSteps
<1>6. CASE RunCommit(w) \/ StopDelete(w)
  BY <1>2, <1>3, <1>6 DEF RunCommit, StopDelete, Move
<1>7. CASE StopContainer(w) \/ StopRemove(w)
  BY <1>2, <1>3, <1>4, <1>7 DEF StopContainer, StopRemove, At, Move
<1>. QED BY <1>5, <1>6, <1>7 DEF Command

\* Everybody else leaves it, and the workers, alone.
LEMMA HandlersLeaveLock ==
  ASSUME TypeOK,
         \/ \E t \in Handlers : Failure(t)
         \/ \E r \in Restarters : Restart(r)
         \/ Check \/ (\E a \in Agents : Environment(a)) \/ UNCHANGED vars
  PROVE  mu' = mu /\ \A w \in Workers : pc'[w] = pc[w]
<1>1. ASSUME NEW p \in Handlers, NEW to, Goto(p, to) PROVE \A w \in Workers : pc'[w] = pc[w]
  BY <1>1, StepNames, LifecycleAssumption DEF Goto, TypeOK, Handlers
<1>2. ASSUME NEW t \in Handlers, Failure(t) PROVE mu' = mu /\ \A w \in Workers : pc'[w] = pc[w]
  <2>1. \/ \E to : Goto(t, to)
        \/ \E r \in Restarters : pc' = [pc EXCEPT ![t] = "idle", ![r] = "read"]
    BY <1>2 DEF Failure, HandleFailure, GiveUpMark, GiveUpStop, GiveUpRemove, GiveUpDrop,
                GiveUpForget, Move, Idle
  <2>2. t \in Procs /\ t \notin Workers
    BY StepNames, LifecycleAssumption DEF Handlers
  <2>3. \A w \in Workers : pc'[w] = pc[w]
    BY <1>1, <2>1, <2>2, StepNames DEF TypeOK
  <2>4. mu' = mu
    BY <1>2 DEF Failure, HandleFailure, GiveUpMark, GiveUpStop, GiveUpRemove, GiveUpDrop, GiveUpForget
  <2>. QED BY <2>3, <2>4
<1>3. ASSUME NEW r \in Restarters, Restart(r) PROVE mu' = mu /\ \A w \in Workers : pc'[w] = pc[w]
  <2>1. \E to : Goto(r, to)
    BY <1>3 DEF Restart, CreateSteps, CreateList, CreateEvict, CreateContainer, CreateFails,
                StartContainer, StartUndo, RestartRead, RestartStopOld, RestartRemoveOld,
                RestartCommit, RestartSave, RestartDiscard, Move
  <2>2. mu # r
    BY StepNames, LifecycleAssumption DEF TypeOK
  <2>3. mu' = mu
    BY <1>3, <2>2 DEF Restart, CreateSteps, CreateList, CreateEvict, CreateContainer, CreateFails,
                      StartContainer, StartUndo, RestartRead, RestartStopOld, RestartRemoveOld,
                      RestartCommit, RestartSave, RestartDiscard, Release
  <2>. QED BY <1>1, <2>1, <2>3, StepNames
<1>4. CASE Check
  BY <1>1, <1>4 DEF Check, MonitorSnapshot, MonitorInspect, Begin, Handlers
<1>5. CASE (\E a \in Agents : Environment(a)) \/ UNCHANGED vars
  BY <1>5 DEF Environment, ContainerExits, ContainerRemoved, vars
<1>. QED BY <1>2, <1>3, <1>4, <1>5

LEMMA StepHolder ==
  ASSUME TypeOK, HolderWorks, [Next]_vars
  PROVE  /\ HolderWorks'
         /\ \A w \in Workers : mu = w => GivesBack(w)
<1>. Nobody \notin Workers /\ \A w \in Workers : w \in Procs
  BY StepNames, LifecycleAssumption DEF Procs
<1>1. ASSUME NEW w \in Workers, Command(w)
      PROVE  HolderWorks' /\ \A v \in Workers : mu = v => GivesBack(v)
  <2>1. /\ mu = w
        /\ \/ mu' = Nobody /\ Goto(w, "idle")
           \/ mu' = w /\ \E to \in CommandSteps : Goto(w, to) /\ StepsAfter[to] < StepsAfter[pc[w]]
    BY <1>1, HolderSteps
  <2>2. \A v \in Workers \ {w} : pc[v] = "idle" /\ pc'[v] = "idle"
    BY <2>1 DEF HolderWorks, Goto, TypeOK
  <2>3. \/ mu' = Nobody /\ pc'[w] = "idle"
        \/ mu' = w /\ pc'[w] # "idle" /\ StepsAfter[pc'[w]] < StepsAfter[pc[w]]
    BY <2>1 DEF Goto, TypeOK, CommandSteps, DeploySteps
  <2>. QED BY <1>1, <2>1, <2>2, <2>3 DEF HolderWorks, GivesBack
<1>2. ASSUME NEW w \in Workers, NEW a \in Agents, RunBegin(w, a) \/ StopBegin(w, a)
      PROVE  HolderWorks' /\ \A v \in Workers : mu = v => GivesBack(v)
  <2>1. mu = Nobody /\ mu' = w /\ \E to \in {"list", "stop"} : pc' = [pc EXCEPT ![w] = to]
    BY <1>2 DEF RunBegin, StopBegin, Begin, Goto, Free
  <2>. QED BY <2>1 DEF HolderWorks, TypeOK
<1>3. CASE \/ \E t \in Handlers : Failure(t)
           \/ \E r \in Restarters : Restart(r)
           \/ Check \/ (\E a \in Agents : Environment(a)) \/ UNCHANGED vars
  <2>1. mu' = mu /\ \A w \in Workers : pc'[w] = pc[w]
    BY <1>3, HandlersLeaveLock
  <2>2. ASSUME NEW w \in Workers PROVE ~Command(w)
    <3>. SUFFICES ASSUME Command(w) PROVE FALSE
      OBVIOUS
    <3>1. mu = w
      BY HolderSteps
    <3>2. mu' = w /\ \E to \in CommandSteps : Goto(w, to) /\ StepsAfter[to] < StepsAfter[pc[w]]
      BY <2>1, <3>1, HolderSteps
    <3>3. StepsAfter[pc'[w]] < StepsAfter[pc[w]] /\ pc[w] \in CommandSteps
      BY <3>1, <3>2, StepNames DEF Goto, TypeOK, HolderWorks
    <3>. QED BY <2>1, <3>3 DEF StepsAfter, CommandSteps, DeploySteps
  <2>. QED BY <2>1, <2>2 DEF HolderWorks, GivesBack
<1>. QED BY <1>1, <1>2, <1>3 DEF Next

LEMMA InitHolder == Init => HolderWorks
BY StepNames, LifecycleAssumption DEF Init, HolderWorks, Procs

(* manager.go:57-162: at most one worker is inside Run or Stop, and it is    *)
(* the one that has Manager.mu.                                             *)
THEOREM LifecycleHolderWorks == Spec => []HolderWorks
<1>1. TypeOK /\ HolderWorks /\ [Next]_vars => TypeOK' /\ HolderWorks'
  BY StepType, StepHolder
<1>. QED BY <1>1, InitType, InitHolder, PTL DEF Spec

(* manager.go:57-162: it gives the lock back after at most five steps of    *)
(* its own, whatever Docker answers and the other goroutines do.            *)
THEOREM LifecycleLockGivenBack == Spec => LockGivenBack
<1>. DEFINE Back == \A w \in Workers : mu = w => GivesBack(w)
<1>1. TypeOK /\ HolderWorks /\ [Next]_vars => [Back]_vars
  BY StepHolder
<1>. QED BY <1>1, LifecycleTypeOK, LifecycleHolderWorks, PTL DEF Spec, LockGivenBack

-----------------------------------------------------------------------------
(* The restart budget. Every call of Run pays for MaxRestartAttempts        *)
(* containers. What is paid and not yet made is held by the worker that     *)
(* deploys the agent, then by its record (one for each failure it may still *)
(* be charged with), then by the restarts that such a charge has started.   *)
(* k is the number of such budgets that do not come from Run.               *)

Waiting == {"read", "stopOld", "removeOld", "list", "evict", "create"}
Pending(a) == {r \in Restarters : job[r] = a /\ pc[r] \in Waiting}

Slack(a) ==
  IF agents[a].count < MaxRestartAttempts
  THEN MaxRestartAttempts - 1 - agents[a].count ELSE 0

Deploying(a) == mu \in Workers /\ job[mu] = a

Credit(a) ==
  IF Live(a) THEN Slack(a)
  ELSE IF Deploying(a) /\ pc[mu] \in {"list", "evict", "create"} THEN MaxRestartAttempts
  ELSE IF Deploying(a) /\ pc[mu] \in {"start", "undo", "commit"} THEN MaxRestartAttempts - 1
  ELSE 0

Covered(a, k) ==
  /\ IsFiniteSet(Pending(a))
  /\ made[a] + Cardinality(Pending(a)) + Credit(a) <= MaxRestartAttempts * (runs[a] + k)

BudgetInv(m, k) == CapacityInv(m) /\ \A a \in Agents : Covered(a, k)

LEMMA CreditNat ==
  \A a \in Agents : (TypeOK => Credit(a) \in Nat) /\ (TypeOK' => Credit(a)' \in Nat)
<1>. TAKE a \in Agents
<1>1. TypeOK => Slack(a) \in Nat
  BY LifecycleAssumption DEF TypeOK, Slack
<1>2. TypeOK' => Slack(a)' \in Nat
  BY LifecycleAssumption DEF TypeOK, Slack
<1>. QED BY <1>1, <1>2, LifecycleAssumption DEF Credit

LEMMA CoveredNumbers ==
  ASSUME NEW m \in Limits, NEW k \in Nat, BudgetInv(m, k), NEW a \in Agents
  PROVE  /\ made[a] \in Nat /\ runs[a] \in Nat
         /\ MaxRestartAttempts * (runs[a] + k) \in Nat
         /\ made[a] + Cardinality(Pending(a)) + Credit(a) <= MaxRestartAttempts * (runs[a] + k)
         /\ IsFiniteSet(Pending(a)) /\ Cardinality(Pending(a)) \in Nat
         /\ Credit(a) \in Nat
<1>1. TypeOK /\ Covered(a, k)
  BY DEF BudgetInv, CapacityInv
<1>2. made[a] \in Nat /\ runs[a] \in Nat /\ MaxRestartAttempts * (runs[a] + k) \in Nat
  BY <1>1, LifecycleAssumption DEF TypeOK
<1>3. IsFiniteSet(Pending(a)) /\ Cardinality(Pending(a)) \in Nat
  BY <1>1, FS_CardinalityType DEF Covered
<1>4. made[a] + Cardinality(Pending(a)) + Credit(a) <= MaxRestartAttempts * (runs[a] + k)
  BY <1>1 DEF Covered
<1>. QED BY <1>1, <1>2, <1>3, <1>4, CreditNat

LEMMA CoveredKept ==
  ASSUME NEW m \in Limits, NEW k \in Nat, BudgetInv(m, k), TypeOK',
         NEW a \in Agents,
         made'[a] = made[a], runs'[a] = runs[a],
         Pending(a)' \subseteq Pending(a), Credit(a)' <= Credit(a)
  PROVE  Covered(a, k)'
<1>. TypeOK
  BY DEF BudgetInv, CapacityInv
<1>1. /\ IsFiniteSet(Pending(a)')
      /\ Cardinality(Pending(a)') <= Cardinality(Pending(a))
      /\ Cardinality(Pending(a)') \in Nat /\ Cardinality(Pending(a)) \in Nat
  BY FS_Subset, FS_CardinalityType DEF BudgetInv, Covered
<1>2. Credit(a) \in Nat /\ Credit(a)' \in Nat
  BY CreditNat
<1>3. made[a] \in Nat /\ runs[a] \in Nat /\ MaxRestartAttempts * (runs[a] + k) \in Nat
  BY LifecycleAssumption DEF TypeOK
<1>4. made[a] + Cardinality(Pending(a)) + Credit(a) <= MaxRestartAttempts * (runs[a] + k)
  BY DEF BudgetInv, Covered
<1>. QED BY <1>1, <1>2, <1>3, <1>4 DEF Covered

LEMMA SameCredit ==
  ASSUME NEW a \in Agents, agents'[a] = agents[a], mu' = mu,
         \A w \in Workers : pc'[w] = pc[w] /\ job'[w] = job[w]
  PROVE  Credit(a)' = Credit(a)
BY DEF Credit, Live, Slack, Deploying

LEMMA PendingShrinks ==
  ASSUME TypeOK, NEW p \in Procs, NEW to, Goto(p, to), UNCHANGED job,
         p \in Restarters /\ to \in Waiting => pc[p] \in Waiting,
         NEW a \in Agents
  PROVE  Pending(a)' \subseteq Pending(a)
<1>. SUFFICES ASSUME NEW r \in Restarters, job'[r] = a, pc'[r] \in Waiting
              PROVE  pc[r] \in Waiting
  BY DEF Pending
<1>. QED BY StepNames DEF Goto, TypeOK

\* A worker at work never earns credit.
LEMMA CreditSpent ==
  ASSUME NEW m \in Limits, CapacityInv(m), NEW w \in Workers, NEW to, Goto(w, to), pc[w] # "idle",
         UNCHANGED <<job, agents>>,
         IF to = "idle" THEN mu' = Nobody ELSE mu' = mu,
         to \in {"list", "evict", "create"} => pc[w] \in {"list", "evict", "create"},
         to \in {"start", "undo", "commit"} => pc[w] \in DeploySteps,
         NEW a \in Agents
  PROVE  Credit(a)' <= Credit(a)
<1>1. TypeOK /\ mu = w /\ pc'[w] = to /\ Nobody \notin Workers
  BY StepNames, LifecycleAssumption DEF CapacityInv, LockHeld, TypeOK, Goto
<1>2. Credit(a) \in Nat /\ (Live(a) => Slack(a) \in Nat)
  BY <1>1, CreditNat DEF Credit
<1>3. CASE Live(a)
  <2>1. Live(a)' /\ Slack(a)' = Slack(a)
    BY <1>3 DEF Live, Slack
  <2>. QED BY <1>2, <1>3, <2>1 DEF Credit
<1>4. CASE ~Live(a)
  <2>1. ~Live(a)'
    BY <1>4 DEF Live
  <2>2. CASE to = "idle" \/ job[w] # a
    BY <1>1, <1>2, <2>1, <2>2 DEF Credit, Deploying
  <2>3. CASE to # "idle" /\ job[w] = a
    BY <1>1, <1>4, <2>1, <2>3, LifecycleAssumption DEF Credit, Deploying, DeploySteps
  <2>. QED BY <2>2, <2>3
<1>. QED BY <1>3, <1>4

\* What CreateSteps does to the goroutine and the count of containers.
LEMMA CreateMoves ==
  ASSUME NEW m \in Limits, CapacityInv(m), NEW p \in Workers \cup Restarters, CreateSteps(p)
  PROVE  \E to \in DeploySteps \cup {AfterFailure(p)} :
           /\ Goto(p, to) /\ UNCHANGED <<agents, job, runs>>
           /\ pc[p] \in DeploySteps
           /\ IF to \in DeploySteps \/ p \in Restarters THEN mu' = mu ELSE mu' = Nobody
           /\ to \in {"list", "evict", "create"} => pc[p] \in {"list", "evict", "create"}
           /\ ~CreateContainer(p) => made' = made
<1>1. CASE CreateList(p)
  BY <1>1 DEF CreateList, Move, At, DeploySteps
<1>2. CASE CreateEvict(p)
  BY <1>2 DEF CreateEvict, Move, At, DeploySteps
<1>3. CASE CreateContainer(p)
  BY <1>3 DEF CreateContainer, At, DeploySteps
<1>7. p \in Restarters => mu # p
  BY LifecycleAssumption DEF CapacityInv, TypeOK, Handlers, Procs
<1>8. /\ AfterFailure(p) \notin DeploySteps
      /\ AfterFailure(p) \notin {"list", "evict", "create"}
  BY DEF AfterFailure, DeploySteps
<1>9. p \in Workers /\ pc[p] \in DeploySteps => mu = p /\ p \notin Restarters
  BY StepNames DEF CapacityInv, LockHeld, DeploySteps
<1>4. CASE CreateFails(p)
  BY <1>4, <1>7, <1>8, <1>9 DEF CreateFails, Move, Release, At, DeploySteps
<1>5. CASE StartContainer(p)
  BY <1>5 DEF StartContainer, Move, At, DeploySteps
<1>6. CASE StartUndo(p)
  BY <1>6, <1>7, <1>8, <1>9 DEF StartUndo, Move, Release, At, DeploySteps
<1>. QED BY <1>1, <1>2, <1>3, <1>4, <1>5, <1>6 DEF CreateSteps

LEMMA CreateCovered ==
  ASSUME NEW m \in Limits, NEW k \in Nat, BudgetInv(m, k), TypeOK',
         NEW p \in Workers \cup Restarters, CreateSteps(p), NEW a \in Agents
  PROVE  Covered(a, k)'
<1>. CapacityInv(m) /\ TypeOK /\ p \in Procs
  BY StepNames DEF BudgetInv, CapacityInv
<1>1. PICK to \in DeploySteps \cup {AfterFailure(p)} :
           /\ Goto(p, to) /\ UNCHANGED <<agents, job, runs>>
           /\ pc[p] \in DeploySteps
           /\ IF to \in DeploySteps \/ p \in Restarters THEN mu' = mu ELSE mu' = Nobody
           /\ to \in {"list", "evict", "create"} => pc[p] \in {"list", "evict", "create"}
           /\ ~CreateContainer(p) => made' = made
  BY CreateMoves
<1>2. Pending(a)' \subseteq Pending(a)
  BY <1>1, PendingShrinks DEF Waiting, DeploySteps, AfterFailure
<1>3. Credit(a)' <= Credit(a)
  <2>1. CASE p \in Workers
    <3>1. to = "idle" \/ to \in DeploySteps
      BY <2>1 DEF AfterFailure
    <3>2. p \notin Restarters
      BY <2>1, StepNames
    <3>3. pc[p] # "idle" /\ (IF to = "idle" THEN mu' = Nobody ELSE mu' = mu)
      BY <1>1, <3>1, <3>2 DEF DeploySteps
    <3>. QED BY <1>1, <2>1, <3>3, CreditSpent
  <2>2. CASE p \in Restarters
    <3>1. \A w \in Workers : pc'[w] = pc[w] /\ job'[w] = job[w]
      BY <1>1, <2>2, StepNames, HandlerFrame
    <3>2. Credit(a)' = Credit(a)
      BY <1>1, <2>2, <3>1, SameCredit
    <3>. QED BY <3>2, CreditNat
  <2>. QED BY <2>1, <2>2
<1>4. CASE made'[a] = made[a]
  BY <1>1, <1>2, <1>3, <1>4, CoveredKept
<1>5. CASE made'[a] # made[a]
  <2>1. CreateContainer(p) /\ job[p] = a /\ made'[a] = made[a] + 1
    BY <1>1, <1>5 DEF CreateContainer, TypeOK
  <2>2. pc[p] = "create" /\ pc'[p] = "start" /\ mu' = mu
    BY <2>1 DEF CreateContainer, At, Goto, TypeOK
  <2>3. /\ made[a] \in Nat /\ runs[a] \in Nat /\ MaxRestartAttempts * (runs[a] + k) \in Nat
        /\ made[a] + Cardinality(Pending(a)) + Credit(a) <= MaxRestartAttempts * (runs[a] + k)
        /\ IsFiniteSet(Pending(a)) /\ Cardinality(Pending(a)) \in Nat
        /\ Credit(a) \in Nat /\ Credit(a)' \in Nat
    BY CoveredNumbers, CreditNat
  <2>4. CASE p \in Restarters
    <3>1. p \in Pending(a) /\ Pending(a)' = Pending(a) \ {p}
      <4>1. p \in Pending(a)
        BY <2>1, <2>2, <2>4 DEF Pending, Waiting
      <4>2. p \notin Pending(a)'
        BY <2>2 DEF Pending, Waiting
      <4>3. \A r \in Restarters \ {p} : pc'[r] = pc[r] /\ job'[r] = job[r]
        BY <1>1, StepNames DEF Goto, TypeOK
      <4>. QED BY <4>1, <4>2, <4>3 DEF Pending
    <3>2. IsFiniteSet(Pending(a)') /\ Cardinality(Pending(a)') = Cardinality(Pending(a)) - 1
      BY <2>3, <3>1, FS_RemoveElement
    <3>. QED BY <1>1, <1>3, <2>1, <2>3, <3>2 DEF Covered
  <2>5. CASE p \in Workers
    <3>1. mu = p /\ ~Live(a) /\ ~Live(a)'
      BY <1>1, <2>1, <2>2, <2>5 DEF CapacityInv, LockHeld, SlotReserved, DeploySteps, Live
    <3>2. Credit(a) = MaxRestartAttempts /\ Credit(a)' = MaxRestartAttempts - 1
      BY <1>1, <2>1, <2>2, <2>5, <3>1 DEF Credit, Deploying
    <3>3. /\ IsFiniteSet(Pending(a)') /\ Cardinality(Pending(a)') <= Cardinality(Pending(a))
          /\ Cardinality(Pending(a)') \in Nat
      BY <1>2, <2>3, FS_Subset, FS_CardinalityType
    <3>. QED BY <1>1, <2>1, <2>3, <3>2, <3>3, LifecycleAssumption DEF Covered
  <2>. QED BY <2>4, <2>5
<1>. QED BY <1>4, <1>5

LEMMA CommandCovered ==
  ASSUME NEW m \in Limits, NEW k \in Nat, BudgetInv(m, k), TypeOK',
         NEW w \in Workers, Command(w), NEW a \in Agents
  PROVE  Covered(a, k)'
<1>. CapacityInv(m) /\ TypeOK /\ w \in Procs /\ w \notin Restarters
  BY StepNames DEF BudgetInv, CapacityInv
<1>1. CASE CreateSteps(w)
  BY <1>1, CreateCovered
<1>2. CASE RunCommit(w)
  <2>1. pc[w] = "commit" /\ mu = w /\ mu' = Nobody /\ UNCHANGED <<made, runs, job>> /\ Goto(w, "idle")
    BY <1>2 DEF RunCommit, At, Move, Release, CapacityInv, LockHeld
  <2>2. Credit(a)' <= Credit(a)
    <3>1. CASE job[w] = a
      <4>1. ~Live(a) /\ Credit(a) = MaxRestartAttempts - 1
        BY <2>1, <3>1 DEF CapacityInv, SlotReserved, DeploySteps, Credit, Deploying
      <4>2. agents'[a].count = 0
        BY <1>2, <3>1 DEF RunCommit, TypeOK
      <4>3. Slack(a)' = MaxRestartAttempts - 1 /\ ~Deploying(a)'
        BY <2>1, <4>2, LifecycleAssumption DEF Slack, Deploying, Procs
      <4>. QED BY <4>1, <4>3, LifecycleAssumption DEF Credit
    <3>2. CASE job[w] # a
      <4>1. agents'[a] = agents[a] /\ ~Deploying(a) /\ ~Deploying(a)'
        BY <1>2, <2>1, <3>2, LifecycleAssumption DEF RunCommit, TypeOK, Deploying, Procs
      <4>2. Credit(a)' = Credit(a)
        BY <4>1 DEF Credit, Live, Slack
      <4>. QED BY <4>2, CreditNat
    <3>. QED BY <3>1, <3>2
  <2>. QED BY <2>1, <2>2, PendingShrinks, CoveredKept
<1>3. CASE StopContainer(w) \/ StopRemove(w)
  <2>1. PICK to \in {"idle", "remove", "delete"} :
          /\ Goto(w, to) /\ UNCHANGED <<agents, made, runs, job>>
          /\ pc[w] \in {"stop", "remove"}
          /\ IF to = "idle" THEN Release(w) ELSE mu' = mu
    BY <1>3 DEF StopContainer, StopRemove, Move, At
  <2>2. IF to = "idle" THEN mu' = Nobody ELSE mu' = mu
    BY <2>1 DEF Release, CapacityInv, LockHeld
  <2>3. Credit(a)' <= Credit(a)
    BY <2>1, <2>2, CreditSpent
  <2>. QED BY <2>1, <2>3, PendingShrinks, CoveredKept
<1>4. CASE StopDelete(w)
  <2>1. pc[w] = "delete" /\ mu = w /\ mu' = Nobody /\ UNCHANGED <<made, runs, job>> /\ Goto(w, "idle")
    BY <1>4 DEF StopDelete, At, Move, Release, CapacityInv, LockHeld
  <2>2. ~Deploying(a)' /\ (~Live(a)' \/ agents'[a] = agents[a])
    BY <1>4, <2>1, LifecycleAssumption DEF StopDelete, TypeOK, Deploying, Procs, Live
  <2>3. Credit(a)' <= Credit(a)
    <3>1. CASE ~Live(a)'
      BY <2>2, <3>1, CreditNat DEF Credit
    <3>2. CASE Live(a)'
      <4>1. Live(a) /\ Slack(a)' = Slack(a)
        BY <2>2, <3>2 DEF Live, Slack
      <4>2. Credit(a)' = Credit(a)
        BY <3>2, <4>1 DEF Credit
      <4>. QED BY <4>2, CreditNat
    <3>. QED BY <3>1, <3>2
  <2>. QED BY <2>1, <2>3, PendingShrinks, CoveredKept
<1>. QED BY <1>1, <1>2, <1>3, <1>4 DEF Command

\* A charge moves one container from the record to the restart it starts.
LEMMA ChargeCovered ==
  ASSUME NEW m \in Limits, NEW k \in Nat, BudgetInv(m, k), TypeOK',
         NEW t \in Handlers, HandleFailure(t), NEW a \in Agents
  PROVE  Covered(a, k)'
<1>. CapacityInv(m) /\ TypeOK /\ t \in Procs /\ t \notin Workers /\ job[t] \in Agents
  BY StepNames, LifecycleAssumption DEF BudgetInv, CapacityInv, TypeOK, Handlers
<1>1. ~Deploying(a) /\ ~Deploying(a)' /\ made' = made /\ runs' = runs
  BY LifecycleAssumption DEF HandleFailure, Free, Deploying, Procs
<1>2. agents[a].count \in Nat /\ (Live(a) => Slack(a) \in Nat)
  BY LifecycleAssumption DEF TypeOK, Slack
<1>3. CASE agents'[a] = agents[a] /\ Pending(a)' \subseteq Pending(a)
  <2>1. Credit(a)' = Credit(a)
    BY <1>1, <1>3 DEF Credit, Live, Slack
  <2>. QED BY <1>1, <1>3, <2>1, CoveredKept, CreditNat
<1>4. CASE ~(agents'[a] = agents[a] /\ Pending(a)' \subseteq Pending(a))
  <2>1. /\ Live(job[t])
        /\ agents' = [agents EXCEPT ![job[t]].count = @ + 1]
    <3>1. CASE Move(t, "idle") /\ UNCHANGED <<agents, job>>
      <4>1. Pending(a)' \subseteq Pending(a)
        BY <3>1, PendingShrinks DEF Move, Waiting
      <4>. QED BY <1>4, <3>1, <4>1
    <3>. QED BY <3>1 DEF HandleFailure
  <2>2. job[t] # a => agents'[a] = agents[a]
    BY <2>1 DEF TypeOK
  <2>3. \/ /\ agents[job[t]].count + 1 >= MaxRestartAttempts
           /\ Goto(t, "mark") /\ UNCHANGED job
        \/ /\ agents[job[t]].count + 1 < MaxRestartAttempts
           /\ \E r \in Restarters : /\ pc' = [pc EXCEPT ![t] = "idle", ![r] = "read"]
                                    /\ job' = [job EXCEPT ![r] = job[t]]
    <3>1. CASE Move(t, "idle") /\ UNCHANGED <<agents, job>>
      <4>1. Pending(a)' \subseteq Pending(a)
        BY <3>1, PendingShrinks DEF Move, Waiting
      <4>. QED BY <1>4, <3>1, <4>1
    <3>. QED BY <3>1 DEF HandleFailure, Idle
  <2>4. CASE Goto(t, "mark") /\ UNCHANGED job /\ agents[job[t]].count + 1 >= MaxRestartAttempts
    <3>1. Pending(a)' \subseteq Pending(a)
      BY <2>4, PendingShrinks DEF Waiting
    <3>2. job[t] = a
      BY <1>4, <2>2, <3>1
    <3>3. agents'[a].count = agents[a].count + 1
      BY <2>1, <3>2 DEF TypeOK
    <3>4. Slack(a)' = 0
      BY <1>2, <2>4, <3>2, <3>3, LifecycleAssumption DEF Slack
    <3>5. Credit(a)' = 0
      BY <1>1, <3>4 DEF Credit
    <3>. QED BY <1>1, <3>1, <3>5, CoveredKept, CreditNat
  <2>5. ASSUME NEW r \in Restarters, agents[job[t]].count + 1 < MaxRestartAttempts,
               pc' = [pc EXCEPT ![t] = "idle", ![r] = "read"],
               job' = [job EXCEPT ![r] = job[t]]
        PROVE  Covered(a, k)'
    <3>1. \A q \in Restarters \ {r} : job'[q] = job[q] /\ pc'[q] \in {pc[q], "idle"}
      BY <2>5, StepNames DEF TypeOK
    <3>2. job'[r] = job[t]
      BY <2>5, StepNames DEF TypeOK
    <3>3. job[t] # a => Pending(a)' \subseteq Pending(a)
      BY <3>1, <3>2 DEF Pending, Waiting
    <3>4. job[t] = a
      BY <1>4, <2>2, <3>3
    <3>5. Pending(a)' \subseteq Pending(a) \cup {r}
      BY <3>1 DEF Pending, Waiting
    <3>6. /\ IsFiniteSet(Pending(a) \cup {r})
          /\ \/ Cardinality(Pending(a) \cup {r}) = Cardinality(Pending(a))
             \/ Cardinality(Pending(a) \cup {r}) = Cardinality(Pending(a)) + 1
      BY CoveredNumbers, FS_AddElement, Zenon
    <3>7. /\ IsFiniteSet(Pending(a)') /\ Cardinality(Pending(a)') \in Nat
          /\ Cardinality(Pending(a)') <= Cardinality(Pending(a) \cup {r})
          /\ Cardinality(Pending(a) \cup {r}) \in Nat
      BY <3>5, <3>6, FS_Subset, FS_CardinalityType
    <3>8. agents'[a].count = agents[a].count + 1 /\ Live(a)
      BY <2>1, <3>4 DEF TypeOK
    <3>9. Credit(a) = MaxRestartAttempts - 1 - agents[a].count
      BY <1>2, <2>5, <3>4, <3>8, LifecycleAssumption DEF Credit, Slack
    <3>10. Live(a)'
      BY <1>2, <3>8 DEF Live, NoAgent
    <3>11. Credit(a)' = MaxRestartAttempts - 2 - agents[a].count \/ Credit(a)' = 0
      BY <1>2, <3>8, <3>10, LifecycleAssumption DEF Credit, Slack
    <3>12. Credit(a)' + 1 <= Credit(a)
      BY <1>2, <2>5, <3>4, <3>9, <3>11, LifecycleAssumption
    <3>. QED BY <1>1, <3>6, <3>7, <3>12, CoveredNumbers, CreditNat DEF Covered
  <2>. QED BY <2>3, <2>4, <2>5
<1>. QED BY <1>3, <1>4

LEMMA FailureCovered ==
  ASSUME NEW m \in Limits, NEW k \in Nat, BudgetInv(m, k), TypeOK',
         NEW t \in Handlers, Failure(t), NEW a \in Agents
  PROVE  Covered(a, k)'
<1>. CapacityInv(m) /\ TypeOK /\ t \in Procs /\ job[t] \in Agents
  BY StepNames DEF BudgetInv, CapacityInv, TypeOK, Handlers
<1>1. CASE HandleFailure(t)
  BY <1>1, ChargeCovered
<1>2. CASE ~HandleFailure(t)
  <2>1. PICK to \in FailureSteps \cup {"idle"} : Goto(t, to)
    BY <1>2 DEF Failure, GiveUpMark, GiveUpStop, GiveUpRemove, GiveUpDrop, GiveUpForget, Move, FailureSteps
  <2>2. UNCHANGED <<mu, made, runs, job>>
    BY <1>2 DEF Failure, GiveUpMark, GiveUpStop, GiveUpRemove, GiveUpDrop, GiveUpForget
  <2>3. Pending(a)' \subseteq Pending(a)
    BY <2>1, <2>2, PendingShrinks DEF Waiting, FailureSteps
  <2>4. \A w \in Workers : pc'[w] = pc[w] /\ job'[w] = job[w]
    BY <2>1, <2>2, HandlerFrame
  <2>5. Credit(a)' <= Credit(a)
    <3>1. CASE agents'[a] = agents[a]
      BY <2>2, <2>4, <3>1, SameCredit, CreditNat
    <3>2. CASE agents'[a] # agents[a]
      <4>1. GiveUpDrop(t)
        BY <1>2, <3>2 DEF Failure, GiveUpMark, GiveUpStop, GiveUpRemove, GiveUpForget
      <4>2. agents'[a] = NoAgent /\ mu' = Nobody
        BY <3>2, <4>1 DEF GiveUpDrop, Free, TypeOK
      <4>3. Credit(a)' = 0
        BY <4>2, LifecycleAssumption DEF Credit, Live, Deploying, Procs
      <4>. QED BY <4>3, CreditNat
    <3>. QED BY <3>1, <3>2
  <2>. QED BY <2>2, <2>3, <2>5, CoveredKept
<1>. QED BY <1>1, <1>2

LEMMA RestartCovered ==
  ASSUME NEW m \in Limits, NEW k \in Nat, BudgetInv(m, k), TypeOK',
         NEW r \in Restarters, Restart(r), NEW a \in Agents
  PROVE  Covered(a, k)'
<1>. CapacityInv(m) /\ TypeOK /\ r \in Procs /\ r \in Handlers /\ job[r] \in Agents /\ held[r] \in Nat
  BY StepNames DEF BudgetInv, CapacityInv, TypeOK
<1>1. CASE CreateSteps(r)
  BY <1>1, CreateCovered
<1>2. CASE ~CreateSteps(r)
  <2>1. PICK to : Goto(r, to) /\ (to \in Waiting => pc[r] \in Waiting)
    BY <1>2 DEF Restart, RestartRead, RestartStopOld, RestartRemoveOld, RestartCommit,
                RestartSave, RestartDiscard, Move, At, Waiting
  <2>2. UNCHANGED <<mu, made, runs, job>>
    BY <1>2 DEF Restart, RestartRead, RestartStopOld, RestartRemoveOld, RestartCommit,
                RestartSave, RestartDiscard
  <2>3. Pending(a)' \subseteq Pending(a)
    BY <2>1, <2>2, PendingShrinks
  <2>4. \A w \in Workers : pc'[w] = pc[w] /\ job'[w] = job[w]
    BY <2>1, <2>2, HandlerFrame
  <2>5. Credit(a)' <= Credit(a)
    <3>1. CASE agents'[a] = agents[a]
      BY <2>2, <2>4, <3>1, SameCredit, CreditNat
    <3>2. CASE agents'[a] # agents[a]
      <4>1. RestartCommit(r)
        BY <1>2, <3>2 DEF Restart, RestartRead, RestartStopOld, RestartRemoveOld,
                          RestartSave, RestartDiscard
      <4>2. agents' = [agents EXCEPT ![job[r]].cid = held[r]] /\ Live(job[r]) /\ mu' = Nobody
        BY <3>2, <4>1 DEF RestartCommit, Free
      <4>3. Live(a) /\ Slack(a)' = Slack(a) /\ ~Deploying(a)'
        BY <3>2, <4>2, LifecycleAssumption DEF Slack, Deploying, Procs, TypeOK
      <4>4. Credit(a) = Slack(a) /\ Credit(a)' \in {0, Slack(a)}
        BY <4>3 DEF Credit
      <4>. QED BY <4>4, CreditNat
    <3>. QED BY <3>1, <3>2
  <2>. QED BY <2>2, <2>3, <2>5, CoveredKept
<1>. QED BY <1>1, <1>2

LEMMA BeginCovered ==
  ASSUME NEW m \in Limits, NEW k \in Nat, BudgetInv(m, k), TypeOK',
         NEW w \in Workers, NEW b \in Agents,
         RunBegin(w, b) \/ StopBegin(w, b), NEW a \in Agents
  PROVE  Covered(a, k)'
<1>. CapacityInv(m) /\ TypeOK /\ w \in Procs /\ w \notin Restarters
  BY StepNames DEF BudgetInv, CapacityInv
<1>1. /\ mu = Nobody /\ mu' = w /\ agents' = agents /\ made' = made
      /\ job' = [job EXCEPT ![w] = b] /\ \E to : pc' = [pc EXCEPT ![w] = to]
  BY DEF RunBegin, StopBegin, Begin, Free, Goto
<1>2. \A r \in Restarters : pc'[r] = pc[r] /\ job'[r] = job[r]
  BY <1>1, StepNames DEF TypeOK
<1>3. Pending(a)' = Pending(a)
  BY <1>2 DEF Pending
<1>4. ~Deploying(a)
  BY <1>1, LifecycleAssumption DEF Deploying, Procs
<1>5. CASE Live(a) \/ a # b \/ StopBegin(w, b)
  <2>1. Credit(a)' = Credit(a)
    <3>1. CASE Live(a)
      BY <1>1, <3>1 DEF Credit, Live, Slack
    <3>2. CASE ~Live(a) /\ a # b
      BY <1>1, <1>4, <3>2 DEF Credit, Live, Slack, Deploying, TypeOK
    <3>3. CASE ~Live(a) /\ StopBegin(w, b)
      <4>1. Live(b)
        BY <3>3 DEF StopBegin
      <4>. QED BY <3>2, <3>3, <4>1
    <3>. QED BY <1>5, <3>1, <3>2, <3>3
  <2>2. runs'[a] = runs[a]
    <3>1. runs' = runs \/ (RunBegin(w, b) /\ runs' = [runs EXCEPT ![b] = @ + 1] /\ ~Live(b))
      BY DEF RunBegin, StopBegin
    <3>2. StopBegin(w, b) => runs' = runs
      BY DEF StopBegin
    <3>. QED BY <1>5, <3>1, <3>2 DEF TypeOK
  <2>. QED BY <1>1, <1>3, <2>1, <2>2, CoveredKept, CreditNat
<1>6. CASE ~Live(a) /\ a = b /\ RunBegin(w, b)
  <2>1. runs'[a] = runs[a] + 1
    BY <1>6 DEF RunBegin, TypeOK
  <2>2. Credit(a) = 0 /\ Credit(a)' = MaxRestartAttempts
    <3>1. ~Live(a)' /\ Deploying(a)' /\ pc'[mu'] = "list"
      BY <1>1, <1>6 DEF Live, Deploying, RunBegin, Begin, Goto, TypeOK
    <3>. QED BY <1>4, <1>6, <3>1 DEF Credit
  <2>3. MaxRestartAttempts * (runs[a] + 1 + k) = MaxRestartAttempts * (runs[a] + k) + MaxRestartAttempts
    BY LifecycleAssumption, CoveredNumbers
  <2>4. made[a] + Cardinality(Pending(a)) + MaxRestartAttempts <= MaxRestartAttempts * (runs'[a] + k)
    BY <2>1, <2>2, <2>3, CoveredNumbers, LifecycleAssumption
  <2>. QED BY <1>1, <1>3, <2>2, <2>4, CoveredNumbers DEF Covered
<1>. QED BY <1>5, <1>6

LEMMA StepBudget ==
  ASSUME NEW m \in Limits, NEW k \in Nat, BudgetInv(m, k), [Next]_vars
  PROVE  BudgetInv(m, k)'
<1>1. CapacityInv(m)' /\ TypeOK /\ CapacityInv(m)
  BY StepCapacity DEF BudgetInv, CapacityInv
<1>. TypeOK'
  BY <1>1 DEF CapacityInv
<1>. SUFFICES ASSUME NEW a \in Agents
              PROVE  Covered(a, k)'
  BY <1>1 DEF BudgetInv
<1>2. ASSUME UNCHANGED <<mu, agents, made, runs>>,
             \A p \in Procs \ {Monitor} : pc'[p] = pc[p] /\ job'[p] = job[p]
      PROVE  Covered(a, k)'
  <2>1. \A w \in Workers : pc'[w] = pc[w] /\ job'[w] = job[w]
    BY <1>2, StepNames, LifecycleAssumption DEF Handlers
  <2>2. Pending(a)' = Pending(a)
    BY <1>2, StepNames, LifecycleAssumption DEF Pending
  <2>3. Credit(a)' = Credit(a)
    BY <1>2, <2>1, SameCredit
  <2>. QED BY <1>1, <1>2, <2>2, <2>3, CoveredKept, CreditNat
<1>3. CASE Check
  BY <1>1, <1>2, <1>3, MonitorFrame
<1>4. ASSUME NEW b \in Agents, Environment(b)
      PROVE  Covered(a, k)'
  BY <1>2, <1>4 DEF Environment, ContainerExits, ContainerRemoved
<1>5. CASE UNCHANGED vars
  BY <1>2, <1>5 DEF vars
<1>. QED BY <1>3, <1>4, <1>5, CommandCovered, BeginCovered, FailureCovered, RestartCovered DEF Next

LEMMA InitBudget ==
  ASSUME NEW m \in Limits, NEW k \in Nat, Init
  PROVE  BudgetInv(m, k)
<1>. SUFFICES ASSUME NEW a \in Agents PROVE Covered(a, k)
  BY InitCapacity DEF BudgetInv
<1>1. Pending(a) = {}
  BY StepNames DEF Init, Pending, Waiting
<1>2. Credit(a) = 0
  BY LifecycleAssumption DEF Init, Credit, Live, Deploying, Procs
<1>3. made[a] = 0 /\ runs[a] = 0
  BY DEF Init
<1>. QED BY <1>1, <1>2, <1>3, FS_EmptySet, LifecycleAssumption DEF Covered

(* manager.go:226-333: a call of Run leads to at most MaxRestartAttempts    *)
(* containers, however many failure handlers and restarts of the agent run  *)
(* at the same time.                                                        *)
THEOREM LifecycleRestartBudget == Spec => []RestartBudget
<1>. DEFINE Inv == BudgetInv(MaxAgents, 0)
<1>. MaxAgents \in Limits
  BY LifecycleAssumption
<1>1. Init => Inv
  BY InitBudget
<1>2. Inv /\ [Next]_vars => Inv'
  BY StepBudget
<1>3. Inv => RestartBudget
  <2>. SUFFICES ASSUME Inv, NEW a \in Agents
                PROVE  made[a] <= MaxRestartAttempts * runs[a]
    BY DEF RestartBudget
  <2>1. made[a] + Cardinality(Pending(a)) + Credit(a) <= MaxRestartAttempts * (runs[a] + 0)
    BY CoveredNumbers
  <2>2. made[a] \in Nat /\ runs[a] \in Nat /\ Cardinality(Pending(a)) \in Nat /\ Credit(a) \in Nat
    BY CoveredNumbers
  <2>3. runs[a] + 0 = runs[a]
    BY <2>2
  <2>4. made[a] <= MaxRestartAttempts * (runs[a] + 0)
    BY <2>1, <2>2, LifecycleAssumption
  <2>. QED BY <2>3, <2>4
<1>. QED BY <1>1, <1>2, <1>3, PTL DEF Spec

-----------------------------------------------------------------------------
(* No silent leak. A container that Docker has is the one the record names, *)
(* one that a goroutine has made and will start, commit or remove (Making), *)
(* or one the node has lost track of. That needs to know whose ids the      *)
(* goroutines hold: nobody but its maker holds the id of a container in the *)
(* making, unless it found it in Docker's list and is about to evict it.    *)

Empty == {"idle", "list", "create", "fail", "read", "forget"}
Loose == {"mark", "stopDead", "removeDead", "stopOld", "removeOld", "save"}

Ids(a) ==
  /\ docker[a].cid <= made[a] /\ agents[a].cid <= made[a]
  /\ docker[a] = Gone <=> docker[a].cid = 0
  /\ \A p \in Procs : job[p] = a => held[p] <= made[a] /\ (pc[p] \in Empty => held[p] = 0)

Own(a) ==
  \A p \in Procs : MadeBy(p, a) =>
    /\ held[p] # 0 /\ held[p] # agents[a].cid
    /\ \A q \in Procs \ {p} : job[q] = a /\ pc[q] # "evict" => held[q] # held[p]

Done(a) ==
  \A p \in Procs : job[p] = a =>
    /\ pc[p] = "drop" /\ docker[a] # Gone /\ Holds(a, held[p]) => left[a]
    /\ pc[p] \in {"stop", "remove", "delete"} => held[p] = agents[a].cid
    /\ pc[p] = "delete" /\ docker[a] # Gone => ~Holds(a, held[p])

Known(a) ==
  docker[a] # Gone =>
    \/ left[a]
    \/ Live(a) /\ Holds(a, agents[a].cid)
    \/ \E p \in Procs : MadeBy(p, a) /\ Holds(a, held[p])

Traced(a) == Ids(a) /\ Own(a) /\ Done(a) /\ Known(a)

LeakInv(m) == CapacityInv(m) /\ \A a \in Agents : Traced(a)

\* What most steps do to an agent: at the most its container goes.
Shrinks(a) ==
  /\ made'[a] = made[a] /\ agents'[a].cid = agents[a].cid
  /\ Live(a) <=> agents'[a] # NoAgent
  /\ docker'[a] = Gone \/ (docker[a] # Gone /\ docker'[a].cid = docker[a].cid)
  /\ left[a] => left'[a]

LostTrack(a, c) == docker'[a] # Gone /\ docker'[a].cid = c => left'[a]

\* How a goroutine comes to where it works on a, in such a step.
Arrives(p, a) ==
  \/ job[p] = a /\ pc'[p] = pc[p] /\ held'[p] = held[p]
  \/ MadeBy(p, a) /\ pc'[p] \in Making /\ held'[p] = held[p]
  \/ pc'[p] \in Empty /\ held'[p] = 0
  \/ job[p] = a /\ pc[p] \in Loose /\ pc'[p] \in Loose /\ held'[p] = held[p]
  \/ pc'[p] \in Loose \cup {"stop"} /\ held'[p] = agents[a].cid
  \/ pc'[p] = "evict" /\ held'[p] = docker[a].cid
  \/ job[p] = a /\ pc[p] = "stop" /\ pc'[p] = "remove" /\ held'[p] = held[p]
  \/ job[p] = a /\ pc[p] = "remove" /\ pc'[p] = "delete" /\ held'[p] = held[p] /\ docker'[a] = Gone
  \/ job[p] = a /\ pc[p] = "removeDead" /\ pc'[p] = "drop" /\ held'[p] = held[p]
     /\ LostTrack(a, held[p])

Carries(p, a) ==
  /\ job'[p] = a => Arrives(p, a)
  /\ MadeBy(p, a) => (job'[p] = a /\ pc'[p] \in Making) \/ LostTrack(a, held[p])

LEMMA TracedKept ==
  ASSUME TypeOK, TypeOK', NEW a \in Agents, Traced(a), Shrinks(a),
         \A p \in Procs : Carries(p, a)
  PROVE  Traced(a)'
<1>. DEFINE HeldOK(p) == held'[p] <= made[a] /\ (pc'[p] \in Empty => held'[p] = 0)
<1>. docker[a].cid \in Nat /\ agents[a].cid \in Nat /\ made[a] \in Nat
     /\ docker'[a].cid \in Nat /\ \A p \in Procs : held[p] \in Nat /\ held'[p] \in Nat
  BY DEF TypeOK
<1>0. /\ docker[a].cid <= made[a] /\ agents[a].cid <= made[a]
      /\ docker[a] = Gone <=> docker[a].cid = 0
      /\ \A p \in Procs : job[p] = a => held[p] <= made[a] /\ (pc[p] \in Empty => held[p] = 0)
  BY DEF Traced, Ids
<1>1. Ids(a)'
  <2>1. docker'[a].cid <= made[a] /\ (docker'[a] = Gone <=> docker'[a].cid = 0)
    BY <1>0 DEF Shrinks, Gone
  <2>2. ASSUME NEW p \in Procs, job'[p] = a PROVE HeldOK(p)
    BY <1>0, <2>2 DEF Carries, Arrives, MadeBy, Making, Empty, Loose
  <2>. QED BY <1>0, <2>1, <2>2 DEF Ids, Shrinks
<1>2. \A p \in Procs : MadeBy(p, a)' => MadeBy(p, a) /\ held'[p] = held[p]
  BY DEF Carries, Arrives, MadeBy, Making, Empty, Loose
<1>3. Own(a)'
  <2>. SUFFICES ASSUME NEW p \in Procs, MadeBy(p, a)'
                PROVE  /\ held'[p] # 0 /\ held'[p] # agents'[a].cid
                       /\ \A q \in Procs \ {p} : job'[q] = a /\ pc'[q] # "evict" => held'[q] # held'[p]
    BY DEF Own
  <2>1. /\ MadeBy(p, a) /\ held'[p] = held[p] /\ held[p] # 0 /\ held[p] # agents[a].cid
        /\ \A q \in Procs \ {p} : job[q] = a /\ pc[q] # "evict" => held[q] # held[p]
    BY <1>2 DEF Traced, Own
  <2>2. ASSUME NEW q \in Procs \ {p}, job'[q] = a, pc'[q] # "evict"
        PROVE  held'[q] # held[p]
    BY <2>1, <2>2 DEF Carries, Arrives, MadeBy, Making, Loose
  <2>. QED BY <2>1, <2>2 DEF Shrinks
<1>4. Done(a)'
  <2>. SUFFICES ASSUME NEW p \in Procs, job'[p] = a
                PROVE  /\ pc'[p] = "drop" /\ docker'[a] # Gone /\ docker'[a].cid = held'[p] => left'[a]
                       /\ pc'[p] \in {"stop", "remove", "delete"} => held'[p] = agents'[a].cid
                       /\ pc'[p] = "delete" /\ docker'[a] # Gone => docker'[a].cid # held'[p]
    BY DEF Done, Holds
  <2>1. job[p] = a =>
          /\ pc[p] = "drop" /\ docker[a] # Gone /\ docker[a].cid = held[p] => left[a]
          /\ pc[p] \in {"stop", "remove", "delete"} => held[p] = agents[a].cid
          /\ pc[p] = "delete" /\ docker[a] # Gone => docker[a].cid # held[p]
    BY DEF Traced, Done, Holds
  <2>2. Arrives(p, a)
    BY DEF Carries
  <2>. QED BY <2>1, <2>2 DEF Arrives, MadeBy, LostTrack, Shrinks, Making, Empty, Loose
<1>5. Known(a)'
  <2>. SUFFICES ASSUME docker'[a] # Gone, ~left'[a], ~(Live(a) /\ Holds(a, agents[a].cid))
                PROVE  \E p \in Procs : MadeBy(p, a)' /\ docker'[a].cid = held'[p]
    BY DEF Known, Shrinks, Live, Holds
  <2>1. docker[a] # Gone /\ docker'[a].cid = docker[a].cid /\ ~left[a]
    BY DEF Shrinks
  <2>2. PICK p \in Procs : MadeBy(p, a) /\ docker[a].cid = held[p]
    BY <2>1 DEF Traced, Known, Holds
  <2>3. MadeBy(p, a)'
    BY <2>1, <2>2 DEF Carries, LostTrack, MadeBy
  <2>. QED BY <1>2, <2>1, <2>2, <2>3
<1>. QED BY <1>1, <1>3, <1>4, <1>5 DEF Traced

\* A step of goroutine p alone, about its agent.
Alone(p) ==
  /\ UNCHANGED job /\ \E to : Goto(p, to)
  /\ \A q \in Procs \ {p} : held'[q] = held[q]
  /\ \A a \in Agents \ {job[p]} :
       /\ docker'[a] = docker[a] /\ agents'[a] = agents[a]
       /\ made'[a] = made[a] /\ left'[a] = left[a]

LEMMA TracedElsewhere ==
  ASSUME TypeOK, TypeOK', NEW p \in Procs, Alone(p), \A a \in Agents : Traced(a)
  PROVE  \A a \in Agents \ {job[p]} : Traced(a)'
<1>. SUFFICES ASSUME NEW a \in Agents \ {job[p]} PROVE Traced(a)'
  OBVIOUS
<1>1. Shrinks(a)
  BY DEF Alone, Shrinks, Live
<1>2. \A q \in Procs : Carries(q, a)
  BY DEF Alone, Goto, Carries, Arrives, MadeBy, TypeOK
<1>. QED BY <1>1, <1>2, TracedKept

LEMMA TracedWalk ==
  ASSUME TypeOK, TypeOK', NEW p \in Procs, Alone(p), \A a \in Agents : Traced(a),
         Shrinks(job[p]), Carries(p, job[p])
  PROVE  \A a \in Agents : Traced(a)'
<1>. job[p] \in Agents
  BY DEF TypeOK
<1>1. \A q \in Procs : Carries(q, job[p])
  BY DEF Alone, Goto, Carries, Arrives, MadeBy, TypeOK
<1>. QED BY <1>1, TracedKept, TracedElsewhere

LEMMA MoveParts ==
  ASSUME TypeOK, NEW p \in Procs, NEW to, Move(p, to)
  PROVE  /\ Goto(p, to) /\ pc'[p] = to
         /\ held'[p] = IF to \in Empty THEN 0 ELSE held[p]
         /\ \A q \in Procs \ {p} : held'[q] = held[q]
BY DEF Move, Goto, Empty, TypeOK

LEMMA StoppingParts ==
  ASSUME TypeOK, NEW a \in Agents, NEW c, NEW ok \in BOOLEAN, Stopping(a, c, ok),
         UNCHANGED <<agents, made, left>>
  PROVE  Shrinks(a) /\ \A b \in Agents \ {a} : docker'[b] = docker[b]
<1>1. CASE docker' = [docker EXCEPT ![a].up = FALSE]
  <2>1. docker'[a] = [cid |-> docker[a].cid, up |-> FALSE]
    BY <1>1 DEF TypeOK
  <2>2. docker[a] = Gone => docker[a].cid = 0
    BY DEF Gone
  <2>3. docker'[a] = Gone \/ docker[a] # Gone
    BY <2>1, <2>2 DEF Gone
  <2>. QED BY <1>1, <2>1, <2>3 DEF Shrinks, Live, TypeOK
<1>2. CASE docker' = docker
  BY <1>2 DEF Shrinks, Live
<1>. QED BY <1>1, <1>2 DEF Stopping

LEMMA RemovingParts ==
  ASSUME TypeOK, NEW a \in Agents, NEW c, NEW ok \in BOOLEAN, Removing(a, c, ok),
         UNCHANGED <<agents, made>>
  PROVE  /\ Shrinks(a) /\ LostTrack(a, c)
         /\ ok => docker'[a] = Gone
         /\ \A b \in Agents \ {a} : docker'[b] = docker[b] /\ left'[b] = left[b]
<1>1. CASE ok /\ docker' = [docker EXCEPT ![a] = Gone] /\ left' = left
  BY <1>1 DEF Shrinks, LostTrack, Live, TypeOK
<1>2. CASE ~ok /\ docker' = docker /\ left' = [left EXCEPT ![a] = @ \/ Holds(a, c)]
  <2>1. /\ \A b \in Agents \ {a} : left'[b] = left[b]
        /\ left[a] => left'[a]
        /\ docker[a].cid = c => left'[a]
    BY <1>2, Zenon DEF TypeOK, Holds
  <2>. QED BY <1>2, <2>1 DEF Shrinks, LostTrack, Live
<1>. QED BY <1>1, <1>2 DEF Removing

\* What stays the same when the maps and Docker do.
LEMMA SameShrinks ==
  ASSUME UNCHANGED <<agents, dockerVars>>
  PROVE  \A a \in Agents : Shrinks(a)
BY DEF Shrinks, Live

LEMMA DeployTraced ==
  ASSUME TypeOK, TypeOK', NEW p \in Workers \cup Restarters, CreateSteps(p),
         \A a \in Agents : Traced(a)
  PROVE  \A a \in Agents : Traced(a)'
<1>. DEFINE a == job[p]
<1>. p \in Procs /\ a \in Agents
  BY StepNames DEF TypeOK
<1>1. CASE CreateList(p)
  <2>1. Shrinks(a)
    BY <1>1, SameShrinks DEF CreateList
  <2>2. Alone(p) /\ Carries(p, a)
    BY <1>1, MoveParts DEF CreateList, Alone, At, Goto, Carries, Arrives, MadeBy, Making, Empty, TypeOK
  <2>. QED BY <2>1, <2>2, TracedWalk
<1>2. CASE CreateEvict(p)
  <2>1. Shrinks(a) /\ \A b \in Agents \ {a} : docker'[b] = docker[b] /\ left'[b] = left[b]
    BY <1>2, RemovingParts DEF CreateEvict
  <2>2. Alone(p) /\ Carries(p, a)
    BY <1>2, <2>1, MoveParts DEF CreateEvict, Alone, At, Carries, Arrives, MadeBy, Making, Empty
  <2>. QED BY <2>1, <2>2, TracedWalk
<1>3. CASE CreateContainer(p)
  <2>1. /\ pc[p] = "create" /\ docker[a] = Gone
        /\ made' = [made EXCEPT ![a] = made[a] + 1]
        /\ docker' = [docker EXCEPT ![a] = [cid |-> made[a] + 1, up |-> FALSE]]
        /\ left' = [left EXCEPT ![a] = FALSE]
        /\ held' = [held EXCEPT ![p] = made[a] + 1]
        /\ pc' = [pc EXCEPT ![p] = "start"]
        /\ UNCHANGED <<agents, job>>
    BY <1>3 DEF CreateContainer, At, Goto, TypeOK
  <2>2. Alone(p)
    BY <2>1 DEF Alone, Goto, TypeOK
  <2>3. /\ made[a] \in Nat /\ made'[a] = made[a] + 1 /\ docker'[a].cid = made[a] + 1
        /\ docker'[a] # Gone
        /\ pc'[p] = "start" /\ held'[p] = made[a] + 1
        /\ \A q \in Procs \ {p} : pc'[q] = pc[q] /\ held'[q] = held[q]
    BY <2>1 DEF Gone, TypeOK
  <2>4. /\ agents[a].cid \in Nat /\ agents[a].cid <= made[a]
        /\ \A q \in Procs : held[q] \in Nat
        /\ \A q \in Procs : job[q] = a => held[q] <= made[a] /\ (pc[q] \in Empty => held[q] = 0)
    BY DEF Traced, Ids, TypeOK
  <2>5. Ids(a)'
    BY <2>1, <2>3, <2>4 DEF Ids, Empty
  <2>6. Own(a)'
    <3>. SUFFICES ASSUME NEW q \in Procs, job[q] = a, pc'[q] \in Making
                  PROVE  /\ held'[q] # 0 /\ held'[q] # agents[a].cid
                         /\ \A r \in Procs \ {q} : job[r] = a /\ pc'[r] # "evict" => held'[r] # held'[q]
      BY <2>1 DEF Own, MadeBy
    <3>1. CASE q = p
      BY <3>1, <2>3, <2>4
    <3>2. CASE q # p
      <4>1. /\ held[q] # 0 /\ held[q] # agents[a].cid
            /\ \A r \in Procs \ {q} : job[r] = a /\ pc[r] # "evict" => held[r] # held[q]
        BY <3>2, <2>3 DEF Traced, Own, MadeBy
      <4>. QED BY <3>2, <4>1, <2>3, <2>4
    <3>. QED BY <3>1, <3>2
  <2>7. Done(a)'
    BY <2>1, <2>3, <2>4 DEF Traced, Done, Holds
  <2>8. Known(a)'
    BY <2>1, <2>3 DEF Known, MadeBy, Making, Holds
  <2>9. Traced(a)'
    BY <2>5, <2>6, <2>7, <2>8 DEF Traced
  <2>. QED BY <2>1, <2>2, <2>9, TracedElsewhere
<1>4. CASE CreateFails(p)
  <2>1. Shrinks(a)
    BY <1>4, SameShrinks DEF CreateFails
  <2>2. Alone(p) /\ Carries(p, a)
    BY <1>4, MoveParts DEF CreateFails, AfterFailure, Alone, At, Carries, Arrives, MadeBy, Making, Empty
  <2>. QED BY <2>1, <2>2, TracedWalk
<1>5. CASE StartContainer(p)
  <2>1. held[p] # 0 /\ (docker[a] = Gone <=> docker[a].cid = 0)
    BY <1>5 DEF StartContainer, At, Traced, Own, Ids, MadeBy, Making
  <2>2. Shrinks(a) /\ \A b \in Agents \ {a} : docker'[b] = docker[b]
    <3>1. CASE Holds(a, held[p]) /\ docker' = [docker EXCEPT ![a].up = TRUE]
      BY <1>5, <2>1, <3>1 DEF StartContainer, Shrinks, Holds, Live, TypeOK
    <3>2. CASE docker' = docker
      BY <1>5, <3>2 DEF StartContainer, Shrinks, Live
    <3>. QED BY <1>5, <3>1, <3>2 DEF StartContainer
  <2>3. PICK to \in {"commit", "undo"} : Move(p, to)
    BY <1>5 DEF StartContainer
  <2>4. Alone(p) /\ Carries(p, a)
    BY <1>5, <2>2, <2>3, MoveParts DEF StartContainer, Alone, At, Carries, Arrives, MadeBy, Making, Empty
  <2>. QED BY <2>2, <2>4, TracedWalk
<1>6. CASE StartUndo(p)
  <2>1. /\ Shrinks(a) /\ LostTrack(a, held[p])
        /\ \A b \in Agents \ {a} : docker'[b] = docker[b] /\ left'[b] = left[b]
    BY <1>6, RemovingParts DEF StartUndo
  <2>2. Alone(p) /\ Carries(p, a)
    BY <1>6, <2>1, MoveParts DEF StartUndo, AfterFailure, Alone, At, Carries, Arrives, MadeBy, Making, Empty
  <2>. QED BY <2>1, <2>2, TracedWalk
<1>. QED BY <1>1, <1>2, <1>3, <1>4, <1>5, <1>6 DEF CreateSteps

\* p commits the container it has made to the record, or deletes the record.
Commits(p, a) ==
  /\ MadeBy(p, a) /\ agents'[a].cid = held[p] /\ left'[a] = Misses(a, held[p])
  /\ \/ pc'[p] = "idle" /\ held'[p] = 0
     \/ pc'[p] = "save" /\ held'[p] = held[p]

Deletes(p, a) ==
  /\ ~MadeBy(p, a) /\ agents'[a] = NoAgent
  /\ pc'[p] \in {"idle", "forget"} /\ held'[p] = 0
  /\ left[a] \/ (docker[a] # Gone /\ Holds(a, agents[a].cid)) => left'[a]

LEMMA TracedRecord ==
  ASSUME TypeOK, TypeOK', NEW p \in Procs, Alone(p), UNCHANGED <<docker, made>>,
         \A a \in Agents : Traced(a), Commits(p, job[p]) \/ Deletes(p, job[p]),
         \A q \in Procs \ {p} : pc[q] \notin {"stop", "remove", "delete"}
  PROVE  \A a \in Agents : Traced(a)'
<1>. PICK a \in Agents : a = job[p]
  BY DEF TypeOK
<1>1. /\ UNCHANGED <<job, docker, made>>
      /\ \A q \in Procs \ {p} : pc'[q] = pc[q] /\ held'[q] = held[q]
      /\ pc'[p] \in {"idle", "forget", "save"} /\ pc'[p] \notin Making
  BY DEF Alone, Goto, Commits, Deletes, Making, TypeOK
<1>2. /\ docker[a].cid <= made[a] /\ agents[a].cid <= made[a]
      /\ docker[a] = Gone <=> docker[a].cid = 0
      /\ \A q \in Procs : job[q] = a => held[q] <= made[a] /\ (pc[q] \in Empty => held[q] = 0)
  BY DEF Traced, Ids
<1>3. MadeBy(p, a) =>
        /\ held[p] # 0
        /\ \A q \in Procs \ {p} : job[q] = a /\ pc[q] # "evict" => held[q] # held[p]
  BY DEF Traced, Own
<1>4. Commits(p, a) \/ Deletes(p, a)
  OBVIOUS
<1>5. Ids(a)'
  <2>1. agents'[a].cid <= made[a]
    <3>1. CASE Commits(p, a)
      BY <1>2, <3>1 DEF Commits, MadeBy
    <3>2. CASE Deletes(p, a)
      BY <3>2 DEF Deletes, NoAgent, TypeOK
    <3>. QED BY <1>4, <3>1, <3>2
  <2>2. held'[p] <= made[a] /\ (pc'[p] \in Empty => held'[p] = 0)
    BY <1>2, <1>4 DEF Commits, Deletes, MadeBy, Empty, TypeOK
  <2>. QED BY <1>1, <1>2, <2>1, <2>2 DEF Ids
<1>6. Own(a)'
  <2>. SUFFICES ASSUME NEW q \in Procs \ {p}, MadeBy(q, a)
                PROVE  /\ held[q] # 0 /\ held[q] # agents'[a].cid
                       /\ held'[p] # held[q]
                       /\ \A r \in Procs \ {p, q} : job[r] = a /\ pc[r] # "evict" => held[r] # held[q]
    BY <1>1 DEF Own, MadeBy
  <2>1. /\ held[q] # 0
        /\ \A r \in Procs \ {q} : job[r] = a /\ pc[r] # "evict" => held[r] # held[q]
    BY DEF Traced, Own
  <2>2. MadeBy(p, a) => held[q] # held[p]
    BY <1>3 DEF MadeBy, Making
  <2>. QED BY <1>4, <2>1, <2>2 DEF Commits, Deletes, NoAgent
<1>7. Done(a)'
  <2>. SUFFICES ASSUME NEW q \in Procs, job[q] = a
                PROVE  /\ pc'[q] = "drop" /\ docker[a] # Gone /\ docker[a].cid = held'[q] => left'[a]
                       /\ pc'[q] \notin {"stop", "remove", "delete"}
    BY <1>1 DEF Done, Holds
  <2>1. pc'[q] \notin {"stop", "remove", "delete"}
    BY <1>1
  <2>2. ASSUME pc'[q] = "drop", docker[a] # Gone, docker[a].cid = held'[q]
        PROVE  left'[a]
    <3>1. q # p /\ pc[q] = "drop" /\ held'[q] = held[q] /\ left[a]
      BY <1>1, <2>2 DEF Traced, Done, Holds
    <3>. QED BY <1>3, <1>4, <2>2, <3>1 DEF Commits, Deletes, Misses, Holds
  <2>. QED BY <2>1, <2>2
<1>8. Known(a)'
  <2>. SUFFICES ASSUME docker[a] # Gone, ~left'[a]
                PROVE  \/ agents'[a] # NoAgent /\ docker[a].cid = agents'[a].cid
                       \/ \E q \in Procs : MadeBy(q, a)' /\ docker[a].cid = held'[q]
    BY <1>1 DEF Known, Live, Holds
  <2>1. CASE Commits(p, a)
    <3>1. docker[a].cid = held[p]
      BY <2>1, Zenon DEF Commits, Misses, Holds
    <3>2. agents'[a] # NoAgent
      BY <1>3, <2>1 DEF Commits, NoAgent
    <3>. QED BY <2>1, <3>1, <3>2 DEF Commits
  <2>2. CASE Deletes(p, a)
    <3>1. PICK q \in Procs : MadeBy(q, a) /\ docker[a].cid = held[q]
      BY <2>2 DEF Deletes, Traced, Known, Holds
    <3>. QED BY <1>1, <2>2, <3>1 DEF Deletes, MadeBy
  <2>. QED BY <1>4, <2>1, <2>2
<1>9. Traced(a)'
  BY <1>5, <1>6, <1>7, <1>8 DEF Traced
<1>. QED BY <1>1, <1>9, TracedElsewhere

\* Stop keeps the lock until the record is gone.
LEMMA LockFreeNoStop ==
  ASSUME NEW m \in Limits, CapacityInv(m), Free
  PROVE  \A q \in Procs : pc[q] \notin {"stop", "remove", "delete"}
<1>1. \A v \in Workers : pc[v] = "idle"
  BY LifecycleAssumption DEF CapacityInv, LockHeld, Free, Procs
<1>. QED BY <1>1, StepNames
         DEF CapacityInv, Procs, Handlers, TypeOK, FailureSteps, RestartSteps, DeploySteps

\* The worker that holds the lock is the only one at work, and nobody whose
\* guard is Free moves meanwhile.
LEMMA CommandTraced ==
  ASSUME NEW m \in Limits, LeakInv(m), TypeOK', NEW w \in Workers,
         RunCommit(w) \/ StopContainer(w) \/ StopRemove(w) \/ StopDelete(w)
  PROVE  \A a \in Agents : Traced(a)'
<1>. DEFINE a == job[w]
<1>. /\ w \in Procs /\ a \in Agents /\ TypeOK
     /\ \A b \in Agents : Traced(b)
  BY StepNames DEF LeakInv, CapacityInv, TypeOK
<1>0. \A v \in Workers \ {w} : pc[v] = "idle"
  BY DEF LeakInv, CapacityInv, LockHeld, RunCommit, StopContainer, StopRemove, StopDelete, At
<1>9. \A q \in Procs \ {w} : pc[q] \notin {"stop", "remove", "delete"}
  BY <1>0, StepNames DEF Procs, Handlers, TypeOK, FailureSteps, RestartSteps, DeploySteps
<1>1. CASE RunCommit(w)
  <2>1. /\ pc[w] = "commit" /\ UNCHANGED <<docker, made, job>>
        /\ agents' = [agents EXCEPT ![a] = [cid |-> held[w], count |-> 0]]
        /\ left' = [left EXCEPT ![a] = Misses(a, held[w])]
        /\ Move(w, "idle")
    BY <1>1 DEF RunCommit, At
  <2>2. Alone(w)
    BY <2>1, MoveParts DEF Alone, TypeOK
  <2>3. Commits(w, a)
    <3>1. left'[a] = Misses(a, held[w])
      BY <2>1, Zenon DEF TypeOK
    <3>. QED BY <2>1, <3>1, MoveParts DEF Commits, MadeBy, Making, Empty, TypeOK
  <2>. QED BY <1>9, <2>1, <2>2, <2>3, TracedRecord
<1>2. CASE StopContainer(w)
  <2>1. Shrinks(a) /\ \A b \in Agents \ {a} : docker'[b] = docker[b]
    BY <1>2, StoppingParts DEF StopContainer
  <2>2. PICK to \in {"remove", "idle"} : Move(w, to)
    BY <1>2 DEF StopContainer
  <2>3. Alone(w) /\ Carries(w, a)
    BY <1>2, <2>1, <2>2, MoveParts DEF StopContainer, Alone, At, Carries, Arrives, MadeBy, Making, Empty
  <2>. QED BY <2>1, <2>3, TracedWalk
<1>3. CASE StopRemove(w)
  <2>1. PICK ok \in BOOLEAN : Removing(a, held[w], ok) /\ IF ok THEN Move(w, "delete") ELSE Move(w, "idle")
    BY <1>3 DEF StopRemove
  <2>2. /\ Shrinks(a)
        /\ ok => docker'[a] = Gone
        /\ \A b \in Agents \ {a} : docker'[b] = docker[b] /\ left'[b] = left[b]
    BY <1>3, <2>1, RemovingParts DEF StopRemove
  <2>3. Alone(w) /\ Carries(w, a)
    BY <1>3, <2>1, <2>2, MoveParts DEF StopRemove, Alone, At, Carries, Arrives, MadeBy, Making, Empty
  <2>. QED BY <2>2, <2>3, TracedWalk
<1>4. CASE StopDelete(w)
  <2>1. /\ pc[w] = "delete" /\ UNCHANGED <<dockerVars, job>>
        /\ agents' = [agents EXCEPT ![a] = NoAgent] /\ Move(w, "idle")
    BY <1>4 DEF StopDelete, At
  <2>2. Alone(w)
    BY <2>1, MoveParts DEF Alone, TypeOK
  <2>3. docker[a] = Gone \/ ~Holds(a, agents[a].cid)
    BY <2>1 DEF Traced, Done
  <2>4. Deletes(w, a)
    BY <2>1, <2>3, MoveParts DEF Deletes, MadeBy, Making, Empty, TypeOK
  <2>. QED BY <1>9, <2>1, <2>2, <2>4, TracedRecord
<1>. QED BY <1>1, <1>2, <1>3, <1>4

LEMMA FailureTraced ==
  ASSUME NEW m \in Limits, LeakInv(m), TypeOK', NEW t \in Handlers, Failure(t)
  PROVE  \A a \in Agents : Traced(a)'
<1>. PICK a \in Agents : a = job[t]
  BY StepNames DEF LeakInv, CapacityInv, TypeOK, Handlers
<1>. /\ t \in Procs /\ TypeOK
     /\ \A b \in Agents : Traced(b)
  BY StepNames DEF LeakInv, CapacityInv, Handlers
<1>0. pc[t] \in Empty => held[t] = 0
  BY DEF Traced, Ids
<1>1. CASE HandleFailure(t)
  <2>1. /\ pc[t] = "fail" /\ held[t] = 0 /\ UNCHANGED dockerVars
        /\ \A b \in Agents : agents'[b].cid = agents[b].cid /\ (Live(b) <=> agents'[b] # NoAgent)
    BY <1>0, <1>1 DEF HandleFailure, At, Empty, Live, NoAgent, TypeOK
  <2>2. \A b \in Agents : Shrinks(b)
    BY <2>1 DEF Shrinks
  <2>3. ASSUME UNCHANGED job,
               \/ Goto(t, "idle") /\ held' = [held EXCEPT ![t] = 0]
               \/ Goto(t, "mark") /\ held' = [held EXCEPT ![t] = agents[a].cid]
        PROVE  \A b \in Agents : Traced(b)'
    <3>1. Alone(t)
      BY <1>1, <2>1, <2>3 DEF HandleFailure, Alone, TypeOK
    <3>2. Carries(t, a)
      BY <2>1, <2>3 DEF Goto, Carries, Arrives, MadeBy, Making, Empty, Loose, TypeOK
    <3>. QED BY <2>2, <3>1, <3>2, TracedWalk
  <2>4. ASSUME NEW r \in Restarters, UNCHANGED held, pc[r] = "idle" \/ r = t,
               pc' = [pc EXCEPT ![t] = "idle", ![r] = "read"], job' = [job EXCEPT ![r] = a]
        PROVE  \A b \in Agents : Traced(b)'
    <3>1. r \in Procs /\ held[r] = 0
      BY <2>1, <2>4, StepNames DEF Traced, Ids, Empty, TypeOK
    <3>2. \A b \in Agents, q \in Procs : Carries(q, b)
      BY <2>1, <2>4, <3>1 DEF Carries, Arrives, MadeBy, Making, Empty, TypeOK
    <3>. QED BY <2>2, <3>2, TracedKept
  <2>. QED BY <1>1, <2>3, <2>4 DEF HandleFailure, Move, Idle, At
<1>2. CASE GiveUpMark(t)
  <2>1. Shrinks(a)
    BY <1>2, SameShrinks DEF GiveUpMark
  <2>2. Alone(t) /\ Carries(t, a)
    BY <1>2 DEF GiveUpMark, At, Alone, Goto, Carries, Arrives, MadeBy, Making, Loose, TypeOK
  <2>. QED BY <2>1, <2>2, TracedWalk
<1>3. CASE GiveUpStop(t)
  <2>1. Shrinks(a) /\ \A b \in Agents \ {a} : docker'[b] = docker[b]
    BY <1>3, StoppingParts DEF GiveUpStop
  <2>2. Alone(t) /\ Carries(t, a)
    BY <1>3, <2>1, MoveParts
    DEF GiveUpStop, At, Alone, Carries, Arrives, MadeBy, Making, Loose, Empty
  <2>. QED BY <2>1, <2>2, TracedWalk
<1>4. CASE GiveUpRemove(t)
  <2>1. /\ Shrinks(a) /\ LostTrack(a, held[t])
        /\ \A b \in Agents \ {a} : docker'[b] = docker[b] /\ left'[b] = left[b]
    BY <1>4, RemovingParts DEF GiveUpRemove
  <2>2. Alone(t) /\ Carries(t, a)
    BY <1>4, <2>1, MoveParts
    DEF GiveUpRemove, At, Alone, Carries, Arrives, MadeBy, Making, Loose, Empty
  <2>. QED BY <2>1, <2>2, TracedWalk
<1>5. CASE GiveUpDrop(t)
  <2>1. /\ pc[t] = "drop" /\ Free /\ UNCHANGED <<docker, made, job>> /\ Move(t, "forget")
        /\ agents' = [agents EXCEPT ![a] = NoAgent]
        /\ left' = [left EXCEPT ![a] = @ \/ (Live(a) /\ agents[a].cid # held[t] /\ Holds(a, agents[a].cid))]
    BY <1>5 DEF GiveUpDrop, At
  <2>2. /\ left'[a] = (left[a] \/ (Live(a) /\ agents[a].cid # held[t] /\ Holds(a, agents[a].cid)))
        /\ \A b \in Agents \ {a} : left'[b] = left[b]
    BY <2>1, Zenon DEF TypeOK
  <2>3. Alone(t)
    BY <2>1, <2>2, MoveParts DEF Alone, TypeOK
  <2>4. docker[a] # Gone /\ Holds(a, held[t]) => left[a]
    BY <2>1 DEF Traced, Done
  <2>5. docker[a] # Gone /\ Holds(a, agents[a].cid) => Live(a)
    BY DEF Traced, Ids, Live, Holds, NoAgent
  <2>6. left[a] \/ (docker[a] # Gone /\ Holds(a, agents[a].cid)) => left'[a]
    BY <2>2, <2>4, <2>5, Zenon
  <2>7. Deletes(t, a)
    BY <2>1, <2>6, MoveParts DEF Deletes, MadeBy, Making, Empty, TypeOK
  <2>8. \A q \in Procs \ {t} : pc[q] \notin {"stop", "remove", "delete"}
    BY <2>1, LockFreeNoStop DEF LeakInv
  <2>. QED BY <2>1, <2>3, <2>7, <2>8, TracedRecord
<1>6. CASE GiveUpForget(t)
  <2>1. Shrinks(a)
    BY <1>6, SameShrinks DEF GiveUpForget
  <2>2. Alone(t) /\ Carries(t, a)
    BY <1>6, MoveParts DEF GiveUpForget, At, Alone, Carries, Arrives, MadeBy, Making, Empty
  <2>. QED BY <2>1, <2>2, TracedWalk
<1>. QED BY <1>1, <1>2, <1>3, <1>4, <1>5, <1>6 DEF Failure

LEMMA RestartTraced ==
  ASSUME NEW m \in Limits, LeakInv(m), TypeOK', NEW r \in Restarters,
         \/ RestartRead(r) \/ RestartStopOld(r) \/ RestartRemoveOld(r)
         \/ RestartCommit(r) \/ RestartSave(r) \/ RestartDiscard(r)
  PROVE  \A a \in Agents : Traced(a)'
<1>. PICK a \in Agents : a = job[r]
  BY StepNames DEF LeakInv, CapacityInv, TypeOK
<1>. /\ r \in Procs /\ TypeOK
     /\ \A b \in Agents : Traced(b)
  BY StepNames DEF LeakInv, CapacityInv
<1>0. pc[r] \in Empty => held[r] = 0
  BY DEF Traced, Ids
<1>1. CASE RestartRead(r)
  <2>1. Shrinks(a)
    BY <1>1, SameShrinks DEF RestartRead
  <2>2. \/ Goto(r, "stopOld") /\ held' = [held EXCEPT ![r] = agents[a].cid]
        \/ Goto(r, "idle") /\ held' = [held EXCEPT ![r] = 0]
    BY <1>1 DEF RestartRead, Move
  <2>3. Alone(r)
    BY <1>1, <2>2 DEF RestartRead, Alone, TypeOK
  <2>4. Carries(r, a)
    BY <1>1, <2>2 DEF RestartRead, At, Goto, Carries, Arrives, MadeBy, Making, Empty, Loose, TypeOK
  <2>. QED BY <2>1, <2>3, <2>4, TracedWalk
<1>2. CASE RestartStopOld(r)
  <2>1. Shrinks(a) /\ \A b \in Agents \ {a} : docker'[b] = docker[b]
    BY <1>2, StoppingParts DEF RestartStopOld
  <2>2. Alone(r) /\ Carries(r, a)
    BY <1>2, <2>1, MoveParts
    DEF RestartStopOld, At, Alone, Carries, Arrives, MadeBy, Making, Loose, Empty
  <2>. QED BY <2>1, <2>2, TracedWalk
<1>3. CASE RestartRemoveOld(r)
  <2>1. /\ Shrinks(a)
        /\ \A b \in Agents \ {a} : docker'[b] = docker[b] /\ left'[b] = left[b]
    BY <1>3, RemovingParts DEF RestartRemoveOld
  <2>2. Alone(r) /\ Carries(r, a)
    BY <1>3, <2>1, MoveParts
    DEF RestartRemoveOld, At, Alone, Carries, Arrives, MadeBy, Making, Empty
  <2>. QED BY <2>1, <2>2, TracedWalk
<1>4. CASE RestartCommit(r)
  <2>1. CASE Live(a)
    <3>1. /\ pc[r] = "commit" /\ Free /\ UNCHANGED <<docker, made, job>> /\ Move(r, "save")
          /\ agents' = [agents EXCEPT ![a].cid = held[r]]
          /\ left' = [left EXCEPT ![a] = Misses(a, held[r])]
      BY <1>4, <2>1 DEF RestartCommit, At
    <3>2. Alone(r)
      BY <3>1, MoveParts DEF Alone, TypeOK
    <3>3. left'[a] = Misses(a, held[r])
      BY <3>1, Zenon DEF TypeOK
    <3>4. agents'[a].cid = held[r]
      BY <3>1 DEF TypeOK
    <3>5. Commits(r, a)
      <4>1. MadeBy(r, a) /\ pc'[r] = "save" /\ held'[r] = held[r]
        BY <3>1, MoveParts DEF MadeBy, Making, Empty
      <4>. QED BY <3>3, <3>4, <4>1 DEF Commits
    <3>6. \A q \in Procs \ {r} : pc[q] \notin {"stop", "remove", "delete"}
      BY <3>1, LockFreeNoStop DEF LeakInv
    <3>. QED BY <3>1, <3>2, <3>5, <3>6, TracedRecord
  <2>2. CASE ~Live(a)
    <3>1. Shrinks(a)
      BY <1>4, <2>2, SameShrinks DEF RestartCommit
    <3>2. Alone(r) /\ Carries(r, a)
      BY <1>4, <2>2, MoveParts DEF RestartCommit, At, Alone, Carries, Arrives, MadeBy, Making, Empty
    <3>. QED BY <3>1, <3>2, TracedWalk
  <2>. QED BY <2>1, <2>2
<1>5. CASE RestartSave(r)
  <2>1. Shrinks(a)
    BY <1>5, SameShrinks DEF RestartSave
  <2>2. Alone(r) /\ Carries(r, a)
    BY <1>5, MoveParts DEF RestartSave, At, Alone, Carries, Arrives, MadeBy, Making, Empty
  <2>. QED BY <2>1, <2>2, TracedWalk
<1>6. CASE RestartDiscard(r)
  <2>1. /\ Shrinks(a) /\ LostTrack(a, held[r])
        /\ \A b \in Agents \ {a} : docker'[b] = docker[b] /\ left'[b] = left[b]
    BY <1>6, RemovingParts DEF RestartDiscard
  <2>2. Alone(r) /\ Carries(r, a)
    BY <1>6, <2>1, MoveParts
    DEF RestartDiscard, At, Alone, Carries, Arrives, MadeBy, Making, Empty
  <2>. QED BY <2>1, <2>2, TracedWalk
<1>. QED BY <1>1, <1>2, <1>3, <1>4, <1>5, <1>6

\* Beginning to work on an agent, the monitor, and Docker by itself.
LEMMA OtherTraced ==
  ASSUME NEW m \in Limits, LeakInv(m), TypeOK',
         \/ \E w \in Workers, a \in Agents : RunBegin(w, a) \/ StopBegin(w, a)
         \/ Check
         \/ \E a \in Agents : Environment(a)
  PROVE  \A a \in Agents : Traced(a)'
<1>. /\ TypeOK
     /\ \A b \in Agents : Traced(b)
  BY DEF LeakInv, CapacityInv
<1>0. \A p \in Procs : pc[p] = "idle" => held[p] = 0
  BY DEF Traced, Ids, Empty, TypeOK
<1>1. ASSUME NEW w \in Workers, NEW a \in Agents, RunBegin(w, a) \/ StopBegin(w, a)
      PROVE  \A b \in Agents : Traced(b)'
  <2>1. /\ w \in Procs /\ pc[w] = "idle" /\ held[w] = 0
        /\ job' = [job EXCEPT ![w] = a] /\ UNCHANGED <<agents, dockerVars>>
        /\ \/ Goto(w, "list") /\ UNCHANGED held
           \/ Goto(w, "stop") /\ held' = [held EXCEPT ![w] = agents[a].cid]
    BY <1>0, <1>1, StepNames DEF RunBegin, StopBegin, At, Begin
  <2>2. \A b \in Agents, q \in Procs : Carries(q, b)
    BY <2>1 DEF Goto, Carries, Arrives, MadeBy, Making, Empty, TypeOK
  <2>. QED BY <2>1, <2>2, SameShrinks, TracedKept
<1>2. CASE Check
  <2>1. /\ pc[Monitor] = "idle" /\ held[Monitor] = 0 /\ UNCHANGED <<agents, dockerVars, held>>
        /\ \/ UNCHANGED <<pc, job>>
           \/ \E a \in Agents : job' = [job EXCEPT ![Monitor] = a] /\ Goto(Monitor, "fail")
    BY <1>0, <1>2, StepNames DEF Check, MonitorSnapshot, MonitorInspect, At, Begin, TypeOK
  <2>2. \A b \in Agents, q \in Procs : Carries(q, b)
    BY <2>1, StepNames DEF Goto, Carries, Arrives, MadeBy, Making, Empty, TypeOK
  <2>. QED BY <2>1, <2>2, SameShrinks, TracedKept
<1>3. ASSUME NEW a \in Agents, Environment(a)
      PROVE  \A b \in Agents : Traced(b)'
  <2>1. UNCHANGED <<agents, made, left, pc, job, held>>
    BY <1>3 DEF Environment, ContainerExits, ContainerRemoved
  <2>2. \A b \in Agents : docker'[b] = Gone \/ (docker[b] # Gone /\ docker'[b].cid = docker[b].cid)
    <3>1. CASE ContainerExits(a)
      <4>1. docker[a] # Gone /\ docker'[a].cid = docker[a].cid
        BY <3>1 DEF ContainerExits, Gone, TypeOK
      <4>2. \A b \in Agents \ {a} : docker'[b] = docker[b]
        BY <3>1 DEF ContainerExits
      <4>. QED BY <4>1, <4>2
    <3>2. CASE ContainerRemoved(a)
      BY <3>2 DEF ContainerRemoved, TypeOK
    <3>. QED BY <1>3, <3>1, <3>2 DEF Environment
  <2>3. \A b \in Agents : Shrinks(b)
    BY <2>1, <2>2 DEF Shrinks, Live
  <2>4. \A b \in Agents, q \in Procs : Carries(q, b)
    BY <2>1 DEF Carries, Arrives, MadeBy
  <2>. QED BY <2>3, <2>4, TracedKept
<1>. QED BY <1>1, <1>2, <1>3

LEMMA StepLeak ==
  ASSUME NEW m \in Limits, LeakInv(m), [Next]_vars
  PROVE  LeakInv(m)'
<1>. CapacityInv(m)' /\ TypeOK' /\ TypeOK
  BY StepCapacity DEF LeakInv, CapacityInv
<1>1. \A a \in Agents : Traced(a)'
  <2>. \A a \in Agents : Traced(a)
    BY DEF LeakInv
  <2>1. ASSUME NEW w \in Workers, Command(w)
        PROVE  \A a \in Agents : Traced(a)'
    BY <2>1, DeployTraced, CommandTraced DEF Command
  <2>2. ASSUME NEW r \in Restarters, Restart(r)
        PROVE  \A a \in Agents : Traced(a)'
    BY <2>2, DeployTraced, RestartTraced DEF Restart
  <2>3. CASE UNCHANGED vars
    <3>1. \A a \in Agents, q \in Procs : Carries(q, a)
      BY <2>3 DEF vars, Carries, Arrives, MadeBy
    <3>. QED BY <2>3, <3>1, SameShrinks, TracedKept DEF vars
  <2>. QED BY <2>1, <2>2, <2>3, FailureTraced, OtherTraced DEF Next
<1>. QED BY <1>1 DEF LeakInv

LEMMA InitLeak ==
  ASSUME NEW m \in Limits, Init
  PROVE  LeakInv(m)
<1>1. \A a \in Agents : Traced(a)
  BY DEF Init, Traced, Ids, Own, Done, Known, MadeBy, Making, Empty, Gone, NoAgent
<1>. QED BY <1>1, InitCapacity DEF LeakInv

LEMMA NothingSilent ==
  ASSUME NEW m \in Limits, LeakInv(m)
  PROVE  NoSilentLeak
<1>. SUFFICES ASSUME NEW a \in Agents, Quiet(a), ~Live(a), docker[a] # Gone
              PROVE  left[a]
  BY DEF NoSilentLeak
<1>1. \A p \in Procs : ~MadeBy(p, a)
  BY DEF Quiet, WorkOn, MadeBy, Making
<1>. QED BY <1>1 DEF LeakInv, Traced, Known

(* manager.go:92, 263, 309, 322: a container that outlives its agent is one *)
(* the node failed to remove or lost track of in one of the two ways that   *)
(* NoSilentLeak names, for any number of concurrent restarts.               *)
THEOREM LifecycleNoSilentLeak == Spec => []NoSilentLeak
<1>. DEFINE Inv == LeakInv(MaxAgents)
<1>. MaxAgents \in Limits
  BY LifecycleAssumption
<1>1. Init => Inv
  BY InitLeak
<1>2. Inv /\ [Next]_vars => Inv'
  BY StepLeak
<1>3. Inv => NoSilentLeak
  BY NothingSilent
<1>. QED BY <1>1, <1>2, <1>3, PTL DEF Spec

-----------------------------------------------------------------------------
(* The saved entries. As long as no two goroutines work on an agent at once, *)
(* the entry differs from the record only between the step that changes the *)
(* record and the one that saves it, and a single goroutine (Sole) is there. *)
(* After a failed recovery entries may stay whose agents are gone; strict    *)
(* says that there are none.                                                *)

Storing == {"save", "forget"}
Sole(a) == \A p, q \in Procs : WorkOn(p, a) /\ WorkOn(q, a) => p = q

Agreed(a, strict) ==
  /\ \A p \in Procs : job[p] = a /\ pc[p] = "save" => agents[a].cid = held[p]
  /\ \A p \in Procs : job[p] = a /\ pc[p] = "forget" => agents[a].cid = 0
  /\ (\A p \in Procs : job[p] = a => pc[p] \notin Storing) =>
       saved[a] = agents[a].cid \/ (~strict /\ agents[a].cid = 0)

Synced(a, strict) == ~overlapped[a] => Sole(a) /\ Agreed(a, strict)

SavedInv(strict) == TypeOK /\ \A a \in Agents : Synced(a, strict)

LEMMA SyncedKept ==
  ASSUME NEW strict \in BOOLEAN, NEW a \in Agents, Synced(a, strict), agents'[a].cid = agents[a].cid, saved'[a] = saved[a],
         ~overlapped'[a] => ~overlapped[a] /\ Sole(a)',
         \A p \in Procs :
           \/ job[p] = a /\ job'[p] = a /\ pc'[p] = pc[p] /\ held'[p] = held[p]
           \/ /\ job[p] = a => pc[p] \notin Storing
              /\ job'[p] = a => pc'[p] \notin Storing
  PROVE  Synced(a, strict)'
<1>. SUFFICES ASSUME ~overlapped'[a] PROVE Agreed(a, strict)'
  BY DEF Synced
<1>1. /\ \A p \in Procs : job[p] = a /\ pc[p] = "save" => agents[a].cid = held[p]
      /\ \A p \in Procs : job[p] = a /\ pc[p] = "forget" => agents[a].cid = 0
      /\ (\A p \in Procs : job[p] = a => pc[p] \notin Storing) =>
           saved[a] = agents[a].cid \/ (~strict /\ agents[a].cid = 0)
  BY DEF Synced, Agreed
<1>. QED BY <1>1 DEF Agreed, Storing

\* A goroutine at work on an agent goes on, and stores what it has to.
Continues(p) ==
  /\ pc[p] # "idle" /\ UNCHANGED <<job, overlapped>> /\ \E to : Goto(p, to)
  /\ \A q \in Procs \ {p} : held'[q] = held[q]
  /\ \A a \in Agents \ {job[p]} : agents'[a] = agents[a] /\ saved'[a] = saved[a]

Stores(p, a) ==
  /\ pc'[p] = "save" => agents'[a].cid = held'[p]
  /\ pc'[p] = "forget" => agents'[a].cid = 0
  /\ pc'[p] \notin Storing => saved'[a] = agents'[a].cid

LEMMA SyncedStep ==
  ASSUME NEW strict \in BOOLEAN, SavedInv(strict), NEW p \in Procs, Continues(p),
         \/ /\ agents'[job[p]].cid = agents[job[p]].cid /\ saved'[job[p]] = saved[job[p]]
            /\ pc[p] \notin Storing /\ pc'[p] \notin Storing
         \/ ~overlapped[job[p]] => Stores(p, job[p])
  PROVE  \A a \in Agents : Synced(a, strict)'
<1>. PICK a \in Agents : a = job[p]
  BY DEF SavedInv, TypeOK
<1>1. \A q \in Procs \ {p} : job'[q] = job[q] /\ pc'[q] = pc[q] /\ held'[q] = held[q]
  BY DEF Continues, Goto, SavedInv, TypeOK
<1>2. \A b \in Agents : ~overlapped'[b] => ~overlapped[b] /\ Sole(b)'
  BY <1>1 DEF Continues, SavedInv, Synced, Sole, WorkOn
<1>3. \A b \in Agents \ {a} : Synced(b, strict)'
  BY <1>1, <1>2, SyncedKept DEF Continues, SavedInv
<1>4. CASE /\ agents'[a].cid = agents[a].cid /\ saved'[a] = saved[a]
           /\ pc[p] \notin Storing /\ pc'[p] \notin Storing
  <2>1. Synced(a, strict)'
    BY <1>1, <1>2, <1>4, SyncedKept DEF SavedInv
  <2>. QED BY <1>3, <2>1
<1>5. CASE ~overlapped[a] => Stores(p, a)
  <2>1. ~overlapped[a] => \A q \in Procs \ {p} : job[q] = a => pc[q] = "idle"
    BY DEF Continues, SavedInv, Synced, Sole, WorkOn
  <2>2. job'[p] = a
    BY DEF Continues
  <2>3. ~overlapped'[a] => Agreed(a, strict)'
    BY <1>1, <1>2, <1>5, <2>1, <2>2 DEF Stores, Storing, Agreed
  <2>4. Synced(a, strict)'
    BY <1>2, <2>3 DEF Synced
  <2>. QED BY <1>3, <2>4
<1>. QED BY <1>4, <1>5

LEMMA DeploySynced ==
  ASSUME NEW strict \in BOOLEAN, SavedInv(strict), NEW p \in Workers \cup Restarters, CreateSteps(p)
  PROVE  \A a \in Agents : Synced(a, strict)'
<1>. p \in Procs /\ TypeOK
  BY StepNames DEF SavedInv
<1>1. PICK to \in DeploySteps \cup {AfterFailure(p)} : Goto(p, to)
  BY DEF CreateSteps, CreateList, CreateEvict, CreateContainer, CreateFails, StartContainer,
         StartUndo, Move, DeploySteps
<1>2. /\ pc[p] \in DeploySteps /\ UNCHANGED <<job, overlapped, agents, saved>>
  BY DEF CreateSteps, CreateList, CreateEvict, CreateContainer, CreateFails, StartContainer,
         StartUndo, At, DeploySteps
<1>3. \A q \in Procs \ {p} : held'[q] = held[q]
  <2>1. (\E next : Move(p, next)) \/ \E c : held' = [held EXCEPT ![p] = c]
    BY DEF CreateSteps, CreateList, CreateEvict, CreateContainer, CreateFails, StartContainer,
           StartUndo
  <2>. QED BY <2>1, MoveParts DEF TypeOK
<1>4. pc'[p] = to
  BY <1>1 DEF Goto, TypeOK
<1>5. Continues(p)
  BY <1>1, <1>2, <1>3 DEF Continues, DeploySteps
<1>6. pc[p] \notin Storing /\ pc'[p] \notin Storing
  BY <1>2, <1>4 DEF Storing, DeploySteps, AfterFailure
<1>. QED BY <1>2, <1>5, <1>6, SyncedStep

LEMMA CommandSynced ==
  ASSUME NEW strict \in BOOLEAN, SavedInv(strict), NEW w \in Workers,
         RunCommit(w) \/ StopContainer(w) \/ StopRemove(w) \/ StopDelete(w)
  PROVE  \A a \in Agents : Synced(a, strict)'
<1>. w \in Procs /\ TypeOK /\ job[w] \in Agents
  BY StepNames DEF SavedInv, TypeOK
<1>1. PICK to \in {"idle", "remove", "delete"} : Move(w, to)
  BY DEF RunCommit, StopContainer, StopRemove, StopDelete
<1>2. /\ pc[w] \in {"commit", "stop", "remove", "delete"}
      /\ UNCHANGED <<job, overlapped>>
      /\ \/ UNCHANGED <<agents, saved>>
         \/ /\ agents' = [agents EXCEPT ![job[w]] = [cid |-> held[w], count |-> 0]]
            /\ saved' = [saved EXCEPT ![job[w]] = held[w]]
         \/ /\ agents' = [agents EXCEPT ![job[w]] = NoAgent]
            /\ saved' = [saved EXCEPT ![job[w]] = 0]
  BY DEF RunCommit, StopContainer, StopRemove, StopDelete, At
<1>3. Continues(w)
  BY <1>1, <1>2, MoveParts DEF Continues, TypeOK
<1>4. pc[w] \notin Storing /\ pc'[w] \notin Storing
  BY <1>1, <1>2, MoveParts DEF Storing
<1>5. UNCHANGED <<agents, saved>> \/ saved'[job[w]] = agents'[job[w]].cid
  BY <1>2 DEF NoAgent, TypeOK
<1>. QED BY <1>3, <1>4, <1>5, SyncedStep DEF Stores, Storing

LEMMA FailureSynced ==
  ASSUME NEW strict \in BOOLEAN, SavedInv(strict), NEW t \in Handlers, Failure(t)
  PROVE  \A a \in Agents : Synced(a, strict)'
<1>. PICK a \in Agents : a = job[t]
  BY StepNames DEF SavedInv, TypeOK, Handlers
<1>. t \in Procs /\ TypeOK
  BY StepNames DEF SavedInv, Handlers
<1>1. CASE HandleFailure(t)
  <2>1. /\ pc[t] = "fail" /\ UNCHANGED <<saved, overlapped>>
        /\ \A b \in Agents : agents'[b].cid = agents[b].cid
        /\ \A b \in Agents \ {a} : agents'[b] = agents[b]
    <3>1. agents' = agents \/ \E n : agents' = [agents EXCEPT ![a].count = n]
      BY <1>1 DEF HandleFailure
    <3>2. agents \in [Agents -> [cid : Nat, count : Nat]]
      BY DEF TypeOK
    <3>3. \A b \in Agents : agents'[b].cid = agents[b].cid
      <4>1. ASSUME NEW n, agents' = [agents EXCEPT ![a].count = n], NEW b \in Agents
            PROVE  agents'[b].cid = agents[b].cid
        BY <4>1, <3>2
      <4>. QED BY <3>1, <4>1
    <3>4. \A b \in Agents \ {a} : agents'[b] = agents[b]
      BY <3>1, <3>2
    <3>5. pc[t] = "fail" /\ UNCHANGED <<saved, overlapped>>
      BY <1>1 DEF HandleFailure, At
    <3>. QED BY <3>3, <3>4, <3>5
  <2>2. ASSUME UNCHANGED job, NEW to \in {"idle", "mark"}, Goto(t, to),
               NEW c, held' = [held EXCEPT ![t] = c]
        PROVE  \A b \in Agents : Synced(b, strict)'
    <3>1. Continues(t)
      BY <2>1, <2>2 DEF Continues, TypeOK
    <3>2. pc[t] \notin Storing /\ pc'[t] \notin Storing
      BY <2>1, <2>2 DEF Goto, Storing, TypeOK
    <3>. QED BY <2>1, <3>1, <3>2, SyncedStep
  <2>3. ASSUME NEW r \in Restarters, UNCHANGED held, pc[r] = "idle" \/ r = t,
               pc' = [pc EXCEPT ![t] = "idle", ![r] = "read"], job' = [job EXCEPT ![r] = a]
        PROVE  \A b \in Agents : Synced(b, strict)'
    <3>1. r \in Procs
      BY StepNames
    <3>2. \A p \in Procs, b \in Agents : WorkOn(p, b)' => (p = r /\ b = a) \/ (p # t /\ WorkOn(p, b))
      BY <2>3, <3>1 DEF WorkOn, TypeOK
    <3>3. WorkOn(t, a)
      BY <2>1 DEF WorkOn
    <3>4. \A b \in Agents : ~overlapped'[b] => ~overlapped[b] /\ Sole(b)'
      BY <2>1, <3>2, <3>3 DEF SavedInv, Synced, Sole
    <3>5. \A b \in Agents, p \in Procs :
            \/ job[p] = b /\ job'[p] = b /\ pc'[p] = pc[p] /\ held'[p] = held[p]
            \/ /\ job[p] = b => pc[p] \notin Storing
               /\ job'[p] = b => pc'[p] \notin Storing
      BY <2>1, <2>3, <3>1 DEF Storing, TypeOK
    <3>. QED BY <2>1, <3>4, <3>5, SyncedKept DEF SavedInv
  <2>. QED BY <1>1, <2>2, <2>3 DEF HandleFailure, Move, Idle, At
<1>2. CASE GiveUpMark(t)
  <2>1. Continues(t)
    BY <1>2 DEF GiveUpMark, At, Continues, TypeOK
  <2>2. pc[t] \notin Storing /\ pc'[t] \notin Storing
    BY <1>2 DEF GiveUpMark, At, Goto, Storing, TypeOK
  <2>. QED BY <1>2, <2>1, <2>2, SyncedStep DEF GiveUpMark
<1>3. CASE GiveUpStop(t) \/ GiveUpRemove(t)
  <2>1. PICK to \in {"removeDead", "drop"} : Move(t, to)
    BY <1>3 DEF GiveUpStop, GiveUpRemove
  <2>2. pc[t] \in {"stopDead", "removeDead"} /\ UNCHANGED <<job, overlapped, agents, saved>>
    BY <1>3 DEF GiveUpStop, GiveUpRemove, At
  <2>3. Continues(t) /\ pc[t] \notin Storing /\ pc'[t] \notin Storing
    BY <2>1, <2>2, MoveParts DEF Continues, Storing
  <2>. QED BY <2>2, <2>3, SyncedStep
<1>4. CASE GiveUpDrop(t) \/ GiveUpForget(t)
  <2>1. PICK to \in {"forget", "idle"} : Move(t, to)
    BY <1>4 DEF GiveUpDrop, GiveUpForget
  <2>2. Continues(t)
    BY <1>4, <2>1, MoveParts DEF GiveUpDrop, GiveUpForget, At, Continues, TypeOK
  <2>3. CASE GiveUpDrop(t)
    <3>1. pc'[t] = "forget" /\ agents'[a].cid = 0
      BY <2>3, MoveParts DEF GiveUpDrop, NoAgent, TypeOK
    <3>2. Stores(t, a)
      BY <3>1 DEF Stores, Storing
    <3>. QED BY <2>2, <3>2, SyncedStep
  <2>4. CASE GiveUpForget(t)
    <3>1. pc[t] = "forget" /\ UNCHANGED <<agents, overlapped, job>>
          /\ saved' = [saved EXCEPT ![a] = 0] /\ pc'[t] = "idle"
      BY <2>4, MoveParts DEF GiveUpForget, At
    <3>2. ~overlapped[a] => agents[a].cid = 0
      BY <3>1 DEF SavedInv, Synced, Agreed
    <3>3. ~overlapped[a] => Stores(t, a)
      BY <3>1, <3>2 DEF Stores, TypeOK
    <3>. QED BY <2>2, <3>3, SyncedStep
  <2>. QED BY <1>4, <2>3, <2>4
<1>. QED BY <1>1, <1>2, <1>3, <1>4 DEF Failure

LEMMA RestartSynced ==
  ASSUME NEW strict \in BOOLEAN, SavedInv(strict), NEW r \in Restarters,
         \/ RestartRead(r) \/ RestartStopOld(r) \/ RestartRemoveOld(r)
         \/ RestartCommit(r) \/ RestartSave(r) \/ RestartDiscard(r)
  PROVE  \A a \in Agents : Synced(a, strict)'
<1>. PICK a \in Agents : a = job[r]
  BY StepNames DEF SavedInv, TypeOK
<1>. r \in Procs /\ TypeOK
  BY StepNames DEF SavedInv
<1>1. CASE RestartRead(r)
  <2>1. PICK to \in {"stopOld", "idle"} :
          Goto(r, to) /\ \E c : held' = [held EXCEPT ![r] = c]
    BY <1>1 DEF RestartRead, Move
  <2>2. pc[r] = "read" /\ UNCHANGED <<job, overlapped, agents, saved>>
    BY <1>1 DEF RestartRead, At
  <2>3. Continues(r) /\ pc[r] \notin Storing /\ pc'[r] \notin Storing
    BY <2>1, <2>2 DEF Continues, Goto, Storing, TypeOK
  <2>. QED BY <2>2, <2>3, SyncedStep
<1>2. CASE RestartStopOld(r) \/ RestartRemoveOld(r) \/ RestartDiscard(r)
  <2>1. PICK to \in {"removeOld", "list", "idle"} : Move(r, to)
    BY <1>2 DEF RestartStopOld, RestartRemoveOld, RestartDiscard
  <2>2. /\ pc[r] \in {"stopOld", "removeOld", "discard"}
        /\ UNCHANGED <<job, overlapped, agents, saved>>
    BY <1>2 DEF RestartStopOld, RestartRemoveOld, RestartDiscard, At
  <2>3. Continues(r) /\ pc[r] \notin Storing /\ pc'[r] \notin Storing
    BY <2>1, <2>2, MoveParts DEF Continues, Storing
  <2>. QED BY <2>2, <2>3, SyncedStep
<1>3. CASE RestartCommit(r)
  <2>1. PICK to \in {"save", "discard"} : Move(r, to)
    BY <1>3 DEF RestartCommit
  <2>2. pc[r] = "commit" /\ UNCHANGED <<job, overlapped, saved>>
    BY <1>3 DEF RestartCommit, At
  <2>3. CASE Live(a)
    <3>1. Move(r, "save") /\ agents' = [agents EXCEPT ![a].cid = held[r]]
      BY <1>3, <2>3 DEF RestartCommit
    <3>2. Continues(r)
      BY <2>2, <3>1, MoveParts DEF Continues, TypeOK
    <3>3. agents'[a].cid = held[r]
      BY <3>1 DEF TypeOK
    <3>4. Stores(r, a)
      BY <3>1, <3>3, MoveParts DEF Stores, Storing, Empty
    <3>. QED BY <3>2, <3>4, SyncedStep
  <2>4. CASE ~Live(a)
    <3>1. UNCHANGED agents /\ Move(r, "discard")
      BY <1>3, <2>4 DEF RestartCommit
    <3>2. Continues(r) /\ pc[r] \notin Storing /\ pc'[r] \notin Storing
      BY <2>2, <3>1, MoveParts DEF Continues, Storing
    <3>. QED BY <2>2, <3>1, <3>2, SyncedStep
  <2>. QED BY <2>3, <2>4
<1>4. CASE RestartSave(r)
  <2>1. /\ pc[r] = "save" /\ UNCHANGED <<job, overlapped, agents>>
        /\ saved' = [saved EXCEPT ![a] = held[r]] /\ Move(r, "idle")
    BY <1>4 DEF RestartSave, At
  <2>2. Continues(r)
    BY <2>1, MoveParts DEF Continues, TypeOK
  <2>3. ~overlapped[a] => agents[a].cid = held[r]
    BY <2>1 DEF SavedInv, Synced, Agreed
  <2>4. ~overlapped[a] => Stores(r, a)
    BY <2>1, <2>3, MoveParts DEF Stores, Storing, TypeOK
  <2>. QED BY <2>2, <2>4, SyncedStep
<1>. QED BY <1>1, <1>2, <1>3, <1>4

LEMMA OtherSynced ==
  ASSUME NEW strict \in BOOLEAN, SavedInv(strict),
         \/ \E w \in Workers, a \in Agents : RunBegin(w, a) \/ StopBegin(w, a)
         \/ Check
         \/ \E a \in Agents : Environment(a)
         \/ UNCHANGED vars
  PROVE  \A a \in Agents : Synced(a, strict)'
<1>. TypeOK
  BY DEF SavedInv
<1>. DEFINE Begins ==
       \E p \in Procs, a \in Agents, step \in {"list", "stop", "fail"} :
         pc[p] = "idle" /\ Begin(p, a, step) /\ \E c : held' = [held EXCEPT ![p] = c]
<1>1. UNCHANGED <<agents, saved>>
  BY DEF RunBegin, StopBegin, Check, MonitorSnapshot, MonitorInspect, Environment,
         ContainerExits, ContainerRemoved, vars
<1>2. CASE UNCHANGED <<pc, job, held, overlapped>>
  BY <1>1, <1>2 DEF SavedInv, Synced, Sole, Agreed, WorkOn
<1>3. ASSUME NEW p \in Procs, NEW a \in Agents, NEW step \in {"list", "stop", "fail"},
             pc[p] = "idle", Begin(p, a, step), NEW c, held' = [held EXCEPT ![p] = c]
      PROVE  \A b \in Agents : Synced(b, strict)'
  <2>1. /\ job' = [job EXCEPT ![p] = a] /\ pc' = [pc EXCEPT ![p] = step]
        /\ overlapped'[a] = (overlapped[a] \/ ~Quiet(a))
        /\ \A b \in Agents \ {a} : overlapped'[b] = overlapped[b]
    BY <1>3, Zenon DEF Begin, Goto, TypeOK
  <2>2. \A q \in Procs, b \in Agents : WorkOn(q, b)' => (q = p /\ b = a) \/ WorkOn(q, b)
    BY <1>3, <2>1 DEF WorkOn, TypeOK
  <2>3. ~overlapped'[a] => ~overlapped[a] /\ Quiet(a)
    BY <2>1
  <2>4. \A b \in Agents : ~overlapped'[b] => ~overlapped[b] /\ Sole(b)'
    BY <2>1, <2>2, <2>3 DEF SavedInv, Synced, Sole, Quiet
  <2>5. \A b \in Agents, q \in Procs :
          \/ job[q] = b /\ job'[q] = b /\ pc'[q] = pc[q] /\ held'[q] = held[q]
          \/ /\ job[q] = b => pc[q] \notin Storing
             /\ job'[q] = b => pc'[q] \notin Storing
    BY <1>3, <2>1 DEF Storing, TypeOK
  <2>. QED BY <1>1, <2>4, <2>5, SyncedKept DEF SavedInv
<1>4. UNCHANGED <<pc, job, held, overlapped>> \/ Begins
  <2>1. UNCHANGED held => \A p \in Procs : held' = [held EXCEPT ![p] = held[p]]
    BY DEF TypeOK
  <2>2. ASSUME NEW w \in Workers, NEW a \in Agents, RunBegin(w, a)
        PROVE  Begins
    BY <2>1, <2>2, StepNames DEF RunBegin, At
  <2>3. ASSUME NEW w \in Workers, NEW a \in Agents, StopBegin(w, a)
        PROVE  Begins
    BY <2>3, StepNames DEF StopBegin, At
  <2>4. CASE MonitorInspect
    BY <2>1, <2>4, StepNames DEF MonitorInspect, At, TypeOK
  <2>5. CASE MonitorSnapshot \/ (\E a \in Agents : Environment(a)) \/ UNCHANGED vars
    BY <2>5 DEF MonitorSnapshot, Environment, ContainerExits, ContainerRemoved, vars
  <2>. QED BY <2>2, <2>3, <2>4, <2>5 DEF Check
<1>. QED BY <1>2, <1>3, <1>4

LEMMA StepSaved ==
  ASSUME NEW strict \in BOOLEAN, SavedInv(strict), [Next]_vars
  PROVE  SavedInv(strict)'
<1>1. TypeOK'
  BY StepType DEF SavedInv
<1>2. ASSUME NEW w \in Workers, Command(w)
      PROVE  \A a \in Agents : Synced(a, strict)'
  BY <1>2, DeploySynced, CommandSynced DEF Command
<1>3. ASSUME NEW r \in Restarters, Restart(r)
      PROVE  \A a \in Agents : Synced(a, strict)'
  BY <1>3, DeploySynced, RestartSynced DEF Restart
<1>4. \A a \in Agents : Synced(a, strict)'
  BY <1>2, <1>3, FailureSynced, OtherSynced DEF Next
<1>. QED BY <1>1, <1>4 DEF SavedInv

LEMMA InitSaved ==
  ASSUME NEW strict \in BOOLEAN, Init
  PROVE  SavedInv(strict)
<1>1. \A a \in Agents : Synced(a, strict)
  BY DEF Init, Synced, Sole, Agreed, WorkOn, Storing, NoAgent
<1>. QED BY <1>1, InitType DEF SavedInv

LEMMA QuietIsSaved ==
  ASSUME NEW strict \in BOOLEAN, strict, SavedInv(strict)
  PROVE  SavedMatches
<1>. SUFFICES ASSUME NEW a \in Agents, Quiet(a), ~overlapped[a]
              PROVE  saved[a] = agents[a].cid
  BY DEF SavedMatches
<1>1. \A p \in Procs : job[p] = a => pc[p] \notin Storing
  BY DEF Quiet, WorkOn, Storing
<1>. QED BY <1>1 DEF SavedInv, Synced, Agreed

(* manager.go:108, 159, 271, 332: when nobody works on an agent, and no two *)
(* goroutines ever did at once, its saved entry is its record's.            *)
THEOREM LifecycleSavedMatches == Spec => []SavedMatches
<1>. DEFINE Inv == SavedInv(TRUE)
<1>1. Init => Inv
  BY InitSaved
<1>2. Inv /\ [Next]_vars => Inv'
  BY StepSaved
<1>3. Inv => SavedMatches
  BY QuietIsSaved
<1>. QED BY <1>1, <1>2, <1>3, PTL DEF Spec
-----------------------------------------------------------------------------
(* The contract. A step of the goroutines changes what the contract knows   *)
(* (ContractStep) or leaves it as it is; that a container enters the record *)
(* but once is Own, that it is paid for BudgetInv, that Run is alone the    *)
(* lock. renewals (k) are the starts of a node.                             *)

SameRecords == \A a \in Agents : agents'[a].cid = agents[a].cid
SameContainers == \A a \in Agents : docker'[a].cid = docker[a].cid
SameMaking == \A a \in Agents : InMaking(a)' = InMaking(a)
SameBudget == made' = made /\ runs' = runs

\* The actions of the contract, in terms of the goroutines' state.
Steady == SameRecords /\ SameContainers /\ SameMaking /\ SameBudget /\ Admitted' = Admitted

Accepts(a) ==
  /\ agents[a].cid = 0 /\ Admitted = {} /\ Admitted' = {a}
  /\ Cardinality({b \in Agents : agents[b].cid # 0}) < MaxAgents
  /\ SameRecords /\ SameContainers /\ SameMaking
  /\ made' = made /\ runs' = [runs EXCEPT ![a] = @ + 1]

Refuses(a) ==
  /\ a \in Admitted /\ Admitted' = {}
  /\ SameRecords /\ SameContainers /\ SameMaking /\ SameBudget

Makes(a, k) ==
  /\ docker[a].cid = 0 /\ made[a] < MaxRestartAttempts * (runs[a] + k)
  /\ made' = [made EXCEPT ![a] = @ + 1] /\ runs' = runs
  /\ \A b \in Agents : docker'[b].cid = IF b = a THEN made'[a] ELSE docker[b].cid
  /\ \A b \in Agents : InMaking(b)' = IF b = a THEN InMaking(a) \cup {made'[a]} ELSE InMaking(b)
  /\ SameRecords /\ Admitted' = Admitted

LeavesMaking(a, c) ==
  /\ c \in InMaking(a)
  /\ \A b \in Agents : InMaking(b)' = IF b = a THEN InMaking(a) \ {c} ELSE InMaking(b)

Records(a, c) ==
  /\ LeavesMaking(a, c)
  /\ \/ agents[a].cid = 0 /\ a \in Admitted /\ Admitted' = {}
     \/ agents[a].cid # 0 /\ Admitted' = Admitted
  /\ \A b \in Agents : agents'[b].cid = IF b = a THEN c ELSE agents[b].cid
  /\ SameContainers /\ SameBudget

Discards(a, c) ==
  /\ LeavesMaking(a, c)
  /\ Admitted' \in {Admitted, Admitted \ {a}}
  /\ \/ SameContainers
     \/ docker[a].cid = c /\ \A b \in Agents : docker'[b].cid = IF b = a THEN 0 ELSE docker[b].cid
  /\ SameRecords /\ SameBudget

Removes(a) ==
  /\ docker[a].cid # 0
  /\ \A b \in Agents : docker'[b].cid = IF b = a THEN 0 ELSE docker[b].cid
  /\ SameRecords /\ SameMaking /\ SameBudget /\ Admitted' = Admitted

Drops(a) ==
  /\ agents[a].cid # 0
  /\ \A b \in Agents : agents'[b].cid = IF b = a THEN 0 ELSE agents[b].cid
  /\ SameContainers /\ SameMaking /\ SameBudget /\ Admitted' = Admitted

ContractStep(k) ==
  \/ Steady
  \/ \E a \in Agents :
       \/ Accepts(a) \/ Refuses(a) \/ Makes(a, k) \/ Removes(a) \/ Drops(a)
       \/ \E c : Records(a, c) \/ Discards(a, c)

LEMMA ContractMaps ==
  ASSUME NEW k, TypeOK, ContractStep(k)
  PROVE  (\E a \in Agents : Contract!Step(a, k)) \/ UNCHANGED Contract!contractVars
<1>1. CASE Steady
  BY <1>1 DEF Steady, SameRecords, SameContainers, SameMaking, SameBudget, Contract!contractVars
<1>2. ASSUME NEW a \in Agents, Accepts(a) PROVE Contract!Step(a, k)
  <2>1. Contract!Managed = {b \in Agents : agents[b].cid # 0}
    BY DEF Contract!Managed
  <2>2. Contract!Cardinality(Contract!Managed) = Cardinality(Contract!Managed)
    BY DEF Contract!Cardinality, Cardinality
  <2>. QED BY <1>2, <2>1, <2>2 DEF Accepts, SameRecords, SameContainers, SameMaking, Contract!Step, Contract!Accept
<1>3. ASSUME NEW a \in Agents, Refuses(a) PROVE Contract!Step(a, k)
  BY <1>3 DEF Refuses, SameRecords, SameContainers, SameMaking, SameBudget, Contract!Step, Contract!Refuse
<1>4. ASSUME NEW a \in Agents, Makes(a, k) PROVE Contract!Step(a, k)
  BY <1>4 DEF Makes, SameRecords, Contract!Step, Contract!Make
<1>5. ASSUME NEW a \in Agents, Removes(a) PROVE Contract!Step(a, k)
  BY <1>5 DEF Removes, SameRecords, SameMaking, SameBudget, Contract!Step, Contract!Remove
<1>6. ASSUME NEW a \in Agents, Drops(a) PROVE Contract!Step(a, k)
  BY <1>6 DEF Drops, SameContainers, SameMaking, SameBudget, Contract!Step, Contract!Drop
<1>7. ASSUME NEW a \in Agents, NEW c, Records(a, c) PROVE Contract!Step(a, k)
  BY <1>7 DEF Records, LeavesMaking, SameContainers, SameBudget, Contract!Step, Contract!Record
<1>8. ASSUME NEW a \in Agents, NEW c, Discards(a, c) PROVE Contract!Step(a, k)
  BY <1>8 DEF Discards, LeavesMaking, SameRecords, SameContainers, SameBudget, Contract!Step, Contract!Discard
<1>. QED BY <1>1, <1>2, <1>3, <1>4, <1>5, <1>6, <1>7, <1>8 DEF ContractStep

\* What a goroutine has made changes when it comes to hold a container, and
\* when it commits it or gives it up: nobody else holds that one.
LEMMA MakingKept ==
  ASSUME TypeOK, NEW p \in Procs, NEW to, Goto(p, to), UNCHANGED job,
         \A q \in Procs \ {p} : held'[q] = held[q],
         pc[p] \in Making <=> to \in Making, to \in Making => held'[p] = held[p]
  PROVE  SameMaking
<1>1. \A a \in Agents, q \in Procs : MadeBy(q, a)' <=> MadeBy(q, a)
  BY DEF MadeBy, Goto, TypeOK
<1>2. \A a \in Agents, q \in Procs : MadeBy(q, a) => held'[q] = held[q]
  BY DEF MadeBy
<1>. QED BY <1>1, <1>2 DEF SameMaking, InMaking

LEMMA MakingLeft ==
  ASSUME TypeOK, NEW p \in Procs, NEW to, Goto(p, to), UNCHANGED job,
         \A q \in Procs \ {p} : held'[q] = held[q],
         Traced(job[p]), pc[p] \in Making, to \notin Making
  PROVE  LeavesMaking(job[p], held[p])
<1>1. \A a \in Agents, q \in Procs \ {p} : (MadeBy(q, a)' <=> MadeBy(q, a)) /\ held'[q] = held[q]
  BY DEF MadeBy, Goto, TypeOK
<1>2. MadeBy(p, job[p]) /\ \A a \in Agents : ~MadeBy(p, a)'
  BY DEF MadeBy, Goto, TypeOK
<1>3. \A q \in Procs \ {p} : MadeBy(q, job[p]) => held[q] # held[p]
  BY <1>2 DEF Traced, Own, MadeBy, Making
<1>4. \A a \in Agents : a # job[p] => ~MadeBy(p, a)
  BY DEF MadeBy
<1>. QED BY <1>1, <1>2, <1>3, <1>4 DEF LeavesMaking, InMaking

LEMMA AdmittedAside ==
  ASSUME \A w \in Workers : pc'[w] = pc[w] /\ job'[w] = job[w]
  PROVE  Admitted' = Admitted
BY DEF Admitted

\* Only the worker that holds the lock has a call of Run under way.
LEMMA AdmittedWalk ==
  ASSUME NEW m \in Limits, CapacityInv(m), NEW w \in Workers, NEW to, Goto(w, to), UNCHANGED job,
         pc[w] # "idle"
  PROVE  /\ Admitted = IF pc[w] \in DeploySteps THEN {job[w]} ELSE {}
         /\ Admitted' = IF to \in DeploySteps THEN {job[w]} ELSE {}
<1>1. \A v \in Workers \ {w} : v \in Procs /\ pc[v] = "idle" /\ pc'[v] = "idle"
  BY StepNames DEF CapacityInv, LockHeld, TypeOK, Goto
<1>2. pc'[w] = to /\ "idle" \notin DeploySteps
  BY StepNames DEF CapacityInv, TypeOK, Goto, DeploySteps
<1>. QED BY <1>1, <1>2 DEF Admitted

LEMMA RemovingCids ==
  ASSUME TypeOK, NEW a \in Agents, NEW c, NEW ok \in BOOLEAN, Removing(a, c, ok)
  PROVE  \/ SameContainers
         \/ docker[a].cid = c /\ c # 0
            /\ \A b \in Agents : docker'[b].cid = IF b = a THEN 0 ELSE docker[b].cid
<1>1. CASE docker' = [docker EXCEPT ![a] = Gone] /\ Holds(a, c)
  BY <1>1 DEF SameContainers, Holds, Gone, TypeOK
<1>2. CASE docker' = docker
  BY <1>2 DEF SameContainers
<1>. QED BY <1>1, <1>2 DEF Removing

LEMMA StoppingCids ==
  ASSUME TypeOK, NEW a \in Agents, NEW c, NEW ok \in BOOLEAN, Stopping(a, c, ok)
  PROVE  SameContainers
BY DEF Stopping, SameContainers, TypeOK

NamedRecords == \A a \in Agents : Live(a) => agents[a].cid # 0

ContractInv(m, k) == BudgetInv(m, k) /\ LeakInv(m) /\ NamedRecords

LEMMA ContractParts ==
  ASSUME NEW m \in Limits, NEW k \in Nat, ContractInv(m, k)
  PROVE  TypeOK /\ CapacityInv(m) /\ LeakInv(m) /\ BudgetInv(m, k) /\ LockHeld
         /\ (\A a \in Agents : Traced(a)) /\ NamedRecords
BY DEF ContractInv, BudgetInv, LeakInv, CapacityInv

LEMMA AdmittedDeploy ==
  ASSUME NEW m \in Limits, CapacityInv(m), NEW p \in Workers \cup Restarters,
         NEW to \in DeploySteps \cup {AfterFailure(p)}, Goto(p, to), UNCHANGED job,
         pc[p] \in DeploySteps
  PROVE  \/ Admitted' = Admitted
         \/ to \notin DeploySteps /\ job[p] \in Admitted /\ Admitted' = {} /\ Admitted = {job[p]}
<1>1. CASE p \in Workers
  BY <1>1, AdmittedWalk DEF DeploySteps
<1>2. CASE p \in Restarters
  BY <1>2, HandlerFrame, AdmittedAside, StepNames
<1>. QED BY <1>1, <1>2

LEMMA CreateContract ==
  ASSUME NEW m \in Limits, NEW k \in Nat, ContractInv(m, k), BudgetInv(m, k)',
         NEW p \in Workers \cup Restarters, CreateSteps(p)
  PROVE  ContractStep(k) /\ NamedRecords'
<1>. DEFINE a == job[p]
<1>. /\ TypeOK /\ CapacityInv(m) /\ (\A b \in Agents : Traced(b)) /\ NamedRecords
     /\ p \in Procs /\ a \in Agents
  BY ContractParts, StepNames DEF TypeOK
<1>. /\ pc[p] \in DeploySteps
     /\ \A to : Goto(p, to) => pc'[p] = to
  BY DEF CreateSteps, CreateList, CreateEvict, CreateContainer, CreateFails, StartContainer, StartUndo,
         At, DeploySteps, Goto, TypeOK
<1>. AfterFailure(p) \in Empty /\ Empty \cap Making = {} /\ AfterFailure(p) \notin DeploySteps
  BY DEF AfterFailure, Empty, Making, DeploySteps
<1>. UNCHANGED <<agents, job, runs>> /\ SameRecords /\ NamedRecords'
  BY DEF CreateSteps, CreateList, CreateEvict, CreateContainer, CreateFails, StartContainer, StartUndo,
         SameRecords, NamedRecords, Live
<1>1. CASE CreateList(p)
  <2>1. PICK to \in {"evict", "create"} : Goto(p, to)
    BY <1>1 DEF CreateList, Move
  <2>2. /\ pc[p] = "list" /\ SameContainers /\ SameBudget
        /\ \A q \in Procs \ {p} : held'[q] = held[q]
    BY <1>1, MoveParts DEF CreateList, At, SameContainers, SameBudget, TypeOK
  <2>3. SameMaking
    BY <2>1, <2>2, MakingKept DEF Making
  <2>4. Admitted' = Admitted
    BY <2>1, AdmittedDeploy DEF DeploySteps
  <2>. QED BY <2>2, <2>3, <2>4 DEF ContractStep, Steady
<1>2. CASE CreateEvict(p)
  <2>1. /\ pc[p] = "evict" /\ SameBudget /\ Goto(p, "create") /\ Removing(a, held[p], TRUE)
        /\ \A q \in Procs \ {p} : held'[q] = held[q]
    BY <1>2, MoveParts DEF CreateEvict, At, SameBudget, TypeOK
  <2>2. SameMaking
    BY <2>1, MakingKept DEF Making
  <2>3. Admitted' = Admitted
    BY <2>1, AdmittedDeploy DEF DeploySteps
  <2>. QED BY <2>1, <2>2, <2>3, RemovingCids DEF ContractStep, Steady, Removes
<1>3. CASE CreateContainer(p)
  <2>1. /\ pc[p] = "create" /\ docker[a] = Gone /\ Goto(p, "start")
        /\ made' = [made EXCEPT ![a] = @ + 1] /\ made'[a] = made[a] + 1
        /\ \A b \in Agents : docker'[b].cid = IF b = a THEN made'[a] ELSE docker[b].cid
        /\ held'[p] = made'[a] /\ \A q \in Procs \ {p} : held'[q] = held[q]
    BY <1>3 DEF CreateContainer, At, TypeOK
  <2>2. ASSUME NEW b \in Agents
        PROVE  InMaking(b)' = IF b = a THEN InMaking(a) \cup {made'[a]} ELSE InMaking(b)
    <3>1. \A q \in Procs \ {p} : (MadeBy(q, b)' <=> MadeBy(q, b)) /\ held'[q] = held[q]
      BY <2>1 DEF MadeBy, Goto, TypeOK
    <3>2. (MadeBy(p, b)' <=> b = a) /\ ~MadeBy(p, b)
      BY <2>1 DEF MadeBy, Making
    <3>. QED BY <2>1, <3>1, <3>2 DEF InMaking
  <2>3. made[a] < MaxRestartAttempts * (runs[a] + k)
    <3>1. IsFiniteSet(Pending(a)') /\ Cardinality(Pending(a)') \in Nat /\ Credit(a)' \in Nat
      BY FS_CardinalityType, CreditNat DEF BudgetInv, Covered, CapacityInv
    <3>2. made'[a] + Cardinality(Pending(a)') + Credit(a)' <= MaxRestartAttempts * (runs[a] + k)
      BY DEF BudgetInv, Covered
    <3>3. made[a] \in Nat /\ MaxRestartAttempts * (runs[a] + k) \in Nat
      BY CoveredNumbers, ContractParts
    <3>. QED BY <2>1, <3>1, <3>2, <3>3
  <2>4. Admitted' = Admitted
    BY <2>1, AdmittedDeploy DEF DeploySteps
  <2>5. Makes(a, k)
    BY <2>1, <2>2, <2>3, <2>4 DEF Makes, Gone
  <2>. QED BY <2>5 DEF ContractStep
<1>4. CASE CreateFails(p)
  <2>1. /\ pc[p] \in {"list", "evict", "create"} /\ SameContainers /\ SameBudget
        /\ Goto(p, AfterFailure(p)) /\ \A q \in Procs \ {p} : held'[q] = held[q]
    BY <1>4, MoveParts DEF CreateFails, At, SameContainers, SameBudget
  <2>2. SameMaking
    BY <2>1, MakingKept DEF Making
  <2>. QED BY <2>1, <2>2, AdmittedDeploy DEF ContractStep, Steady, Refuses
<1>5. CASE StartContainer(p)
  <2>1. PICK to \in {"commit", "undo"} : Move(p, to)
    BY <1>5 DEF StartContainer
  <2>0. SameContainers
    <3>1. docker' = docker \/ docker' = [docker EXCEPT ![a].up = TRUE]
      BY <1>5 DEF StartContainer
    <3>2. docker' = [docker EXCEPT ![a].up = TRUE] => SameContainers
      BY DEF SameContainers, TypeOK
    <3>. QED BY <3>1, <3>2 DEF SameContainers
  <2>2. /\ pc[p] = "start" /\ SameContainers /\ SameBudget /\ Goto(p, to)
        /\ \A q \in Procs : held'[q] = held[q]
    BY <1>5, <2>0, <2>1, MoveParts DEF StartContainer, At, SameBudget, Empty
  <2>3. SameMaking
    BY <2>2, MakingKept DEF Making
  <2>4. Admitted' = Admitted
    BY <2>2, AdmittedDeploy DEF DeploySteps
  <2>. QED BY <2>2, <2>3, <2>4 DEF ContractStep, Steady
<1>6. CASE StartUndo(p)
  <2>1. PICK ok \in BOOLEAN : Removing(a, held[p], ok)
    BY <1>6 DEF StartUndo
  <2>2. /\ pc[p] = "undo" /\ SameBudget /\ Goto(p, AfterFailure(p))
        /\ \A q \in Procs \ {p} : held'[q] = held[q]
    BY <1>6, MoveParts DEF StartUndo, At, SameBudget
  <2>3. LeavesMaking(a, held[p])
    BY <2>2, MakingLeft DEF Making
  <2>4. Admitted' \in {Admitted, Admitted \ {a}}
    BY <2>2, AdmittedDeploy
  <2>5. Discards(a, held[p])
    BY <2>1, <2>2, <2>3, <2>4, RemovingCids DEF Discards
  <2>. QED BY <2>5 DEF ContractStep
<1>. QED BY <1>1, <1>2, <1>3, <1>4, <1>5, <1>6 DEF CreateSteps

LEMMA CommandContract ==
  ASSUME NEW m \in Limits, NEW k \in Nat, ContractInv(m, k), NEW w \in Workers,
         RunCommit(w) \/ StopContainer(w) \/ StopRemove(w) \/ StopDelete(w)
  PROVE  ContractStep(k) /\ NamedRecords'
<1>. DEFINE a == job[w]
<1>. /\ TypeOK /\ CapacityInv(m) /\ (\A b \in Agents : Traced(b)) /\ NamedRecords
     /\ w \in Procs /\ a \in Agents
  BY ContractParts, StepNames DEF TypeOK
<1>1. CASE RunCommit(w)
  <2>1. /\ pc[w] = "commit" /\ Goto(w, "idle") /\ UNCHANGED job /\ SameContainers /\ SameBudget
        /\ \A q \in Procs \ {w} : held'[q] = held[q]
    BY <1>1, MoveParts DEF RunCommit, At, SameContainers, SameBudget
  <2>2. LeavesMaking(a, held[w])
    BY <2>1, MakingLeft DEF Making
  <2>3. ~Live(a) /\ a \in Admitted /\ Admitted' = {}
    BY <2>1, AdmittedWalk DEF CapacityInv, SlotReserved, DeploySteps
  <2>4. /\ agents' = [agents EXCEPT ![a] = [cid |-> held[w], count |-> 0]]
        /\ held[w] # 0
    BY <1>1, <2>1 DEF RunCommit, Traced, Own, MadeBy, Making
  <2>5. Records(a, held[w])
    BY <2>1, <2>2, <2>3, <2>4 DEF Records, Live, NoAgent, TypeOK
  <2>6. NamedRecords'
    BY <2>4 DEF NamedRecords, Live, TypeOK
  <2>. QED BY <2>5, <2>6 DEF ContractStep
<1>2. CASE StopContainer(w)
  <2>1. PICK to \in {"remove", "idle"} : Goto(w, to)
    BY <1>2 DEF StopContainer, Move
  <2>2. /\ pc[w] = "stop" /\ UNCHANGED <<job, agents>> /\ SameBudget
        /\ \A q \in Procs \ {w} : held'[q] = held[q]
    BY <1>2, MoveParts DEF StopContainer, At, SameBudget
  <2>3. SameContainers
    BY <1>2, StoppingCids DEF StopContainer
  <2>4. SameMaking /\ Admitted' = Admitted
    BY <2>1, <2>2, MakingKept, AdmittedWalk DEF Making, DeploySteps
  <2>. QED BY <2>2, <2>3, <2>4 DEF ContractStep, Steady, SameRecords, NamedRecords, Live
<1>3. CASE StopRemove(w)
  <2>0. PICK ok \in BOOLEAN : /\ Removing(a, held[w], ok)
                              /\ IF ok THEN Move(w, "delete") ELSE Move(w, "idle")
    BY <1>3 DEF StopRemove
  <2>1. PICK to \in {"delete", "idle"} : Move(w, to)
    BY <2>0
  <2>2. /\ pc[w] = "remove" /\ UNCHANGED <<job, agents>> /\ SameBudget /\ Goto(w, to)
        /\ \A q \in Procs \ {w} : held'[q] = held[q]
    BY <1>3, <2>1, MoveParts DEF StopRemove, At, SameBudget
  <2>3. SameMaking /\ Admitted' = Admitted
    BY <2>2, MakingKept, AdmittedWalk DEF Making, DeploySteps
  <2>4. SameRecords /\ NamedRecords'
    BY <2>2 DEF SameRecords, NamedRecords, Live
  <2>. QED BY <2>0, <2>2, <2>3, <2>4, RemovingCids DEF ContractStep, Steady, Removes
<1>4. CASE StopDelete(w)
  <2>1. /\ pc[w] = "delete" /\ Goto(w, "idle") /\ UNCHANGED job /\ SameContainers /\ SameBudget
        /\ \A q \in Procs \ {w} : held'[q] = held[q]
    BY <1>4, MoveParts DEF StopDelete, At, SameContainers, SameBudget
  <2>2. SameMaking /\ Admitted' = Admitted
    BY <2>1, MakingKept, AdmittedWalk DEF Making, DeploySteps
  <2>3. agents' = [agents EXCEPT ![a] = NoAgent]
    BY <1>4 DEF StopDelete
  <2>4. NamedRecords' /\ \A b \in Agents : agents'[b].cid = IF b = a THEN 0 ELSE agents[b].cid
    BY <2>3 DEF NamedRecords, Live, NoAgent, TypeOK
  <2>. QED BY <2>1, <2>2, <2>4 DEF ContractStep, Steady, Drops, SameRecords
<1>. QED BY <1>1, <1>2, <1>3, <1>4

LEMMA BeginContract ==
  ASSUME NEW m \in Limits, NEW k \in Nat, ContractInv(m, k), NEW w \in Workers, NEW a \in Agents,
         RunBegin(w, a) \/ StopBegin(w, a)
  PROVE  ContractStep(k) /\ NamedRecords'
<1>. TypeOK /\ CapacityInv(m) /\ LockHeld /\ NamedRecords /\ w \in Procs
  BY ContractParts, StepNames
<1>1. /\ Free /\ pc[w] = "idle" /\ UNCHANGED <<agents, docker, made>> /\ job' = [job EXCEPT ![w] = a]
      /\ \A q \in Procs \ {w} : held'[q] = held[q] /\ pc'[q] = pc[q]
      /\ pc'[w] \in {"list", "stop"}
  BY DEF RunBegin, StopBegin, Begin, Goto, At, TypeOK
<1>2. SameRecords /\ SameContainers /\ NamedRecords'
  BY <1>1 DEF SameRecords, SameContainers, NamedRecords, Live
<1>3. SameMaking
  <2>1. \A b \in Agents, q \in Procs : MadeBy(q, b)' <=> MadeBy(q, b)
    BY <1>1 DEF MadeBy, Making, TypeOK
  <2>2. \A b \in Agents, q \in Procs : MadeBy(q, b) => held'[q] = held[q]
    BY <1>1 DEF MadeBy, Making
  <2>. QED BY <2>1, <2>2 DEF SameMaking, InMaking
<1>4. \A v \in Workers : v \in Procs /\ pc[v] = "idle"
  BY <1>1, StepNames, LifecycleAssumption DEF Free, LockHeld
<1>5. Admitted = {}
  BY <1>4 DEF Admitted, DeploySteps
<1>6. CASE RunBegin(w, a)
  <2>1. pc'[w] = "list" /\ job'[w] = a /\ runs' = [runs EXCEPT ![a] = @ + 1] /\ ~Live(a)
        /\ Cardinality(LiveAgents) < MaxAgents
    BY <1>6 DEF RunBegin, Begin, Goto, TypeOK
  <2>2. Admitted' = {a}
    BY <1>1, <1>4, <2>1 DEF Admitted, DeploySteps
  <2>3. LiveAgents = {b \in Agents : agents[b].cid # 0} /\ agents[a].cid = 0
    BY <2>1 DEF LiveAgents, Live, NoAgent, NamedRecords
  <2>. QED BY <1>1, <1>2, <1>3, <1>5, <2>1, <2>2, <2>3 DEF ContractStep, Accepts
<1>7. CASE StopBegin(w, a)
  <2>1. pc'[w] = "stop" /\ SameBudget
    BY <1>7 DEF StopBegin, Begin, Goto, SameBudget, TypeOK
  <2>2. Admitted' = {}
    BY <1>1, <1>4, <2>1 DEF Admitted, DeploySteps
  <2>. QED BY <1>2, <1>3, <1>5, <2>1, <2>2 DEF ContractStep, Steady
<1>. QED BY <1>6, <1>7

LEMMA FailureContract ==
  ASSUME NEW m \in Limits, NEW k \in Nat, ContractInv(m, k), NEW t \in Handlers, Failure(t)
  PROVE  ContractStep(k) /\ NamedRecords'
<1>. DEFINE a == job[t]
<1>. /\ TypeOK /\ CapacityInv(m) /\ NamedRecords /\ t \in Procs /\ t \notin Workers /\ a \in Agents
  BY ContractParts, StepNames, LifecycleAssumption DEF TypeOK, Handlers
<1>1. CASE HandleFailure(t)
  <2>1. /\ pc[t] = "fail" /\ UNCHANGED docker /\ SameContainers /\ SameBudget
        /\ \A q \in Procs \ {t} : held'[q] = held[q]
    BY <1>1, MoveParts DEF HandleFailure, At, SameContainers, SameBudget, TypeOK
  <2>2. \/ UNCHANGED job /\ \E to \in {"idle", "mark"} : Goto(t, to)
        \/ \E r \in Idle \cup ({t} \cap Restarters) : /\ pc' = [pc EXCEPT ![t] = "idle", ![r] = "read"]
                                                      /\ job' = [job EXCEPT ![r] = a]
    BY <1>1 DEF HandleFailure, Move
  <2>3. \A b \in Agents, q \in Procs : (MadeBy(q, b)' <=> MadeBy(q, b)) /\ (MadeBy(q, b) => held'[q] = held[q])
    BY <2>1, <2>2, StepNames DEF MadeBy, Making, Goto, Idle, At, TypeOK
  <2>4. SameMaking
    BY <2>3 DEF SameMaking, InMaking
  <2>5. Admitted' = Admitted
    BY <2>2, AdmittedAside, StepNames DEF Goto, Idle, TypeOK
  <2>6. SameRecords /\ NamedRecords'
    <3>1. agents' = agents \/ (Live(a) /\ \E n : agents' = [agents EXCEPT ![a].count = n])
      BY <1>1 DEF HandleFailure
    <3>2. CASE agents' = agents
      BY <3>2 DEF SameRecords, NamedRecords, Live
    <3>3. ASSUME Live(a), NEW n, agents' = [agents EXCEPT ![a].count = n]
          PROVE  SameRecords /\ NamedRecords'
      <4>1. \A b \in Agents : agents'[b].cid = agents[b].cid /\ (b # a => agents'[b] = agents[b])
        BY <3>3 DEF TypeOK
      <4>. QED BY <3>3, <4>1 DEF SameRecords, NamedRecords, Live
    <3>. QED BY <3>1, <3>2, <3>3
  <2>. QED BY <2>1, <2>4, <2>5, <2>6 DEF ContractStep, Steady
<1>2. ASSUME NEW to, Goto(t, to), UNCHANGED job, pc[t] \notin Making, to \notin Making,
             \A q \in Procs \ {t} : held'[q] = held[q]
      PROVE  SameMaking /\ Admitted' = Admitted
  BY <1>2, MakingKept, HandlerFrame, AdmittedAside
<1>3. CASE GiveUpMark(t)
  <2>1. SameMaking /\ Admitted' = Admitted
    BY <1>2, <1>3 DEF GiveUpMark, At, Making, TypeOK
  <2>. QED BY <1>3, <2>1
       DEF GiveUpMark, ContractStep, Steady, SameRecords, SameContainers, SameBudget, NamedRecords, Live
<1>4. CASE GiveUpStop(t)
  <2>1. SameMaking /\ Admitted' = Admitted
    BY <1>2, <1>4, MoveParts DEF GiveUpStop, At, Making
  <2>2. SameContainers
    BY <1>4, StoppingCids DEF GiveUpStop
  <2>. QED BY <1>4, <2>1, <2>2
       DEF GiveUpStop, ContractStep, Steady, SameRecords, SameBudget, NamedRecords, Live
<1>5. CASE GiveUpRemove(t)
  <2>1. SameMaking /\ Admitted' = Admitted
    BY <1>2, <1>5, MoveParts DEF GiveUpRemove, At, Making
  <2>2. SameRecords /\ SameBudget /\ NamedRecords'
    BY <1>5 DEF GiveUpRemove, SameRecords, SameBudget, NamedRecords, Live
  <2>3. PICK ok \in BOOLEAN : Removing(a, held[t], ok)
    BY <1>5 DEF GiveUpRemove
  <2>. QED BY <2>1, <2>2, <2>3, RemovingCids DEF ContractStep, Steady, Removes
<1>6. CASE GiveUpDrop(t)
  <2>1. SameMaking /\ Admitted' = Admitted
    BY <1>2, <1>6, MoveParts DEF GiveUpDrop, At, Making
  <2>2. agents' = [agents EXCEPT ![a] = NoAgent] /\ SameContainers /\ SameBudget
    BY <1>6 DEF GiveUpDrop, SameContainers, SameBudget
  <2>3. NamedRecords' /\ \A b \in Agents : agents'[b].cid = IF b = a THEN 0 ELSE agents[b].cid
    BY <2>2 DEF NamedRecords, Live, NoAgent, TypeOK
  <2>. QED BY <2>1, <2>2, <2>3 DEF ContractStep, Steady, Drops, SameRecords
<1>7. CASE GiveUpForget(t)
  <2>1. SameMaking /\ Admitted' = Admitted
    BY <1>2, <1>7, MoveParts DEF GiveUpForget, At, Making
  <2>. QED BY <1>7, <2>1
       DEF GiveUpForget, ContractStep, Steady, SameRecords, SameContainers, SameBudget, NamedRecords, Live
<1>. QED BY <1>1, <1>3, <1>4, <1>5, <1>6, <1>7 DEF Failure

LEMMA RestartContract ==
  ASSUME NEW m \in Limits, NEW k \in Nat, ContractInv(m, k), NEW r \in Restarters,
         Restart(r), ~CreateSteps(r)
  PROVE  ContractStep(k) /\ NamedRecords'
<1>. DEFINE a == job[r]
<1>. /\ TypeOK /\ CapacityInv(m) /\ (\A b \in Agents : Traced(b)) /\ NamedRecords
     /\ r \in Procs /\ r \in Handlers /\ a \in Agents
  BY ContractParts, StepNames DEF TypeOK
<1>2. ASSUME NEW to, Goto(r, to), UNCHANGED job, pc[r] \in Making <=> to \in Making,
             to \in Making => held'[r] = held[r], \A q \in Procs \ {r} : held'[q] = held[q]
      PROVE  SameMaking /\ Admitted' = Admitted
  BY <1>2, MakingKept, HandlerFrame, AdmittedAside
<1>3. CASE RestartRead(r)
  <2>1. PICK to \in {"stopOld", "idle"} : /\ Goto(r, to) /\ UNCHANGED job /\ pc[r] = "read"
                                         /\ \A q \in Procs \ {r} : held'[q] = held[q]
    BY <1>3, MoveParts DEF RestartRead, At, TypeOK
  <2>2. SameMaking /\ Admitted' = Admitted
    BY <1>2, <2>1 DEF Making
  <2>. QED BY <1>3, <2>2
       DEF RestartRead, ContractStep, Steady, SameRecords, SameContainers, SameBudget, NamedRecords, Live
<1>4. CASE RestartStopOld(r)
  <2>1. SameMaking /\ Admitted' = Admitted
    BY <1>2, <1>4, MoveParts DEF RestartStopOld, At, Making
  <2>2. SameContainers
    BY <1>4, StoppingCids DEF RestartStopOld
  <2>. QED BY <1>4, <2>1, <2>2
       DEF RestartStopOld, ContractStep, Steady, SameRecords, SameBudget, NamedRecords, Live
<1>5. CASE RestartRemoveOld(r)
  <2>1. SameMaking /\ Admitted' = Admitted
    BY <1>2, <1>5, MoveParts DEF RestartRemoveOld, At, Making
  <2>2. SameRecords /\ SameBudget /\ NamedRecords'
    BY <1>5 DEF RestartRemoveOld, SameRecords, SameBudget, NamedRecords, Live
  <2>3. PICK ok \in BOOLEAN : Removing(a, held[r], ok)
    BY <1>5 DEF RestartRemoveOld
  <2>. QED BY <2>1, <2>2, <2>3, RemovingCids DEF ContractStep, Steady, Removes
<1>6. CASE RestartCommit(r) /\ Live(a)
  <2>1. /\ pc[r] = "commit" /\ Goto(r, "save") /\ UNCHANGED job /\ SameContainers /\ SameBudget
        /\ \A q \in Procs \ {r} : held'[q] = held[q]
        /\ agents' = [agents EXCEPT ![a].cid = held[r]]
    BY <1>6, MoveParts DEF RestartCommit, At, SameContainers, SameBudget
  <2>2. LeavesMaking(a, held[r])
    BY <2>1, MakingLeft DEF Making
  <2>3. agents[a].cid # 0 /\ Admitted' = Admitted /\ held[r] # 0
    BY <1>6, <2>1, HandlerFrame, AdmittedAside DEF NamedRecords, Traced, Own, MadeBy, Making
  <2>4. NamedRecords' /\ \A b \in Agents : agents'[b].cid = IF b = a THEN held[r] ELSE agents[b].cid
    BY <2>1, <2>3 DEF NamedRecords, Live, TypeOK
  <2>5. Records(a, held[r])
    BY <2>1, <2>2, <2>3, <2>4 DEF Records
  <2>. QED BY <2>4, <2>5 DEF ContractStep
<1>7. CASE RestartCommit(r) /\ ~Live(a)
  <2>1. /\ pc[r] = "commit" /\ Move(r, "discard") /\ UNCHANGED <<job, agents>> /\ SameContainers /\ SameBudget
    BY <1>7 DEF RestartCommit, At, SameContainers, SameBudget
  <2>2. SameMaking /\ Admitted' = Admitted
    BY <1>2, <2>1, MoveParts DEF Making, Empty
  <2>. QED BY <2>1, <2>2 DEF ContractStep, Steady, SameRecords, NamedRecords, Live
<1>8. CASE RestartSave(r)
  <2>1. SameMaking /\ Admitted' = Admitted
    BY <1>2, <1>8, MoveParts DEF RestartSave, At, Making
  <2>. QED BY <1>8, <2>1
       DEF RestartSave, ContractStep, Steady, SameRecords, SameContainers, SameBudget, NamedRecords, Live
<1>9. CASE RestartDiscard(r)
  <2>1. /\ pc[r] = "discard" /\ Goto(r, "idle") /\ UNCHANGED <<job, agents>> /\ SameBudget
        /\ \A q \in Procs \ {r} : held'[q] = held[q]
    BY <1>9, MoveParts DEF RestartDiscard, At, SameBudget
  <2>2. LeavesMaking(a, held[r])
    BY <2>1, MakingLeft DEF Making
  <2>3. Admitted' = Admitted /\ SameRecords /\ NamedRecords'
    BY <2>1, HandlerFrame, AdmittedAside DEF SameRecords, NamedRecords, Live
  <2>4. PICK ok \in BOOLEAN : Removing(a, held[r], ok)
    BY <1>9 DEF RestartDiscard
  <2>5. Discards(a, held[r])
    BY <2>1, <2>2, <2>3, <2>4, RemovingCids DEF Discards
  <2>. QED BY <2>3, <2>5 DEF ContractStep
<1>. QED BY <1>3, <1>4, <1>5, <1>6, <1>7, <1>8, <1>9 DEF Restart

LEMMA OtherContract ==
  ASSUME NEW m \in Limits, NEW k \in Nat, ContractInv(m, k),
         Check \/ (\E a \in Agents : Environment(a)) \/ UNCHANGED vars
  PROVE  ContractStep(k) /\ NamedRecords'
<1>. TypeOK /\ CapacityInv(m) /\ (\A b \in Agents : Traced(b)) /\ NamedRecords /\ Monitor \in Procs
  BY ContractParts, StepNames
<1>1. UNCHANGED <<agents, made, runs, held>>
  BY DEF Check, MonitorSnapshot, MonitorInspect, Environment, ContainerExits, ContainerRemoved, vars
<1>2. SameRecords /\ SameBudget /\ NamedRecords'
  BY <1>1 DEF SameRecords, SameBudget, NamedRecords, Live
<1>3. \/ UNCHANGED <<pc, job>>
      \/ \E a \in Agents : pc[Monitor] = "idle" /\ Begin(Monitor, a, "fail")
  BY DEF Check, MonitorSnapshot, MonitorInspect, Environment, ContainerExits, ContainerRemoved, vars,
         At, TypeOK
<1>4. SameMaking
  <2>1. \A b \in Agents, q \in Procs : MadeBy(q, b)' <=> MadeBy(q, b)
    BY <1>3 DEF MadeBy, Making, Begin, Goto, TypeOK
  <2>. QED BY <1>1, <2>1 DEF SameMaking, InMaking
<1>5. Admitted' = Admitted
  BY <1>3, AdmittedAside, StepNames, LifecycleAssumption DEF Begin, Goto, Handlers, TypeOK
<1>6. SameContainers \/ \E a \in Agents : ContainerRemoved(a)
  <2>1. ASSUME NEW a \in Agents, ContainerExits(a) PROVE SameContainers
    BY <2>1 DEF ContainerExits, SameContainers, TypeOK
  <2>. QED BY <2>1 DEF Check, MonitorSnapshot, MonitorInspect, Environment, vars, SameContainers
<1>7. ASSUME NEW a \in Agents, ContainerRemoved(a) PROVE Removes(a)
  <2>1. docker[a].cid # 0 /\ \A b \in Agents : docker'[b].cid = IF b = a THEN 0 ELSE docker[b].cid
    BY <1>7 DEF ContainerRemoved, Traced, Ids, Gone, TypeOK
  <2>. QED BY <1>2, <1>4, <1>5, <2>1 DEF Removes
<1>. QED BY <1>2, <1>4, <1>5, <1>6, <1>7 DEF ContractStep, Steady

LEMMA StepContract ==
  ASSUME NEW m \in Limits, NEW k \in Nat, ContractInv(m, k), [Next]_vars
  PROVE  ContractStep(k) /\ ContractInv(m, k)'
<1>1. BudgetInv(m, k)' /\ LeakInv(m)'
  BY StepBudget, StepLeak, ContractParts
<1>2. ContractStep(k) /\ NamedRecords'
  BY <1>1, CreateContract, CommandContract, BeginContract, FailureContract, RestartContract, OtherContract
  DEF Next, Command, Restart
<1>. QED BY <1>1, <1>2 DEF ContractInv

LEMMA InitContract ==
  ASSUME NEW m \in Limits, NEW k \in Nat, Init
  PROVE  ContractInv(m, k) /\ Contract!Init
<1>1. NamedRecords
  BY DEF Init, NamedRecords, Live
<1>2. \A p \in Procs : pc[p] = "idle"
  BY DEF Init
<1>3. Admitted = {} /\ \A a \in Agents : InMaking(a) = {}
  BY <1>2, StepNames DEF Admitted, InMaking, MadeBy, Making, DeploySteps
<1>4. Contract!Init
  BY <1>3 DEF Init, Contract!Init, NoAgent, Gone
<1>. QED BY <1>1, <1>4, InitBudget, InitLeak DEF ContractInv

(* manager.go:57-113, 226-333: the manager, its monitor and any number of   *)
(* concurrent restarts implement AgentContract.                             *)
THEOREM LifecycleImplementsContract == Spec => ImplementsContract
<1>. DEFINE Inv == ContractInv(MaxAgents, 0)
<1>. MaxAgents \in Limits
  BY LifecycleAssumption
<1>1. Init => Inv /\ Contract!Init
  BY InitContract
<1>2. Inv /\ [Next]_vars => Inv'
  BY StepContract
<1>3. Inv /\ [Next]_vars => [Contract!Next]_(Contract!contractVars)
  <2>. SUFFICES ASSUME Inv, [Next]_vars PROVE [Contract!Next]_(Contract!contractVars)
    OBVIOUS
  <2>1. ContractStep(0) /\ TypeOK
    BY StepContract, ContractParts
  <2>. QED BY <2>1, ContractMaps DEF Contract!Next
<1>. QED BY <1>1, <1>2, <1>3, PTL DEF Spec, ImplementsContract, Contract!Spec
=============================================================================
