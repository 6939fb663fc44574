---------------------------- MODULE AgentLifecycle ----------------------------
(***************************************************************************)
(* The agents of a node: agent.Manager (internal/agent/manager.go), the    *)
(* ContainerMonitor that watches them (monitor.go) and the Docker calls    *)
(* both make (container.go).                                               *)
(*                                                                         *)
(* Workers run hub commands (daemon.processHubCommand, several at once).   *)
(* Run and Stop hold Manager.mu across their Docker calls. A failure       *)
(* handler and a restart take it only for single steps, and between those  *)
(* everything they remember may be out of date.                            *)
(*                                                                         *)
(* Containers of one agent are numbered in order of creation. Docker keeps *)
(* their names unique, so an agent has at most one container at a time.    *)
(* Agent.Status is left out: it is reported, and no decision reads it.     *)
(***************************************************************************)
EXTENDS Naturals, FiniteSets

CONSTANTS
  Agents,             \* agent ids
  Workers,            \* goroutines that process hub commands
  Restarters,         \* goroutines started by "go m.restartAgent"
  Monitor,            \* the goroutine of ContainerMonitor.Start
  Nobody,             \* the value of mu when it is free
  MaxAgents,          \* cfg.MaxAgents
  MaxRestartAttempts, \* 3 in the code
  DockerErrors,       \* may Docker fail a call it could have carried out?
  MaxRuns             \* bound: calls of Run accepted per agent

Procs == Workers \cup Restarters \cup {Monitor}
Handlers == Restarters \cup {Monitor}

ASSUME LifecycleAssumption ==
  /\ IsFiniteSet(Agents)
  /\ MaxAgents \in Nat
  /\ MaxRestartAttempts \in Nat \ {0}
  /\ MaxRuns \in Nat
  /\ DockerErrors \in BOOLEAN
  /\ Workers \cap Handlers = {}
  /\ Monitor \notin Restarters
  /\ Nobody \notin Procs

VARIABLES
  mu,         \* the worker that holds Manager.mu, or Nobody
  agents,     \* Manager.agents: the container and RestartCount, or NoAgent
  saved,      \* the container of the copy in StateManager.agents; 0: no entry
  docker,     \* the agent's container, or Gone
  made,       \* made[a]: containers created for a so far
  runs,       \* runs[a]: calls of Run accepted for a so far
  pc,         \* pc[p]: where goroutine p stands
  job,        \* job[p]: the agent p works on
  held,       \* held[p]: the container id in p's local variable
  snap,       \* the snapshots checkAll has still to inspect
  left,       \* ghost: left[a] = the node has lost track of a's container
  overlapped  \* ghost: overlapped[a] = two goroutines once worked on a at once

mapVars == <<agents, saved>>
dockerVars == <<docker, made, left>>
procVars == <<pc, job, held>>
watchVars == <<snap, overlapped>>
vars == <<mu, mapVars, dockerVars, runs, procVars, watchVars>>

NoAgent == [cid |-> 0, count |-> 0]
Gone == [cid |-> 0, up |-> FALSE]

Live(a) == agents[a] # NoAgent
LiveAgents == {a \in Agents : Live(a)}
Holds(a, c) == docker[a].cid = c
Misses(a, c) == docker[a] # Gone /\ ~Holds(a, c)
Healthy(a) == docker[a].up /\ Holds(a, agents[a].cid)
Free == mu = Nobody

DeploySteps == {"list", "evict", "create", "start", "undo", "commit"}
CommandSteps == DeploySteps \cup {"stop", "remove", "delete"}
FailureSteps == {"fail", "mark", "stopDead", "removeDead", "drop", "forget"}
RestartSteps == DeploySteps \cup {"read", "stopOld", "removeOld", "save", "discard"}
Steps == {"idle"} \cup CommandSteps \cup FailureSteps \cup RestartSteps
StepsOf(p) ==
  {"idle"} \cup IF p \in Workers THEN CommandSteps
              ELSE IF p = Monitor THEN FailureSteps
              ELSE FailureSteps \cup RestartSteps

TypeOK ==
  /\ mu \in Workers \cup {Nobody}
  /\ agents \in [Agents -> [cid : Nat, count : Nat]]
  /\ saved \in [Agents -> Nat]
  /\ docker \in [Agents -> [cid : Nat, up : BOOLEAN]]
  /\ made \in [Agents -> Nat]
  /\ runs \in [Agents -> 0 .. MaxRuns]
  /\ pc \in [Procs -> Steps] /\ \A p \in Procs : pc[p] \in StepsOf(p)
  /\ job \in [Procs -> Agents]
  /\ held \in [Procs -> Nat]
  /\ snap \subseteq Agents \X Nat
  /\ left \in [Agents -> BOOLEAN]
  /\ overlapped \in [Agents -> BOOLEAN]

Init ==
  /\ mu = Nobody
  /\ agents = [a \in Agents |-> NoAgent]
  /\ saved = [a \in Agents |-> 0]
  /\ docker = [a \in Agents |-> Gone]
  /\ made = [a \in Agents |-> 0]
  /\ runs = [a \in Agents |-> 0]
  /\ pc = [p \in Procs |-> "idle"]
  /\ job \in {[p \in Procs |-> a] : a \in Agents}
  /\ held = [p \in Procs |-> 0]
  /\ snap = {}
  /\ left = [a \in Agents |-> FALSE]
  /\ overlapped = [a \in Agents |-> FALSE]

-----------------------------------------------------------------------------
(* Docker's answers. Stop and Remove of an id that no longer exists fail.   *)

At(p, from) == pc[p] = from
Goto(p, to) == pc' = [pc EXCEPT ![p] = to]
\* p goes on, and forgets a container id it will not use again.
Move(p, to) ==
  /\ Goto(p, to)
  /\ held' = IF to \in {"idle", "list", "create", "fail", "read", "forget"}
             THEN [held EXCEPT ![p] = 0] ELSE held
Release(p) == mu' = IF mu = p THEN Nobody ELSE mu

WorkOn(p, a) == pc[p] # "idle" /\ job[p] = a
Quiet(a) == \A p \in Procs : ~WorkOn(p, a)

\* p begins to work on a.
Begin(p, a, step) ==
  /\ job' = [job EXCEPT ![p] = a]
  /\ Goto(p, step)
  /\ overlapped' = [overlapped EXCEPT ![a] = @ \/ ~Quiet(a)]

Stopping(a, c, ok) ==
  \/ /\ ok /\ Holds(a, c)
     /\ docker' = [docker EXCEPT ![a].up = FALSE]
  \/ /\ ~ok /\ (DockerErrors \/ ~Holds(a, c))
     /\ UNCHANGED docker

\* Remove with Force.
Removing(a, c, ok) ==
  \/ /\ ok /\ Holds(a, c)
     /\ docker' = [docker EXCEPT ![a] = Gone]
     /\ UNCHANGED left
  \/ /\ ~ok /\ (DockerErrors \/ ~Holds(a, c))
     /\ left' = [left EXCEPT ![a] = @ \/ Holds(a, c)]
     /\ UNCHANGED docker

-----------------------------------------------------------------------------
(* DockerManager.Create and Start, as Run and restartAgent call them. When  *)
(* they fail Run returns and a restart goes to HandleContainerFailure.      *)

AfterFailure(p) == IF p \in Workers THEN "idle" ELSE "fail"

\* The container with the agent's name is looked up; a failed list is ignored.
CreateList(p) ==
  /\ At(p, "list")
  /\ \/ /\ docker[job[p]] # Gone
        /\ held' = [held EXCEPT ![p] = docker[job[p]].cid]
        /\ Goto(p, "evict")
     \/ /\ docker[job[p]] = Gone \/ DockerErrors
        /\ Move(p, "create")
  /\ UNCHANGED <<mu, mapVars, dockerVars, runs, job, watchVars>>

\* It is stopped (the answer is ignored) and removed.
CreateEvict(p) ==
  /\ At(p, "evict")
  /\ Removing(job[p], held[p], TRUE)
  /\ Move(p, "create")
  /\ UNCHANGED <<mu, mapVars, made, runs, job, watchVars>>

CreateContainer(p) ==
  LET a == job[p] IN
  /\ At(p, "create") /\ docker[a] = Gone
  /\ made' = [made EXCEPT ![a] = @ + 1]
  /\ docker' = [docker EXCEPT ![a] = [cid |-> made'[a], up |-> FALSE]]
  /\ left' = [left EXCEPT ![a] = FALSE]
  /\ held' = [held EXCEPT ![p] = made'[a]]
  /\ Goto(p, "start")
  /\ UNCHANGED <<mu, mapVars, runs, job, watchVars>>

\* The snapshot to restore, the image, the eviction or the creation fails;
\* the name is taken when another goroutine has created the agent's container.
CreateFails(p) ==
  /\ \/ At(p, "list") /\ DockerErrors
     \/ At(p, "evict") /\ (DockerErrors \/ ~Holds(job[p], held[p]))
     \/ At(p, "create") /\ (DockerErrors \/ docker[job[p]] # Gone)
  /\ Move(p, AfterFailure(p)) /\ Release(p)
  /\ UNCHANGED <<mapVars, dockerVars, runs, job, watchVars>>

StartContainer(p) ==
  /\ At(p, "start")
  /\ \/ /\ Holds(job[p], held[p])
        /\ docker' = [docker EXCEPT ![job[p]].up = TRUE]
        /\ Move(p, "commit")
     \/ /\ DockerErrors \/ ~Holds(job[p], held[p])
        /\ UNCHANGED docker
        /\ Move(p, "undo")
  /\ UNCHANGED <<mu, mapVars, made, left, runs, job, watchVars>>

\* A container that does not start is removed again.
StartUndo(p) ==
  /\ At(p, "undo")
  /\ \E ok \in BOOLEAN : Removing(job[p], held[p], ok)
  /\ Move(p, AfterFailure(p)) /\ Release(p)
  /\ UNCHANGED <<mapVars, made, runs, job, watchVars>>

-----------------------------------------------------------------------------
(* Manager.Run. A call it rejects (no slot, agent present) changes nothing. *)

\* Mutant of RunBegin: the capacity check is off by one.
RunBeginOneMore(w, a) ==
  /\ Free /\ At(w, "idle") /\ runs[a] < MaxRuns
  /\ Cardinality(LiveAgents) <= MaxAgents
  /\ ~Live(a)
  /\ mu' = w
  /\ runs' = [runs EXCEPT ![a] = @ + 1]
  /\ Begin(w, a, "list")
  /\ UNCHANGED <<mapVars, dockerVars, held, snap>>

RunBegin(w, a) ==
  /\ Free /\ At(w, "idle") /\ runs[a] < MaxRuns
  /\ Cardinality(LiveAgents) < MaxAgents
  /\ ~Live(a)
  /\ mu' = w
  /\ runs' = [runs EXCEPT ![a] = @ + 1]
  /\ Begin(w, a, "list")
  /\ UNCHANGED <<mapVars, dockerVars, held, snap>>

RunCommit(w) ==
  /\ At(w, "commit")
  /\ agents' = [agents EXCEPT ![job[w]] = [cid |-> held[w], count |-> 0]]
  /\ saved' = [saved EXCEPT ![job[w]] = held[w]]
  /\ left' = [left EXCEPT ![job[w]] = Misses(job[w], held[w])]
  /\ Move(w, "idle") /\ Release(w)
  /\ UNCHANGED <<docker, made, runs, job, watchVars>>

-----------------------------------------------------------------------------
(* Manager.Stop. The checkpoint it may take first never changes the outcome. *)

StopBegin(w, a) ==
  /\ Free /\ At(w, "idle") /\ Live(a)
  /\ mu' = w
  /\ held' = [held EXCEPT ![w] = agents[a].cid]
  /\ Begin(w, a, "stop")
  /\ UNCHANGED <<mapVars, dockerVars, runs, snap>>

StopContainer(w) ==
  /\ At(w, "stop")
  /\ \E ok \in BOOLEAN :
       /\ Stopping(job[w], held[w], ok)
       /\ IF ok THEN Move(w, "remove") /\ UNCHANGED mu
                ELSE Move(w, "idle") /\ Release(w)
  /\ UNCHANGED <<mapVars, made, left, runs, job, watchVars>>

StopRemove(w) ==
  /\ At(w, "remove")
  /\ \E ok \in BOOLEAN :
       /\ Removing(job[w], held[w], ok)
       /\ IF ok THEN Move(w, "delete") /\ UNCHANGED mu
                ELSE Move(w, "idle") /\ Release(w)
  /\ UNCHANGED <<mapVars, made, runs, job, watchVars>>

StopDelete(w) ==
  /\ At(w, "delete")
  /\ agents' = [agents EXCEPT ![job[w]] = NoAgent]
  /\ saved' = [saved EXCEPT ![job[w]] = 0]
  /\ Move(w, "idle") /\ Release(w)
  /\ UNCHANGED <<dockerVars, runs, job, watchVars>>

-----------------------------------------------------------------------------
(* Manager.HandleContainerFailure, run by the monitor or by a restart that  *)
(* fails. A restart it starts takes an idle restarter, or the one that is   *)
(* about to end here.                                                       *)

Idle == {r \in Restarters : At(r, "idle")}

HandleFailure(t) ==
  LET a == job[t]
      charged == agents[a].count + 1 IN
  /\ At(t, "fail") /\ Free
  /\ \/ /\ ~Live(a)
        /\ Move(t, "idle")
        /\ UNCHANGED <<agents, job>>
     \/ /\ Live(a) /\ charged >= MaxRestartAttempts
        /\ agents' = [agents EXCEPT ![a].count = charged]
        /\ held' = [held EXCEPT ![t] = agents[a].cid]
        /\ Goto(t, "mark")
        /\ UNCHANGED job
     \/ /\ Live(a) /\ charged < MaxRestartAttempts
        /\ agents' = [agents EXCEPT ![a].count = charged]
        /\ \E r \in Idle \cup ({t} \cap Restarters) :
             /\ pc' = [pc EXCEPT ![t] = "idle", ![r] = "read"]
             /\ job' = [job EXCEPT ![r] = a]
        /\ UNCHANGED held
  /\ UNCHANGED <<mu, saved, dockerVars, runs, watchVars>>

\* Giving up: the record is marked dead and its container id read again.
GiveUpMark(t) ==
  LET a == job[t] IN
  /\ At(t, "mark") /\ Free
  /\ held' = [held EXCEPT ![t] = IF Live(a) THEN agents[a].cid ELSE @]
  /\ Goto(t, "stopDead")
  /\ UNCHANGED <<mu, mapVars, dockerVars, runs, job, watchVars>>

GiveUpStop(t) ==
  /\ At(t, "stopDead")
  /\ \E ok \in BOOLEAN : Stopping(job[t], held[t], ok)
  /\ Move(t, "removeDead")
  /\ UNCHANGED <<mu, mapVars, made, left, runs, job, watchVars>>

GiveUpRemove(t) ==
  /\ At(t, "removeDead")
  /\ \E ok \in BOOLEAN : Removing(job[t], held[t], ok)
  /\ Move(t, "drop")
  /\ UNCHANGED <<mu, mapVars, made, runs, job, watchVars>>

\* Whatever record the agent has by now is deleted.
GiveUpDrop(t) ==
  LET a == job[t]
      cid == agents[a].cid IN
  /\ At(t, "drop") /\ Free
  /\ agents' = [agents EXCEPT ![a] = NoAgent]
  /\ left' = [left EXCEPT ![a] = @ \/ (Live(a) /\ cid # held[t] /\ Holds(a, cid))]
  /\ Move(t, "forget")
  /\ UNCHANGED <<mu, saved, docker, made, runs, job, watchVars>>

\* Mutant of GiveUpForget: the saved entry of a dropped agent is kept.
GiveUpKeepsSaved(t) ==
  /\ At(t, "forget")
  /\ Move(t, "idle")
  /\ UNCHANGED <<mu, mapVars, dockerVars, runs, job, watchVars>>

GiveUpForget(t) ==
  /\ At(t, "forget")
  /\ saved' = [saved EXCEPT ![job[t]] = 0]
  /\ Move(t, "idle")
  /\ UNCHANGED <<mu, agents, dockerVars, runs, job, watchVars>>

-----------------------------------------------------------------------------
(* Manager.restartAgent, from the record's container id to the new record.  *)

RestartRead(r) ==
  LET a == job[r] IN
  /\ At(r, "read") /\ Free
  /\ IF Live(a)
     THEN Goto(r, "stopOld") /\ held' = [held EXCEPT ![r] = agents[a].cid]
     ELSE Move(r, "idle")
  /\ UNCHANGED <<mu, mapVars, dockerVars, runs, job, watchVars>>

RestartStopOld(r) ==
  /\ At(r, "stopOld")
  /\ \E ok \in BOOLEAN : Stopping(job[r], held[r], ok)
  /\ Move(r, "removeOld")
  /\ UNCHANGED <<mu, mapVars, made, left, runs, job, watchVars>>

RestartRemoveOld(r) ==
  /\ At(r, "removeOld")
  /\ \E ok \in BOOLEAN : Removing(job[r], held[r], ok)
  /\ Move(r, "list")
  /\ UNCHANGED <<mu, mapVars, made, runs, job, watchVars>>

\* Mutants of RestartCommit: a restart clears RestartCount; the container of
\* an agent deleted meanwhile is not removed; that agent is brought back.
RestartResetsCount(r) ==
  LET a == job[r] IN
  /\ At(r, "commit") /\ Free
  /\ IF Live(a)
     THEN /\ agents' = [agents EXCEPT ![a] = [cid |-> held[r], count |-> 0]]
          /\ left' = [left EXCEPT ![a] = Misses(a, held[r])]
          /\ Move(r, "save")
     ELSE UNCHANGED <<agents, left>> /\ Move(r, "discard")
  /\ UNCHANGED <<mu, saved, docker, made, runs, job, watchVars>>

RestartKeepsOrphan(r) ==
  LET a == job[r] IN
  /\ At(r, "commit") /\ Free
  /\ IF Live(a)
     THEN /\ agents' = [agents EXCEPT ![a].cid = held[r]]
          /\ left' = [left EXCEPT ![a] = Misses(a, held[r])]
          /\ Move(r, "save")
     ELSE UNCHANGED <<agents, left>> /\ Move(r, "idle")
  /\ UNCHANGED <<mu, saved, docker, made, runs, job, watchVars>>

RestartRevives(r) ==
  LET a == job[r] IN
  /\ At(r, "commit") /\ Free
  /\ agents' = [agents EXCEPT ![a].cid = held[r]]
  /\ left' = [left EXCEPT ![a] = Misses(a, held[r])]
  /\ Move(r, "save")
  /\ UNCHANGED <<mu, saved, docker, made, runs, job, watchVars>>

RestartCommit(r) ==
  LET a == job[r] IN
  /\ At(r, "commit") /\ Free
  /\ IF Live(a)
     THEN /\ agents' = [agents EXCEPT ![a].cid = held[r]]
          /\ left' = [left EXCEPT ![a] = Misses(a, held[r])]
          /\ Move(r, "save")
     ELSE UNCHANGED <<agents, left>> /\ Move(r, "discard")
  /\ UNCHANGED <<mu, saved, docker, made, runs, job, watchVars>>

\* A copy of the record as it was at the commit.
RestartSave(r) ==
  /\ At(r, "save")
  /\ saved' = [saved EXCEPT ![job[r]] = held[r]]
  /\ Move(r, "idle")
  /\ UNCHANGED <<mu, agents, dockerVars, runs, job, watchVars>>

RestartDiscard(r) ==
  /\ At(r, "discard")
  /\ \E ok \in BOOLEAN : Removing(job[r], held[r], ok)
  /\ Move(r, "idle")
  /\ UNCHANGED <<mu, mapVars, made, runs, job, watchVars>>

-----------------------------------------------------------------------------
(* ContainerMonitor.checkAll: a snapshot of the records under the lock, then *)
(* one Inspect for each, in the order of a Go map. Any error counts as a     *)
(* missing container.                                                        *)

MonitorSnapshot ==
  /\ At(Monitor, "idle") /\ snap = {} /\ Free
  /\ snap' = {<<a, agents[a].cid>> : a \in LiveAgents}
  /\ UNCHANGED <<mu, mapVars, dockerVars, runs, procVars, overlapped>>

\* Mutant of MonitorInspect: a container that exited is not a failure.
MonitorIgnoresExits ==
  /\ At(Monitor, "idle")
  /\ \E s \in snap :
       /\ snap' = snap \ {s}
       /\ \/ Holds(s[1], s[2]) /\ UNCHANGED <<pc, job, overlapped>>
          \/ /\ DockerErrors \/ ~Holds(s[1], s[2])
             /\ Begin(Monitor, s[1], "fail")
  /\ UNCHANGED <<mu, mapVars, dockerVars, runs, held>>

MonitorInspect ==
  /\ At(Monitor, "idle")
  /\ \E s \in snap :
       LET running == docker[s[1]].up /\ Holds(s[1], s[2]) IN
       /\ snap' = snap \ {s}
       /\ \/ running /\ UNCHANGED <<pc, job, overlapped>>
          \/ /\ DockerErrors \/ ~running
             /\ Begin(Monitor, s[1], "fail")
  /\ UNCHANGED <<mu, mapVars, dockerVars, runs, held>>

-----------------------------------------------------------------------------
(* What Docker does by itself.                                              *)

\* The process in the container ends, or is killed.
ContainerExits(a) ==
  /\ docker[a].up
  /\ docker' = [docker EXCEPT ![a].up = FALSE]
  /\ UNCHANGED <<mu, mapVars, made, left, runs, procVars, watchVars>>

\* Somebody else removes the container.
ContainerRemoved(a) ==
  /\ docker[a] # Gone
  /\ docker' = [docker EXCEPT ![a] = Gone]
  /\ UNCHANGED <<mu, mapVars, made, left, runs, procVars, watchVars>>

-----------------------------------------------------------------------------
CreateSteps(p) ==
  \/ CreateList(p) \/ CreateEvict(p) \/ CreateContainer(p) \/ CreateFails(p)
  \/ StartContainer(p) \/ StartUndo(p)

Command(w) ==
  \/ CreateSteps(w) \/ RunCommit(w)
  \/ StopContainer(w) \/ StopRemove(w) \/ StopDelete(w)

Failure(t) ==
  \/ HandleFailure(t) \/ GiveUpMark(t) \/ GiveUpStop(t) \/ GiveUpRemove(t)
  \/ GiveUpDrop(t) \/ GiveUpForget(t)

Restart(r) ==
  \/ RestartRead(r) \/ RestartStopOld(r) \/ RestartRemoveOld(r) \/ CreateSteps(r)
  \/ RestartCommit(r) \/ RestartSave(r) \/ RestartDiscard(r)

Check == MonitorSnapshot \/ MonitorInspect

Environment(a) == ContainerExits(a) \/ ContainerRemoved(a)

Next ==
  \/ \E w \in Workers : \/ Command(w)
                        \/ \E a \in Agents : RunBegin(w, a) \/ StopBegin(w, a)
  \/ \E t \in Handlers : Failure(t)
  \/ \E r \in Restarters : Restart(r)
  \/ Check
  \/ \E a \in Agents : Environment(a)

Spec == Init /\ [][Next]_vars

(* Every goroutine that has begun goes on and the monitor's ticker fires.   *)
(* Strong fairness where m.mu is taken: a Go mutex hands itself to a waiter *)
(* that has starved for a millisecond, however often others take it.        *)
Fairness ==
  /\ \A w \in Workers : WF_vars(Command(w))
  /\ \A t \in Handlers : SF_vars(Failure(t))
  /\ \A r \in Restarters : SF_vars(Restart(r))
  /\ SF_vars(Check)

FairSpec == Spec /\ Fairness

-----------------------------------------------------------------------------
(* Properties.                                                              *)

\* manager.go:62 and 317-326: the node never manages more agents than its
\* capacity, whatever restarts are under way: Run alone adds a record, under
\* the lock, and a restart whose agent is gone does not bring it back.
CapacityRespected == Cardinality(LiveAgents) <= MaxAgents

\* manager.go:234-276: restarts are bounded for ever: a call of Run leads to
\* at most MaxRestartAttempts containers, through any interleaving of
\* failures, concurrent restarts, Stops and new Runs.
RestartBudget == \A a \in Agents : made[a] <= MaxRestartAttempts * runs[a]

\* manager.go:57-162: Manager.mu is held by a worker that is inside Run or Stop,
\* and by one at most.
HolderWorks == \A w \in Workers : mu = w <=> pc[w] # "idle"

\* The steps a worker takes with the lock after the one it is at, at most.
StepsAfter ==
  [list |-> 4, evict |-> 3, create |-> 2, start |-> 1, undo |-> 0, commit |-> 0,
   stop |-> 2, remove |-> 1, delete |-> 0]

\* manager.go:57-162: whoever holds Manager.mu comes nearer to giving it back with
\* each of its steps, whatever Docker answers, and nobody else moves it or takes
\* the lock from it.
GivesBack(w) ==
  \/ mu' = w /\ pc'[w] = pc[w] /\ ~Command(w)
  \/ mu' = w /\ pc'[w] # "idle" /\ StepsAfter[pc'[w]] < StepsAfter[pc[w]]
  \/ mu' = Nobody /\ pc'[w] = "idle" /\ Command(w)

LockGivenBack == [][\A w \in Workers : mu = w => GivesBack(w)]_vars

\* manager.go:92, 263, 309, 322: a container that outlives its agent is one
\* the node failed to remove, one that a goroutine had replaced when another
\* wrote the id of the older one into the record, or the one a record named
\* when a failure handler that had removed an older one deleted that record.
NoSilentLeak ==
  \A a \in Agents : Quiet(a) /\ ~Live(a) /\ docker[a] # Gone => left[a]

\* manager.go:108, 159, 271, 332: as long as no two goroutines worked on an
\* agent at once, the entry the state file gets is the agent's record, and an
\* agent that is gone has no entry.
SavedMatches ==
  \A a \in Agents : Quiet(a) /\ ~overlapped[a] =>
    saved[a] = agents[a].cid

\* manager.go:57-113, 226-333: whatever goroutines work on an agent at once,
\* nothing can be seen of it but AgentContract: a container is made only when
\* there is none and a call of Run still pays for it; only one that was just
\* made enters the record, each once; and only Run adds a record.
Making == {"start", "undo", "commit", "discard"}
MadeBy(p, a) == job[p] = a /\ pc[p] \in Making
InMaking(a) == {held[p] : p \in {q \in Procs : MadeBy(q, a)}}
Admitted == {job[w] : w \in {v \in Workers : pc[v] \in DeploySteps}}

Contract == INSTANCE AgentContract WITH
  record <- [a \in Agents |-> agents[a].cid],
  container <- [a \in Agents |-> docker[a].cid],
  making <- [a \in Agents |-> InMaking(a)],
  admitted <- Admitted

ImplementsContract == Contract!Spec

\* monitor.go:69-139: an agent whose container is not running does not stay
\* so: it gets a running container again or is dropped.
FailedAgentHandled ==
  \A a \in Agents : (Live(a) /\ ~Healthy(a)) ~> (~Live(a) \/ Healthy(a))
=============================================================================
