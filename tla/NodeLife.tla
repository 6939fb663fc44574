------------------------------- MODULE NodeLife -------------------------------
(***************************************************************************)
(* The life of a node around its agents: the start of the daemon with the  *)
(* recovery of its containers (daemon.NewDaemonWithLogger, agent/recover.  *)
(* go), the monitor's loop, Daemon.Shutdown, and a crash at any moment.    *)
(* The agents themselves, their goroutines and Docker are AgentLifecycle;  *)
(* containers live on while the node does not.                             *)
(*                                                                         *)
(* Recovery takes container ids from Docker and only asks the state file   *)
(* which agents it names, so that the file is a set of agents here. A save *)
(* holds the map's lock from the marshalling to the end of the write, and  *)
(* is one step. A file of which only a part was written is one that names  *)
(* nobody: the start it refuses is one that does not happen.               *)
(***************************************************************************)
EXTENDS AgentLifecycle

CONSTANTS
  Closers,      \* workers that may call Shutdown (signal handler, hub "shutdown")
  MaxStarts     \* bound: starts of the node

ASSUME NodeAssumption == Closers \subseteq Workers /\ MaxStarts \in Nat

VARIABLES
  node,      \* "down", "found" (recovering), "up", or "exited" after Shutdown
  starts,    \* how often the node was started
  watch,     \* the monitor's goroutine: "unborn", "on" or "off"
  stopped,   \* ContainerMonitor.stopCh is closed
  shut,      \* shut[c]: where closer c stands in Shutdown
  todo,      \* todo[c]: the agents it listed and has still to stop
  saver,     \* the state saver's loop: "on", "last" (cancelled, with a save still
             \* under way) or "off"
  disk,      \* the agents the state file names
  found,     \* found[a]: the container recovery found, 0 for none
  stirred,   \* ghost: agents another goroutine worked on during a Shutdown
  adopted,   \* ghost: managed agents that a recovery restored although the node
             \* had given their container up or two goroutines had worked on them
  flushed    \* ghost: the final save of a Shutdown succeeded, and none since failed
             \* or was cut short

monitorVars == <<watch, stopped>>
shutdownVars == <<shut, todo>>
storeVars == <<saver, disk>>
ghostVars == <<stirred, adopted, flushed>>
nodeVars == <<node, starts, monitorVars, shutdownVars, storeVars, found, ghostVars>>

ShutdownSteps == {"no", "monitor", "list", "stop", "save", "done"}
Entries == {a \in Agents : saved[a] # 0}
Closing == {c \in Closers : shut[c] # "no"}

NodeTypeOK ==
  /\ TypeOK
  /\ node \in {"down", "found", "up", "exited"}
  /\ starts \in 0 .. MaxStarts
  /\ watch \in {"unborn", "on", "off"}
  /\ stopped \in BOOLEAN
  /\ shut \in [Closers -> ShutdownSteps]
  /\ todo \in [Closers -> SUBSET Agents]
  /\ \A c \in Closers : todo[c] # {} => shut[c] = "stop"
  /\ saver \in {"on", "last", "off"}
  /\ disk \subseteq Agents
  /\ found \in [Agents -> Nat]
  /\ stirred \subseteq Agents /\ adopted \subseteq Agents
  /\ flushed \in BOOLEAN
  /\ node # "up" => Free /\ LiveAgents = {} /\ \A a \in Agents : Quiet(a)

NodeInit ==
  /\ Init
  /\ node = "down" /\ starts = 0
  /\ watch = "unborn" /\ stopped = FALSE
  /\ shut = [c \in Closers |-> "no"] /\ todo = [c \in Closers |-> {}]
  /\ saver = "off" /\ disk = {}
  /\ found = [a \in Agents |-> 0]
  /\ stirred = {} /\ adopted = {} /\ flushed = FALSE

-----------------------------------------------------------------------------
(* The agents' goroutines. shuttingDown is set by Shutdown and read by      *)
(* nobody, so that all of them go on meanwhile.                             *)

Stirring ==
  stirred' = stirred \cup
    IF Closing # {} THEN {a \in Agents : \E p \in Procs \ Closing : WorkOn(p, a)'} ELSE {}

\* A step of theirs. The agents they work on during a Shutdown are stirred.
While(step) ==
  /\ node = "up"
  /\ step
  /\ Stirring
  /\ adopted' = adopted \cap LiveAgents'
  /\ UNCHANGED <<node, starts, monitorVars, shutdownVars, storeVars, found, flushed>>

CommandStep(w) == While(Command(w))

\* A new hub command, a failure, a restart, or the monitor's next Inspect.
OtherStep ==
  \/ \E w \in Workers \ Closing : \E a \in Agents : While(RunBegin(w, a) \/ StopBegin(w, a))
  \/ \E t \in Handlers : While(Failure(t))
  \/ \E r \in Restarters : While(Restart(r))
  \/ While(MonitorInspect)

\* The monitor's goroutine starts with a check, whether it is stopped or not;
\* its select may take a tick although the stop channel is closed.
MonitorTick ==
  /\ node = "up" /\ watch # "off"
  /\ MonitorSnapshot
  /\ watch' = "on"
  /\ UNCHANGED <<node, starts, stopped, shutdownVars, storeVars, found, ghostVars>>

MonitorEnd ==
  /\ watch = "on" /\ stopped /\ At(Monitor, "idle") /\ snap = {}
  /\ watch' = "off"
  /\ UNCHANGED <<vars, node, starts, stopped, shutdownVars, storeVars, found, ghostVars>>

\* StateManager.Save: an error comes before the file is opened, or after it was
\* truncated.
Save(ok) == disk' \in IF ok THEN {Entries} ELSE {disk, {}}

\* The state saver's loop saves, or fails to (see StateStore); once cancelled it
\* only ends the save that is under way.
Persist ==
  /\ node = "up" /\ saver # "off"
  /\ \E ok \in BOOLEAN : Save(ok) /\ flushed' = (flushed /\ ok)
  /\ saver' = IF saver = "last" THEN "off" ELSE saver
  /\ UNCHANGED <<vars, node, starts, monitorVars, shutdownVars, found, stirred, adopted>>

-----------------------------------------------------------------------------
(* Daemon.Shutdown.                                                         *)

\* shuttingDown is set and the hub is told; stirred starts with the agents
\* that are being worked on.
ShutdownBegin(c) ==
  /\ node = "up" /\ shut[c] = "no" /\ At(c, "idle")
  /\ shut' = [shut EXCEPT ![c] = "monitor"]
  /\ stirred' = stirred \cup {a \in Agents : \E p \in Procs \ Closing : WorkOn(p, a)}
  /\ UNCHANGED <<vars, node, starts, monitorVars, todo, storeVars, found, adopted, flushed>>

\* The channel is closed once; nobody waits for the monitor to return.
ShutdownStopMonitor(c) ==
  /\ shut[c] = "monitor"
  /\ stopped' = TRUE
  /\ shut' = [shut EXCEPT ![c] = "list"]
  /\ UNCHANGED <<vars, node, starts, watch, todo, storeVars, found, ghostVars>>

\* The agents are listed once.
ShutdownList(c) ==
  /\ shut[c] = "list" /\ Free
  /\ todo' = [todo EXCEPT ![c] = LiveAgents]
  /\ shut' = [shut EXCEPT ![c] = "stop"]
  /\ UNCHANGED <<vars, node, starts, monitorVars, storeVars, found, ghostVars>>

\* Mutant of ShutdownStop: an agent that could not be stopped is tried again.
ShutdownInsists(c, a) ==
  /\ shut[c] = "stop" /\ At(c, "idle") /\ a \in todo[c] /\ Free
  /\ todo' = [todo EXCEPT ![c] = IF Live(a) THEN @ ELSE @ \ {a}]
  /\ IF Live(a) THEN StopBegin(c, a) ELSE UNCHANGED vars
  /\ UNCHANGED <<node, starts, monitorVars, shut, storeVars, found, ghostVars>>

\* Manager.Stop for each of them; one that is gone, or a failure, is passed over.
ShutdownStop(c, a) ==
  /\ shut[c] = "stop" /\ At(c, "idle") /\ a \in todo[c] /\ Free
  /\ todo' = [todo EXCEPT ![c] = @ \ {a}]
  /\ IF Live(a) THEN StopBegin(c, a) ELSE UNCHANGED vars
  /\ UNCHANGED <<node, starts, monitorVars, shut, storeVars, found, ghostVars>>

\* Mutant of ShutdownFlush: it does not wait for the agents to be stopped.
ShutdownFlushEarly(c) ==
  /\ shut[c] = "stop" /\ At(c, "idle")
  /\ shut' = [shut EXCEPT ![c] = "save"]
  /\ saver' \in IF saver = "on" THEN {"last", "off"} ELSE {saver}
  /\ UNCHANGED <<vars, node, starts, monitorVars, todo, disk, found, ghostVars>>

\* StateSaver.Shutdown cancels the loop and waits five seconds for its end.
ShutdownFlush(c) ==
  /\ shut[c] = "stop" /\ todo[c] = {} /\ At(c, "idle")
  /\ shut' = [shut EXCEPT ![c] = "save"]
  /\ saver' \in IF saver = "on" THEN {"last", "off"} ELSE {saver}
  /\ UNCHANGED <<vars, node, starts, monitorVars, todo, disk, found, ghostVars>>

\* Mutant of ShutdownSave: there is no final save.
ShutdownNoFinalSave(c) ==
  /\ shut[c] = "save"
  /\ shut' = [shut EXCEPT ![c] = "done"]
  /\ flushed' = TRUE
  /\ UNCHANGED <<vars, node, starts, monitorVars, todo, storeVars, found, stirred, adopted>>

\* The final Save, whose error is dropped.
ShutdownSave(c) ==
  /\ shut[c] = "save"
  /\ \E ok \in BOOLEAN : Save(ok) /\ flushed' = ok
  /\ shut' = [shut EXCEPT ![c] = "done"]
  /\ UNCHANGED <<vars, node, starts, monitorVars, todo, saver, found, stirred, adopted>>

\* A save may be under way, which the end of the process cuts short: the loop's,
\* or the final one of a Shutdown.
Saving == saver # "off" \/ \E c \in Closers : shut[c] = "save"

\* What a process loses when it ends.
Dies ==
  /\ mu' = Nobody
  /\ agents' = [a \in Agents |-> NoAgent]
  /\ saved' = [a \in Agents |-> 0]
  /\ pc' = [p \in Procs |-> "idle"]
  /\ held' = [p \in Procs |-> 0]
  /\ snap' = {}
  /\ shut' = [c \in Closers |-> "no"] /\ todo' = [c \in Closers |-> {}]
  /\ watch' = "unborn" /\ stopped' = FALSE
  /\ saver' = "off"
  /\ disk' \in IF Saving THEN {disk, {}} ELSE {disk}
  /\ flushed' = (flushed /\ ~Saving)
  /\ UNCHANGED <<dockerVars, runs, job, overlapped, starts, stirred, adopted>>

\* The context is cancelled: Run returns and the process ends, whatever its
\* goroutines are doing.
Exit(c) ==
  /\ shut[c] = "done"
  /\ Dies
  /\ node' = "exited"
  /\ UNCHANGED found

\* The process is killed.
Crash ==
  /\ node \in {"found", "up"}
  /\ Dies
  /\ node' = "down"
  /\ found' = [a \in Agents |-> 0]

-----------------------------------------------------------------------------
(* NewDaemonWithLogger: the state file is loaded and the containers listed. *)

Start ==
  /\ node \in {"down", "exited"} /\ starts < MaxStarts
  /\ starts' = starts + 1
  /\ saver' = "on"
  /\ saved' = [a \in Agents |-> IF a \in disk THEN 1 ELSE 0]
  /\ stirred' = {} /\ flushed' = FALSE
  /\ UNCHANGED <<mu, agents, docker, made, runs, procVars, watchVars, monitorVars, shutdownVars, disk, adopted>>

RecoverList ==
  /\ Start
  /\ node' = "found"
  /\ found' = [a \in Agents |-> docker[a].cid]
  /\ UNCHANGED left

\* A failed list is logged, and the node starts without its agents.
RecoverListFails ==
  /\ DockerErrors
  /\ Start
  /\ node' = "up"
  /\ left' = [a \in Agents |-> docker[a] # Gone]
  /\ UNCHANGED found

Orphans == {a \in Agents : found[a] # 0 /\ a \notin Entries}

\* The container of an agent that has no entry is stopped (the answer is
\* ignored) and removed; a failure is logged.
RecoverOrphan(a) ==
  /\ node = "found" /\ a \in Orphans
  /\ \E ok \in BOOLEAN : Removing(a, found[a], ok)
  /\ found' = [found EXCEPT ![a] = 0]
  /\ UNCHANGED <<mu, mapVars, made, runs, procVars, watchVars, node, starts, monitorVars, shutdownVars, storeVars, ghostVars>>

Kept == {a \in Entries : found[a] # 0}

Restoring ==
  /\ node = "found"
  /\ node' = "up"
  /\ \E count \in [Kept -> 0 .. MaxRestartAttempts] :
       agents' = [a \in Agents |-> IF a \in Kept
                                   THEN [cid |-> found[a], count |-> count[a]] ELSE NoAgent]
  /\ saved' = [a \in Agents |-> IF a \in Kept THEN found[a] ELSE 0]
  /\ found' = [a \in Agents |-> 0]
  /\ adopted' = {a \in Kept : a \in adopted \/ left[a] \/ overlapped[a]}
  /\ UNCHANGED <<mu, dockerVars, runs, procVars, watchVars, starts, monitorVars, shutdownVars, storeVars, stirred, flushed>>

\* Mutant of RecoverRestore: orphans are left alone.
RecoverKeepsOrphans == Restoring

\* An agent whose container exists is managed again, up or not, whatever the
\* capacity; an entry without a container is removed. The record comes from
\* the file, whose RestartCount may be any earlier one.
RecoverRestore == Orphans = {} /\ Restoring

-----------------------------------------------------------------------------
Shutdown(c) ==
  \/ ShutdownBegin(c) \/ ShutdownStopMonitor(c) \/ ShutdownList(c)
  \/ \E a \in Agents : ShutdownStop(c, a)
  \/ ShutdownFlush(c) \/ ShutdownSave(c) \/ Exit(c)

Recover == RecoverList \/ RecoverListFails \/ RecoverRestore \/ \E a \in Agents : RecoverOrphan(a)

Docker == (\E a \in Agents : Environment(a)) /\ UNCHANGED nodeVars

NodeNext ==
  \/ (\E w \in Workers : CommandStep(w)) \/ OtherStep
  \/ MonitorTick \/ MonitorEnd \/ Persist
  \/ \E c \in Closers : Shutdown(c)
  \/ Crash \/ Recover
  \/ Docker

NodeSpec == NodeInit /\ [][NodeNext]_<<vars, nodeVars>>

(* Commands and a Shutdown go on: every call they make has a timeout. Strong *)
(* fairness where Shutdown waits for m.mu (see AgentLifecycle).              *)
NodeFairness ==
  /\ \A w \in Workers : WF_<<vars, nodeVars>>(CommandStep(w))
  /\ \A c \in Closers : SF_<<vars, nodeVars>>(Shutdown(c))

NodeFairSpec == NodeSpec /\ NodeFairness

-----------------------------------------------------------------------------
(* Properties.                                                              *)

\* recover.go:41-72, manager.go:92-322: over crashes, exits and restarts at any
\* moment, a container without an agent is one the node failed to remove, or
\* lost track of while it ran (NoSilentLeak): recovery removes or adopts every
\* other one.
UpNoSilentLeak == node = "up" => NoSilentLeak

\* recover.go:73-87, manager.go:62: over all lives of the node, it manages no
\* more agents than the capacity allows, except those a recovery brought back
\* although their container was one the node had given up and failed to remove,
\* or two goroutines had worked on the agent at once.
WithinCapacity == Cardinality(LiveAgents \ adopted) <= MaxAgents

\* daemon.go:228-269, state.go:89-99: when the process ends after a Shutdown whose
\* final save succeeded, and no other save failed later or was cut short, no
\* container is without an entry in the file, unless a goroutine worked on that
\* agent during the Shutdown or the node had lost track of it before: the next start
\* finds the container and manages it again.
ShutdownForgetsNothing ==
  \A a \in Agents :
    /\ node = "exited" /\ flushed
    /\ docker[a] # Gone /\ a \notin stirred /\ ~overlapped[a] /\ ~left[a]
    => a \in disk

\* manager.go:234-276, recover.go:77-83: restarts stay bounded over the lives
\* of the node: a start renews at most the restarts of one call of Run.
RestartsBoundedOverLives ==
  \A a \in Agents : made[a] <= MaxRestartAttempts * (runs[a] + starts)

\* manager.go, recover.go:41-87: over all lives of the node nothing can be seen
\* of an agent but NodeContract: what a process leaves behind is its containers;
\* the next start manages every one it has found and not given up, and no other.
Lives == INSTANCE NodeContract WITH
  record <- [a \in Agents |-> agents[a].cid],
  container <- [a \in Agents |-> docker[a].cid],
  making <- [a \in Agents |-> InMaking(a)],
  admitted <- Admitted,
  phase <- IF node = "up" THEN "up" ELSE IF node = "found" THEN "starting" ELSE "off",
  lives <- starts,
  seen <- found

ImplementsNodeContract == Lives!NodeSpec

\* A closer comes nearer to the end of its Shutdown: the next stage, one agent
\* less to stop, or one step of the Stop it is at.
Stage == [no |-> 0, monitor |-> 1, list |-> 2, stop |-> 3, save |-> 4, done |-> 5]

Nearer(c) ==
  \/ Stage[shut'[c]] = Stage[shut[c]] + 1
  \/ UNCHANGED shut[c] /\ todo'[c] \subseteq todo[c] /\ todo'[c] # todo[c]
  \/ /\ UNCHANGED <<shut[c], todo[c]>> /\ pc[c] # "idle"
     /\ pc'[c] = "idle" \/ StepsAfter[pc'[c]] < StepsAfter[pc[c]]

\* daemon.go:228-269: each step of a Shutdown brings it nearer to its end, and
\* nothing the others do takes it back: no agent is listed again or tried twice.
ShutdownOnlyForward ==
  [][\A c \in Closing : node' = "up" =>
       IF Shutdown(c) \/ CommandStep(c) THEN Nearer(c)
       ELSE UNCHANGED <<shut[c], todo[c], pc[c]>>]_<<vars, nodeVars>>

\* daemon.go:228-269: a Shutdown comes to its end whatever Docker answers, with
\* commands, restarts and the monitor still going on.
ShutdownEnds == \A c \in Closers : shut[c] # "no" ~> node # "up"

-----------------------------------------------------------------------------
(* Statements of the repository that the code does not keep.                *)

\* daemon.go:247-248: "Stop container health monitor first to prevent it from
\* triggering restarts while we're shutting down agents": no restart begins
\* once Shutdown has stopped the monitor.
NoRestartOnceStopped ==
  [][stopped => \A r \in Restarters : ~(At(r, "idle") /\ pc'[r] = "read")]_<<vars, nodeVars>>
=============================================================================
