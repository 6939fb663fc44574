# Zion node: specifications, model checking and proofs

This directory holds TLA+ specifications of the Zion node (`src/`, a Go daemon
that runs AI agents as Docker containers on behalf of a hub), the TLC
configurations that check them on small instances, and theorems about them that
TLAPS checks for every value of the constants. Paths such as `manager.go:226`
are relative to `src/internal/<package>/`; `main.go` is `src/cmd/zion-node/main.go`.

`PROJECT.json` maps every definition to the source lines it stands for, and lists
the runs, the mutated definitions that show that each property can fail, the
hazards of the code and the theorems.

## 1. The system

One process, many goroutines. The daemon's heartbeat loop talks to the hub; each
heartbeat's answer carries commands, and each command runs in a goroutine of its
own. A monitor looks at the containers every 15 seconds, a saver goroutine
writes the state file, and restarts run in goroutines started by the failure
handler. All of them share `agent.Manager`, whose lock is held across Docker
calls in some operations and released between them in others. With the terminal
interface the daemon is a goroutine beside the program's loop.

    main (PID lock, configuration) --> tui (wizard, logs, rewards) --setupDone--+
      |                                                                         v
    hub  <--heartbeat, upload, download-->  hub.Client <-- Daemon.heartbeatLoop
                                                              | commands (goroutines)
    Docker  <--DockerManager--  agent.Manager  <--------------+
                                  ^   |  ^                    |
              ContainerMonitor ---+   |  +-- restartAgent     +--> snapshot.Engine --> files, hub
                                      v
                              StateManager/StateSaver --> state file --> RecoverFromDocker

| Component | State | Operations | What is hard | What makes it correct | Module |
|---|---|---|---|---|---|
| Agent lifecycle: `agent/manager.go`, `container.go` | `agents` map, `RestartCount`, the containers | Run, Stop, HandleContainerFailure, restartAgent | Run and Stop hold the lock across Docker calls, failure handling and restarts do not; any Docker call may fail; several restarts of one agent at once | capacity; bounded restarts; no container left behind silently; state file agrees with the map; a failed agent is dealt with | `AgentLifecycle`, promised by `AgentContract` |
| Container monitor: `agent/monitor.go` | copies of container ids, `stopCh` | checkAll, Start, Stop | works on ids of an earlier moment, runs the failure handler inline, nobody waits for it | charges cost no more than the restarts of one Run | `AgentLifecycle`, `NodeLife` |
| State store: `agent/state.go`, `state_saver.go` | map, `pending`, channel, file | SaveAgent, RemoveAgent, TriggerSave, saveLoop, Save, Shutdown, Load | debouncing flag against map changes, retries, `os.WriteFile` truncates first, shutdown with a 5 s wait, crashes | no change forgotten, shutdown durable, what is on disk is a map the node had | `StateStore`, `DurableMap` |
| Recovery, start, shutdown: `agent/recover.go`, `daemon.go:31-269` | state file, Docker's containers, `shuttingDown` | NewDaemonWithLogger, RecoverFromDocker, Run, Shutdown | a crash between any two steps; everything goes on during Shutdown | nothing forgotten over crashes and exits; capacity; bounded restarts over all lives; Shutdown ends | `NodeLife`, promised by `NodeContract` |
| Hub link: `daemon/daemon.go`, `hub/client.go` | token and expiry, status, counters, interval | auto-login, register, heartbeat, back-off, renewal | hub failing and returning, expiry against outages, hysteresis | status follows history, no flapping, back-off in range, the token survives short outages | `HubLink` |
| Hub commands: `daemon.go:318-656`, `http/client.go` | batch, semaphore, signing key, one context per command | processHubCommand and the seven kinds | five at once, a loop that waits for all, lost answers, a shutdown from within | only signed commands, every command ends, the node comes back online, no heartbeat after a hub's shutdown | `HubSession`; what the commands do: `AgentLifecycle`, `SnapshotEngine` |
| Snapshot engine: `snapshot/engine.go` | agent directory, temporary archive, snapshot file | Create, Restore | shared files, a pause as the only lock, a context that ends, every step may fail | exclusive and consistent snapshots, the container is resumed, a failed download never costs the directory | `SnapshotEngine` |
| PID lock and process control: `main.go:183-618` | PID file, processes, binary | start, stop, update | create then write; read then remove; process ids are used again; half an update | the file names the node that runs; the binary stays whole | `NodeProcess` |
| Configuration: `config/` | - | defaults, environment, cap by memory, validation | zero and negative values, a division before the validation | the capacity of a node that runs fits its machine | `NodeConfig` |
| Terminal interface: `tui/`, `main.go:620-784` | ring buffer, channel, wizard, pages of rewards | Fire, Entries, Update, Tick, answers of fetches | lines stored under the lock and announced without it; a channel closed by a message that may come twice; answers that overtake each other | no lost wake-up; the daemon starts with a whole wallet; the page on the screen becomes the one it names | `LogView`, `Terminal` |
| Wallet and signatures: `crypto/` | keys, token | login, signature check | - | cryptography is out of reach: a login is one step, a signature valid or not | `HubLink`, `HubSession`, `Terminal` |
| Errors, logger, paths, types, test doubles | - | - | - | no behaviour of their own | - |

## 2. Modules

    DurableMap <--refines-- StateStore     <- MCStateStore,     StateStoreProofs
    AgentContract <--refines-- AgentLifecycle <- MCAgentLifecycle, AgentLifecycleProofs
      ^-- extended by --         ^-- extended by --
    NodeContract  <--refines-- NodeLife    <- MCNodeLife,       NodeLifeProofs
    HubLink                                <-                   HubLinkProofs
      ^-- extended and refined by -- HubSession <- MCHubSession, HubSessionProofs
    SnapshotEngine                         <- MCSnapshotEngine, SnapshotEngineProofs
    NodeConfig <-- NodeProcess             <- MCNodeProcess,    NodeProcessProofs
    LogView <--extended and refined by-- Terminal <- MCTerminal, TerminalProofs

A definition whose comment begins with "Mutant of" is a plausible bug, used only to show
that a property notices it; no specification refers to it.

### AgentLifecycle

Goroutines are `Workers` (hub commands), the `Monitor` and `Restarters`
(`go m.restartAgent`); `pc[p]` says between which two calls a goroutine stands,
`job[p]` and `held[p]` are its agent and its local container id. `mu` is
`Manager.mu`: Run and Stop hold it from their first to their last step
(manager.go:57-162); HandleContainerFailure and restartAgent take it for single
steps only (their guard is `Free`), and act on what they remember in between.
`agents[a]` is the record (container id and RestartCount), `saved[a]` the entry
of `StateManager.agents`, `docker[a]` the one container that has the agent's
name. Every Docker call - list, stop, remove, create, start, inspect - is a step
that may succeed, fail because the id is gone, or (if `DockerErrors`) just fail.

Abstractions. A call that fails has no effect: Docker answers an error for a
request it did carry out is not covered. An agent's containers share a name, so
one exists at a time. `Agent.Status` is reported and never read, and is left out.
Two ghosts: `left[a]` (the node has lost track of the container in one of the ways
the code accepts) and `overlapped[a]` (two goroutines once worked on `a` at once).

### AgentContract and NodeContract

What is left of an agent when goroutines, the lock, and Docker's answers are hidden. `AgentContract` has for each agent
the container its record names, the one that exists, and those that were made and are not yet recorded or given up
(`making`). `Make` needs an agent without a container and a budget that is not spent; `Record` takes a container from
`making`, once, and adds a record only for the call of Run that was accepted with a free slot (`admitted`);
`Discard`, `Drop` and `Remove` give up the container in the making, the record, the container. What it forbids: a second
container beside the first, a record that comes back from a restart after the agent was stopped, a record of a container
nobody made, a restart nobody paid for. `NodeContract` adds the lives: an end of the process takes everything but
the containers, a start takes stock of them (`seen`), gives some up, and manages exactly the others.
`AgentLifecycle` and `NodeLife` implement them; of the records and containers the mapping takes the ids; `making` is
what the goroutines between "start" and the commit, undo or discard hold (`InMaking`), `admitted` the agent of the worker in Run.
The contracts say nothing of time: that a failed agent is dealt with, or a Shutdown ends, are properties of the modules themselves.

### StateStore and DurableMap

A map is named by the number of the change that made it. The saver goroutine is
stepped through `pending`, the channel of capacity one, the clearing of the flag,
marshalling, the open with truncation and the write of `os.WriteFile`, retries and
the exit; callers through map change and trigger; any number of `Shutdown` calls
through cancel, wait and final save. The node may die between any two steps: a file
is `whole`, `empty` (truncated) or `torn`; a torn file refuses the next start
(daemon.go:70-76), an empty one is read as no state.
`DurableMap` is the abstract promise: what reaches the disk is the map in memory of
that moment, and a restart resumes from the disk or from nothing. `StateStore`
implements it with `disk <- file.ver`.

### NodeLife

`NodeLife` puts the daemon around `AgentLifecycle`, whose steps it takes only while the
node is up (`While`), and whose containers (`docker`, `left`) live on when it is not.
`Start`, `RecoverList`, `RecoverOrphan` and `RecoverRestore` are NewDaemonWithLogger and
RecoverFromDocker: the listing, one stop and remove for each container without an entry
(either may fail), then the records. `MonitorTick` and `MonitorEnd` are the monitor's
goroutine: it checks once before it looks at `stopCh`, and its `select` may take a tick
although the channel is closed. `Shutdown(c)` is Daemon.Shutdown, for a closer `c`
(the signal handler or a hub command): `shuttingDown`, `monitor.Stop`, one listing of the
agents, `Manager.Stop` for each, the end of the saver's loop (`ShutdownFlush`: cancelled, and waited for five seconds,
so that a save may still be under way: `saver = "last"`), the final save, whose error is dropped; `Exit` is the end of the
process and `Crash` its end at any other moment. Every save may fail, before it opens the file or after it truncated it
(`Save`), and the end of the process, by `Exit` or `Crash`, may cut one short that is under way (`Saving`).
Nothing is disabled by a Shutdown, because nothing in the code reads `shuttingDown`.

Abstractions. The state file is the set of agents it names (`disk`): recovery takes the
container ids from Docker (recover.go:73-83). What the saver promises is proved in `StateStore`;
here a save that succeeds writes the entries of that moment in one step (it holds the map's lock until the file is
written), and one that fails or is cut short leaves the file as it was or naming nobody. A torn file refuses the next start
(`StateStore`), which is the same as one that names nobody and a start that does not come.
The restart count of a restored record is any count up to the limit, because the file may be
older than the last restart. The code shares one record between the two maps after a
recovery (recover.go:82-83) and copies it everywhere else; since only recovery and restarts
replace a record and every field read from the saved one is its existence, this is the same here.
The ghost `flushed` says that the final save of a Shutdown succeeded and that none since failed or was cut short: without
it a Shutdown promises nothing, because `StateManager.Shutdown` drops the error (state.go:96-99). The ghost `stirred` holds the agents another goroutine worked on during a Shutdown. The ghost
`adopted` holds the managed agents that a recovery brought back although the node had given
their container up (`left`) or two goroutines had worked on them at once.
The model shows how a node comes to manage more agents than its capacity: an agent is given up
while a restart still makes a container for it, or its container cannot be removed; its record is
dropped, another agent takes the slot, and the file is written before the entry of the first is
deleted (manager.go:269-271), or after a late restart has saved it again. If the process ends then, the next start finds
both entries and both containers and restores both. `WithinCapacity` says that nothing else
exceeds the capacity: without the adopted agents it is kept over all lives.

### HubLink

One goroutine: login, registration, first heartbeat, then sleep - heartbeat -
renewal. Intervals are real seconds (the jitter is any integer the division
allows, daemon.go:303-309: a failing node whose normal interval is above three quarters of the cap beats faster than a
healthy one, which is why `BackoffInRange` bounds it by the smaller of the two); token lifetimes are ticks that pass in `Sleep`. The hub
is up or down, and accepts a heartbeat that carries a valid token.
Abstractions: the wallet is there; the hub's registration record is not modelled
(a heartbeat of an unregistered node is a failed one).

### HubSession

`HubSession` adds to the loop what it carries: the signing key (asked for once, before the
registration), the batch of an answer (`Receive`, lost with the answer), a goroutine per
command that needs one of `PoolSize` places (`Spawn` ... `End`), verification, reports, the
hub's `shutdown` and the signal handler. `CommandsDone` is `wg.Wait`: the loop neither
sleeps nor renews before. `Renew` may end the process: `SetHeader` writes the header map
while the refresh of the mining reward, started by the same heartbeat, may read it.
What a command does takes a while here and succeeds or fails.
The model shows two things a reader of the code may not expect: a node that did not get the
signing key verifies nothing as long as it runs, and after a signal's Shutdown
has taken the node off the hub's list, heartbeats go on until the context is cancelled.

### SnapshotEngine

One agent: its directory, container, snapshot file and the snapshots the hub has.
`Commands` are goroutines processing checkpoint, migrate_out, stop (with or without
a checkpoint) and run (with or without a snapshot); `pc[c]` names the next call of
Create, Restore, Stop or Run. A content is the set of versions of the directory its
files come from: `{v}` is consistent, `{}` is partial, `{0}` are foreign bytes; a SHA-256
reference is identified with the content it is the hash of. `tmp` is the set of commands
writing the one temporary archive (engine.go:279): whoever closes it while others have
it open gets a partial file. `expired[c]` says that the command's context is done: Docker
and HTTP calls then fail, file operations do not notice. `ResumeAttempts` counts the
deferred resumes. Restarts and giving up are coarse steps of the environment: a restart replaces
the container at any moment and records it when the lock is free, which is also when giving
up happens; `AgentLifecycle` has their detail.
The ghost `disturbed[c]` marks a Create during which another command was inside Create
or inside a restore of the directory, which can happen once the container has been replaced.
Abstractions: expiry is looked at only before calls; walking the directory is two reads
(begin and end); the configuration files that `DockerManager.Create` writes are not part
of the content; the tar format and the CRC32 are left out.

### NodeConfig and NodeProcess

`NodeConfig` has no state: it is what config.Load, the capacity cap and the validation do with
the numbers of the file and of the environment, and how the directory of the PID file is found.
`NodeProcess` runs it: each of the `Nodes` is a process that loads its configuration (which
may panic, main.go ends), creates the PID file (`O_EXCL`), or reads the one that is there (`AcquireRead`), looks the
process up (`AcquireLook`) and overwrites the file if it is empty, unreadable or names no process; works; and removes the
file when it ends in order. `Stopper` is the command stop (`StopRead`, `StopLook`, then `StopSignal`, or `StopClean` for a
stale file, or `StopStat` for an invalid one) and `Updater` the command update (read, look, copy, rename over the binary).
Reading, looking and acting are separate steps, and what a process has read is in `seen` until it acts on it: meanwhile the
node it read of may end, and another one create the file. Process ids are given out anew, and
a pid in the file may be a stranger's (phase `"stranger"`).
The ghost `overtaken` holds the processes whose look at the file is out of date because a node was writing the file then or
began to since; `raced` says that one of them overwrote or removed it.
Abstractions: one configuration and machine for all nodes of a behaviour (the inputs of an instance
are a set of such machines); one updater at a time (two would share the copy, which is a listed hazard).
Two comments were found to differ from the code and are modelled as the code is:
main.go:183 gives the order flag, configuration, environment for the wallet's directory, the code
takes flag, environment, configuration; and the daemon does not look at `--wallet-dir` at all,
so that `stop --wallet-dir X` looks for a file the node never writes.

### LogView and Terminal

`LogView` is the path of a log line: stored under the lock (`Fire`), announced without it through a channel of capacity one
that drops what it cannot hold (`Notify`), read by `waitForLog` (`Receive`), shown by the program's loop (`ShowLogs`).
A line is its number and level. The filter compares levels literally: `WARN` shows nothing, because logrus calls that level `WARNING`, and every
other filter shows only lines of that one level, although the tab's label reads "Level: ≥ " and the level (logs.go:121).
`Terminal` is the program's loop with its keys and messages, the wizard, the daemon that waits for `setupDone`, and the rewards.
A step handles one message. `LoadAndReturn` has the order the Go specification leaves open: in
`return m, m.reward.load()` the model may be copied before `load` sets its flag. An answer to a fetch carries no page.
Seen while modelling: NeedsSetup asks only whether a wallet file exists, so a broken one starts the daemon without the wizard;
the program goes on when Daemon.Run has failed or the hub has shut the daemon down.
Abstractions: the Dashboard and the Wallet tab only render; the three wizard paths are pages; a fetch bound (`MaxFetches`) caps the goroutines of one page.

## 3. What is checked

| Run | Instance | States | Shows |
|---|---|---|---|
| `state_store` | 2 callers, 2 closers, 1 retry, 3 changes | 261,225 | `NoLostUpdate`, `ShutdownDurable`, refinement of `DurableMap`, `EventuallySaved` |
| `agent_lifecycle` | 1 agent, 1 worker, 2 restarts, 2 runs, Docker errors | 2.4 M (reduced by symmetry) | `RestartBudget`, `NoSilentLeak`, `SavedMatches` |
| `agent_liveness` | 1 agent, 2 restarts, 1 run, Docker errors, fairness | 83 k | `FailedAgentHandled` |
| `node_life` | 1 agent, 1 worker, 1 closer, 1 restarter, 2 restarts allowed, 1 run, 2 starts, crashes, failing saves, Docker errors, fairness | 362 k | `UpNoSilentLeak`, `ShutdownForgetsNothing`, `RestartsBoundedOverLives`, refinement of `NodeContract`, `ShutdownEnds` |
| `node_capacity` | 2 agents, 1 slot, 1 worker, 1 restarter, 2 restarts allowed, 1 run each, 2 starts, crashes, failing saves | 1.9 M (reduced by symmetry) | `WithinCapacity` |
| `hub_session` | interval 4 s, cap 12 s, life 2 and threshold 1 ticks, 1 outage, 3 commands (deployment, forged deployment, shutdown), 2 places, fairness | 406 k | status, back-off, token, `OnlySigned`, `HubShutdownIsLast`, `EveryCommandEnds`, `BackOnlineWithCommands` |
| `snapshot` | 2 commands, 2 resume attempts, 2 versions, 2 containers, 2 stored snapshots, Docker errors | 2.2 M (reduced by symmetry) | `PauseExcludes`, `SnapshotConsistent`, `ResumedUnlessTried`, `MigratedIsStored`, `RestoreVerified` |
| `node_process` | 2 nodes, 3 launches, a stop, an update, 5 machines | 2.4 M (reduced by symmetry) | `LockNamesTheNode`, `CapacityFitsMachine`, `InstalledWhole` |
| `terminal` | 1 writer, 3 lines into a buffer of 2, 2 pages, 1 fetch per page, fairness | 989 k | `NoLostWakeup`, `DaemonNeedsWallet`, `ClosedOnce`, `PageSettles` |

and three runs that find a statement of the repository violated:

| Run | Statement | What the code does |
|---|---|---|
| `paused_for_ever` | engine_unit_test.go:256-257: "Container should be resumed after snapshot" | once the context of the command is done, all attempts to resume fail at once, and nothing else resumes the container |
| `one_node` | main.go:536: "Uses O_CREATE\|O_EXCL for atomic creation to avoid TOCTOU races" | the file is empty until the pid is written; a second start finds it invalid, takes it over and runs too |
| `restart_at_shutdown` | daemon.go:247-248: the monitor is stopped first "to prevent it from triggering restarts" | Stop closes a channel and does not wait: the check in progress, and a first check, still start restarts |

The models show more disagreements, which have no run of their own:
scalability_test.go:149-150 says that concurrent failures of one agent "don't run two restarts", while
manager.go:276 starts one for each failure below the limit (`AgentLifecycle!Failure`);
monitor.go:17-18 says that failures are charged for containers "that have exited unexpectedly", while an
id copied before a Stop and Run, or before a restart, is gone and the healthy agent pays;
manager.go:249 says "3 failures, give up", while the record deleted at manager.go:269 may be that of an
agent deployed since; daemon.go:134 says "Auto-login failed, will retry on registration failure", while no second login is
tried; recover.go:74 says "still running", while only the container's existence is looked at.

Why the bounds are enough. The hazards need two goroutines on one agent and a third
party that acts between their steps: two restarts beside a worker and the monitor, two
snapshot commands beside restarts and a writing agent, two shutdowns beside the loop and
callers, a Shutdown beside a command, a restart and the monitor. Two lives of an agent
(`MaxRuns`) let an old goroutine meet a new record; two lives of the node (`MaxStarts`) let
recovery meet whatever a crash or an exit leaves; two containers let an old id meet a new
container; two agents and one slot make capacity contended. One retry instead of three, and
two resume attempts instead of three, still distinguish "again" from "last". With an interval of 4 s and a cap of 12 s the
back-off goes from 4 to 8 less a jitter of 0 or 1, then to the cap of 12 less 0, 1 or 2: it doubles with and without
reaching the cap. Three commands
and two places make one wait; a buffer of two and three lines drop one; two nodes and
three launches let a node meet a file left by an earlier life of the other. The numbers of changes,
writes, runs, starts, launches, lines, containers, stored snapshots and outages are bounds of the
instances only: the theorems hold for every value of them.

Deadlock is not checked where the system may stop: `state_store` (a refused start, and bounded
changes, end the behaviour), `node_life`, `node_capacity` and `restart_at_shutdown` (a node that has
exited after its last start), `hub_session` (the process ends), `node_process` and `one_node` (every
process has ended after the last launch) and `terminal` (the program has quit).

### Fairness

- `StateStore`: weak fairness for triggers, loop and saves: goroutines that can run do
  run, and file operations end. Nobody has to change, to shut down or to crash.
- `AgentLifecycle`: weak fairness for a worker that holds the lock (Docker calls return:
  the commands have timeouts); strong fairness for steps of handlers and restarts and for
  the monitor's tick, which need a lock that is free again and again: Go's mutex hands
  itself to a waiter in starvation mode after 1 ms. Nothing is assumed of Docker's answers
  or of the hub.
- `NodeLife`: weak fairness for commands in progress, strong fairness for the steps of a
  Shutdown that has begun, which waits for the same lock. `ShutdownEnds` assumes nothing of the monitor, of restarts
  or of Docker.
- `HubSession`: weak fairness for the loop and for each command's goroutine: every wait has a timer, every
  request and command a timeout. That the hub stays up and issues tokens is a premise
  of `BackOnlineWithCommands`, not an assumption.
- `Terminal`: weak fairness for the tick and for each fetch, which has a timeout. That the user stays on a page, and that the
  hub answers, are premises of `PageSettles`.

## 4. What is proved

Each proof module shows `Init => IInv`, `IInv /\ [Next]_vars => IInv'` and that the
invariant implies the property, for all values of the constants allowed by the named
assumption of the component.

| Module | Theorems | Argument |
|---|---|---|
| `StateStoreProofs` (`StoreAssumption`) | `StoreTypeOK`, `StoreNoLostUpdate`, `StoreShutdownDurable`, `StoreImplementsDurableMap` | A pending flag means that a trigger is in the channel or about to be cleared; a thread inside Save has marshalled the current map (readers and writers exclude each other); numbers of maps only grow; the map of a final save stays on disk. Each step maps to a step of `DurableMap` or to a stutter. |
| `AgentLifecycleProofs` (`LifecycleAssumption`) | `LifecycleTypeOK`, `LifecycleCapacity`, `LifecycleHolderWorks`, `LifecycleLockGivenBack`, `LifecycleRestartBudget`, `LifecycleNoSilentLeak`, `LifecycleSavedMatches`, `LifecycleImplementsContract` | Capacity: a worker inside Run holds the lock and has a slot reserved, everyone else only removes records or overwrites one that exists. Budget: containers made, plus restarts that have still to create one, plus the restarts the record's count leaves and the one a deployment in progress is worth (`Credit`), never exceed `MaxRestartAttempts` per Run. No leak: nobody but its maker holds the id of a container in the making, unless it is about to evict it, and a container is the record's, in the making, or lost (`Traced`). Saved entries: while a single goroutine works on an agent, entry and record differ only between the step that changes the record and the one that saves it (`Synced`). Lock: each step of the worker that holds it leads to a later one of Run or Stop (`StepsAfter`). Contract: `ContractInv` joins budget and leak invariants; each action is shown to be one step of the contract for its agent, or none (`ContractStep`), and to leave the containers in the making of all other agents alone (`MakingKept`). |
| `NodeLifeProofs` (`NodeAssumption`, `LifecycleAssumption`) | `NodeTypes`, `NodeRestartsBounded`, `NodeNoSilentLeak`, `NodeHolderWorks`, `NodeShutdownForgetsNothing`, `NodeShutdownForward`, `NodeWithinCapacity`, `NodeImplementsContract` | While the node is up its steps keep the invariants of `AgentLifecycleProofs`. Between two lives no goroutine works and no id is in a variable (`Resting`); during a recovery every container not lost track of is in its list (`Seen`). A life adds at most the restarts of one more Run. Shutdown: closers only stop agents, and whoever else works on one stirs it, so the record of any other agent is its container's and its entry the record's (`Listed`): a save that succeeds from then on names it (`SavesAll`), and as long as none fails the file keeps it (`Written`). Capacity: an unadopted agent has a slot, and so has the worker that deploys one (`Room`); a restart that nobody interferes with works on an agent that is there (`Rooted`), hence what a next start may bring back fits as well (`Expected`). Progress: a closer's stage, its list and the step of its Stop, taken in this order, only go forward (`Nearer`), by its own steps alone. Contract: the steps of the agents are those of `AgentContract` with one budget more for each start; only a recovery has something in its list (`NothingFound`). |
| `HubLinkProofs` (`LinkAssumption`) | `LinkTypeOK`, `LinkStatusFollowsHistory`, `LinkNoFlapping`, `LinkBackoffInRange`, `LinkTokenSurvivesOutage` | The counters say how the last outcomes ended (`History`); a token with a known expiry has more than the threshold left but for the time counted as trouble; the back-off doubles, is capped and loses at most a quarter, so that it is never below the smaller of the normal interval and three quarters of the cap. |
| `HubSessionProofs` (`SessionAssumption`, `LinkAssumption`) | `SessionImplementsLink`, `SessionTypes`, `SessionStatusFollowsHistory`, `SessionNoFlapping`, `SessionBackoffInRange`, `SessionTokenSurvivesOutage`, `SessionOnlySigned`, `SessionShutdownIsLast`, `SessionNobodyStuck`, `SessionCommandsForward` | Every step of a session is a step of `HubLink` or leaves its variables alone, so what is proved of the link holds of the session. Places in use are the commands at work, counted as a set. The key is decided before the first heartbeat, so no command precedes it; while a command works the loop waits in a phase that is not "beat". If no command holds a place, all are free; the places a command passes are counted down by `StepsLeft`. |
| `SnapshotEngineProofs` (`SnapshotAssumption`) | `SnapshotTypeOK`, `SnapshotPauseExcludes`, `SnapshotIsConsistent`, `SnapshotResumed`, `SnapshotMigratedIsStored`, `SnapshotRestoreVerified`, `SnapshotHolderWorks`, `SnapshotCommandsForward` | The container of a command inside Create does not run while it is the agent's (`Halted`), so Docker refuses a second pause; an undisturbed command is alone with the directory and the files (`Alone`), so the archive, the file and the reference are its own (`OwnFiles`). `CommandInv` does the part about the other commands once, for any step that keeps to its own variables (`Frame`), leaves their containers alone (`KeepsBoxes`) and announces itself (`Polite`). `LockInv`: the lock is held by the command inside Stop or Run and by nobody else; each step leads to a later one of `StepsAfter`, or is one more counted attempt to resume. |
| `NodeProcessProofs` (`ProcessAssumption`) | `ProcessTypeOK`, `ProcessLockNamesTheNode`, `ProcessCapacityFitsMachine`, `ProcessInstalledWhole` | `LockOrder`: between its creation and the write the file is empty and its writer alone, nobody holds the lock and no other node writes; a process that looked at the file and has not been overtaken knows of everybody who writes or holds (`Covered`: nobody does, or the one it is about to look up). A look that finds nobody alive therefore leaves no holder, and what it overwrites or removes is nobody's; the capacity of a started node is what `NodeConfig` computes, bounded by integer division; the binary is replaced by a rename of a completed copy. |
| `TerminalProofs` (`LogAssumption`, `TerminalAssumption`) | `TerminalImplementsLogView`, `BufferLatestLines`, `FilteredCopies`, `ViewNoLostWakeup`, `TerminalViewInOrder`, `TerminalWarnShowsNothing`, `TerminalTypeOK`, `TerminalNeedsWallet`, `TerminalClosedOnce` | Every step of the terminal is a step of `LogView` or leaves it alone; the buffer is the last lines by their numbers; a view that is behind has a writer, a notification or a message on its way. The channel is open exactly while the model holds it. The loop of Entries is a recursive function: it exists and copies what the filter asks for, by induction over its rounds (`InductUpTo`, from the least member of a set of numbers: `Smallest`). |

Some theorems state what no run checks by that name. `LifecycleCapacity` and `LifecycleTypeOK` are about a single life;
the runs check them over all lives (`WithinCapacity`, `NodeTypeOK`). `LifecycleImplementsContract` is likewise checked as
part of `ImplementsNodeContract`. `LinkTypeOK`, `SessionImplementsLink`, `TerminalImplementsLogView`, `BufferLatestLines`,
`FilteredCopies`, `TerminalViewInOrder` and `TerminalWarnShowsNothing` are facts of interest of their own. The progress theorems
(`LifecycleHolderWorks`, `LifecycleLockGivenBack`, `NodeHolderWorks`, `NodeShutdownForward`, `SessionNobodyStuck`, `SessionCommandsForward`,
`SnapshotHolderWorks`, `SnapshotCommandsForward`) are what
safety has to say about liveness: for all values of the constants there is a variant that each step of the goroutine
decreases and nobody else's touches, and nobody waits for one that cannot go on.

Only model-checked: every liveness property (`EventuallySaved`, `FailedAgentHandled`,
`ShutdownEnds`, `EveryCommandEnds`, `BackOnlineWithCommands`, `PageSettles`). The step from a variant to "eventually" needs
fairness, and with it ENABLED, which the prover does not support. All safety properties of the passing runs, and both kinds
of action property (steps, and refinements), are proved.
The library's induction theorems cannot be used, since they take an operator as a parameter; the one induction over data
that is needed (`FilteredCopies`) is made from the well-order of the numbers, for a set instead of a predicate.

The proofs cover the specifications, bounds included, and not the Go code.

## 5. Not modelled, and why

- Image pulls, container configuration and the OpenClaw files, logs, statistics, exec, mining queries: I/O without
  decisions the other parts depend on. A restart passes no extra environment (manager.go:300): that is data, and listed as a hazard.
- The hub itself: its answers are nondeterministic, and whether it repeats a command whose answer was lost is not in this repository.
- Cryptography, formats, presentation, the test doubles, and the HTTP middleware, which no program of the repository uses.
- A call to Docker that is carried out and answered with an error.

## 6. Plan

The components of the inventory are modelled. What is left, by weight:

1. A contract of the snapshot engine (what the hub and the agent's directory see of checkpoints, migrations and restores),
   implemented by `SnapshotEngine`.
2. Two updaters at once, which share one copy of the binary (a listed hazard).
