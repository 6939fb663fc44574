----------------------------- MODULE NodeProcess -----------------------------
(***************************************************************************)
(* The processes of a machine that runs zion-node (cmd/zion-node/main.go): *)
(* nodes with and without the terminal interface, "zion-node stop" and     *)
(* "zion-node update", the PID file they share and the installed binary.   *)
(* Each step is at most one system call that others can see: what a        *)
(* process has read of the PID file is in seen until it acts on it.        *)
(*                                                                         *)
(* A node is named by its process id, which the system may give to a later *)
(* node or to a stranger once the process has ended. The configuration is  *)
(* the same for all of them. SIGTERM before signal.Notify kills a process. *)
(***************************************************************************)
EXTENDS NodeConfig, FiniteSets

CONSTANTS
  Nodes,         \* process ids of nodes
  Stopper,       \* a process "zion-node stop"
  Updater,       \* a process "zion-node update"
  Inputs,        \* file, environment, memory and directories of the machine
  MaxLaunches    \* bound: nodes launched

ASSUME ProcessAssumption ==
  /\ Stopper \notin Nodes /\ Updater \notin Nodes /\ Stopper # Updater
  /\ Nodes \cap {"absent", "empty", "mixed"} = {}
  /\ MaxLaunches \in Nat
  /\ \A i \in Inputs : i.file \in Configs /\ IsEnvironment(i.env) /\ i.total \in Nat

VARIABLES
  input,      \* the machine's configuration
  phase,      \* phase[p]: where node p stands
  tui,        \* tui[p]: p has the terminal interface
  term,       \* term[p]: a SIGTERM waits in p's channel
  pidFile,    \* what zion-node.pid holds
  handle,     \* nodes whose open file is the one in the directory
  seen,       \* seen[x]: what process x read of the PID file
  stop,       \* where the stop command stands
  update,     \* where the update command stands
  tmp,        \* the copy beside the binary
  binary,     \* the installed binary
  launches,   \* nodes launched so far
  overtaken,  \* ghost: processes whose look at the PID file is out of date,
              \* because a node was writing it then or began to since
  raced       \* ghost: one of them once wrote or removed the file

nodeVars == <<phase, tui, term, launches>>
fileVars == <<pidFile, handle>>
updateVars == <<update, tmp, binary>>
ghosts == <<overtaken, raced>>
vars == <<input, nodeVars, fileVars, seen, stop, updateVars, ghosts>>

Phases == {"none", "load", "acquire", "created", "check", "look", "stale", "overwrite",
           "locked", "ready", "running", "idle", "ending", "over", "stranger"}
Processes == Nodes \cup {Stopper, Updater}
\* Mixed: two nodes wrote over each other, the number is nobody's.
Contents == {"absent", "empty", "mixed"} \cup Nodes

Cfg == Effective(input.file, input.env, input.total)
CommandsFindFile == CommandDir(input.dirs) = DaemonDir(input.dirs)

Alive(p) == p \in Nodes /\ phase[p] # "none"
Holding(p) == phase[p] \in {"locked", "ready", "running", "idle", "ending"}
\* It has opened the file and has still to write its process id.
Writing(p) == phase[p] \in {"created", "overwrite"}
\* Between its look at the file and what it does about it.
Lookers ==
  {p \in Nodes : phase[p] \in {"look", "stale"}} \cup
  {c \in {Stopper} : stop \in {"stat", "look", "clean"}}

Sees(x) == seen' = [seen EXCEPT ![x] = pidFile]
Forgets(x) == seen' = [seen EXCEPT ![x] = "absent"]

\* Node p moves on, and nobody else.
Go(p, to) ==
  /\ phase' = [phase EXCEPT ![p] = to]
  /\ term' = IF to = "none" THEN [term EXCEPT ![p] = FALSE] ELSE term
  /\ UNCHANGED <<input, tui, launches, stop, updateVars>>

\* What the ghosts record of a step, which acts on a look at the file or not.
Record(acts) ==
  /\ overtaken' = {x \in Lookers' : x \in overtaken \/ \E p \in Nodes : Writing(p)'}
  /\ raced' = (raced \/ acts)
RemoveFile == pidFile' = "absent" /\ handle' = {}

TypeOK ==
  /\ input \in Inputs
  /\ phase \in [Nodes -> Phases]
  /\ tui \in [Nodes -> BOOLEAN]
  /\ term \in [Nodes -> BOOLEAN]
  /\ pidFile \in Contents
  /\ handle \subseteq Nodes /\ (pidFile = "absent" => handle = {})
  /\ seen \in [Processes -> Contents]
  /\ stop \in {"none", "stat", "look", "clean", "signal"}
  /\ stop = "signal" => seen[Stopper] \in Nodes
  /\ update \in {"none", "read", "checked", "copying", "copied"}
  /\ tmp \in {"absent", "partial", "whole"}
  /\ binary \in {"old", "new", "partial"}
  /\ launches \in 0 .. MaxLaunches
  /\ overtaken \subseteq Lookers
  /\ raced \in BOOLEAN

Init ==
  /\ input \in Inputs
  /\ phase = [p \in Nodes |-> "none"]
  /\ tui = [p \in Nodes |-> FALSE]
  /\ term = [p \in Nodes |-> FALSE]
  /\ pidFile = "absent" /\ handle = {}
  /\ seen = [x \in Processes |-> "absent"]
  /\ stop = "none"
  /\ update = "none" /\ tmp = "absent" /\ binary = "old"
  /\ launches = 0
  /\ overtaken = {} /\ raced = FALSE

-----------------------------------------------------------------------------
(* runDaemon and runDaemonWithTUI up to the PID lock.                       *)

Launch(p) ==
  /\ phase[p] = "none" /\ launches < MaxLaunches
  /\ launches' = launches + 1
  /\ phase' = [phase EXCEPT ![p] = "load"]
  /\ \E b \in BOOLEAN : tui' = [tui EXCEPT ![p] = b]
  /\ UNCHANGED <<input, term, fileVars, seen, stop, updateVars, ghosts>>

Load(p) ==
  /\ phase[p] = "load"
  /\ Go(p, IF LoadPanics(input.file, input.env, input.total) THEN "none" ELSE "acquire")
  /\ UNCHANGED <<fileVars, seen, ghosts>>

\* acquirePIDLock: O_CREATE|O_EXCL.
AcquireCreate(p) ==
  /\ phase[p] = "acquire"
  /\ IF pidFile = "absent"
     THEN pidFile' = "empty" /\ handle' = {p} /\ Go(p, "created")
     ELSE Go(p, "check") /\ UNCHANGED fileVars
  /\ UNCHANGED seen
  /\ Record(FALSE)

\* A write goes to the file that was opened, over what it holds by now.
Write(p) ==
  /\ pidFile' \in IF p \notin handle THEN {pidFile}
                  ELSE IF pidFile = "empty" THEN {p} ELSE {p, "mixed"}
  /\ handle' = handle \ {p}

AcquireWrite(p) ==
  /\ Writing(p)
  /\ Write(p)
  /\ Go(p, "locked")
  /\ UNCHANGED seen
  /\ Record(FALSE)

\* The write fails, or the file cannot be opened: one that p has just created
\* is removed by name.
AcquireFails(p) ==
  /\ \/ phase[p] = "created" /\ RemoveFile
     \/ phase[p] \in {"stale", "overwrite"} /\ handle' = handle \ {p} /\ UNCHANGED pidFile
  /\ Go(p, "over")
  /\ UNCHANGED seen
  /\ Record(FALSE)

\* What is not a number is taken for stale.
AcquireRead(p) ==
  /\ phase[p] = "check"
  /\ IF pidFile \in {"absent", "empty"} THEN Go(p, "stale") /\ UNCHANGED seen
                                        ELSE Go(p, "look") /\ Sees(p)
  /\ UNCHANGED fileVars
  /\ Record(FALSE)

\* Mutant of AcquireLook: the lock is released although it was not acquired.
LookReleases(p) ==
  /\ phase[p] = "look"
  /\ IF Alive(seen[p]) THEN Go(p, "over") /\ RemoveFile
                       ELSE Go(p, "stale") /\ UNCHANGED fileVars
  /\ Forgets(p)
  /\ Record(FALSE)

\* The process it names is alive: exit, without release.
AcquireLook(p) ==
  /\ phase[p] = "look"
  /\ Go(p, IF Alive(seen[p]) THEN "over" ELSE "stale")
  /\ Forgets(p)
  /\ UNCHANGED fileVars
  /\ Record(FALSE)

\* os.WriteFile truncates the file, or creates one if it was removed meanwhile.
AcquireOverwrite(p) ==
  /\ phase[p] = "stale"
  /\ pidFile' = "empty"
  /\ handle' = (IF pidFile = "absent" THEN {} ELSE handle) \cup {p}
  /\ Go(p, "overwrite")
  /\ UNCHANGED seen
  /\ Record(p \in overtaken)

-----------------------------------------------------------------------------
(* From the lock to the end. log.Fatal and os.Exit run no deferred call, so  *)
(* that the PID file stays.                                                  *)

\* Validation, which also needs Docker and disk space, and NewDaemon.
Validate(p) ==
  /\ phase[p] = "locked"
  /\ \/ ValidLimits(Cfg) /\ Go(p, "ready")
     \/ Go(p, "none")
  /\ UNCHANGED <<fileVars, seen, ghosts>>

\* The terminal interface starts the daemon when there is a wallet.
RunStarts(p) ==
  /\ phase[p] = "ready"
  /\ Go(p, "running")
  /\ UNCHANGED <<fileVars, seen, ghosts>>

\* The node id belongs to another owner: Fatal, or an interface without daemon.
RunFails(p) ==
  /\ phase[p] = "running"
  /\ Go(p, IF tui[p] THEN "idle" ELSE "none")
  /\ UNCHANGED <<fileVars, seen, ghosts>>

HeartbeatLoopPanics(p) ==
  /\ phase[p] = "running" /\ HeartbeatPanics(Cfg)
  /\ Go(p, "none")
  /\ UNCHANGED <<fileVars, seen, ghosts>>

\* The hub's "shutdown" ends Run; the interface stays.
HubShutdown(p) ==
  /\ phase[p] = "running"
  /\ Go(p, IF tui[p] THEN "idle" ELSE "ending")
  /\ UNCHANGED <<fileVars, seen, ghosts>>

Quit(p) ==
  /\ tui[p] /\ phase[p] \in {"ready", "running", "idle"}
  /\ Go(p, "ending")
  /\ UNCHANGED <<fileVars, seen, ghosts>>

Terminate(p) ==
  /\ term[p] /\ phase[p] \in {"ready", "running", "idle"}
  /\ Go(p, "ending")
  /\ UNCHANGED <<fileVars, seen, ghosts>>

\* Shutdown is over: the deferred releasePIDLock.
Release(p) ==
  /\ phase[p] = "ending"
  /\ RemoveFile
  /\ Go(p, "over")
  /\ UNCHANGED <<seen, ghosts>>

End(p) ==
  /\ phase[p] = "over"
  /\ Go(p, "none")
  /\ UNCHANGED <<fileVars, seen, ghosts>>

Crash(p) ==
  /\ phase[p] # "none"
  /\ Go(p, "none")
  /\ handle' = handle \ {p}
  /\ Forgets(p)
  /\ UNCHANGED pidFile
  /\ Record(FALSE)

\* The system gives the process id to another program.
Reused(p) ==
  /\ phase[p] = "none" /\ launches > 0
  /\ Go(p, "stranger")
  /\ UNCHANGED <<fileVars, seen, ghosts>>

-----------------------------------------------------------------------------
(* handleStopCommand.                                                       *)

StopStep(from, to) ==
  /\ stop = from /\ stop' = to
  /\ UNCHANGED <<input, tui, launches, updateVars>>

\* A file that is not there, or holds no number, is looked for.
StopRead ==
  /\ CommandsFindFile
  /\ StopStep("none", IF pidFile \in {"absent", "empty"} THEN "stat" ELSE "look")
  /\ Sees(Stopper)
  /\ UNCHANGED <<phase, term, fileVars>>
  /\ Record(FALSE)

StopStat ==
  /\ StopStep("stat", IF pidFile = "absent" THEN "none" ELSE "clean")
  /\ UNCHANGED <<phase, term, fileVars, seen>>
  /\ Record(FALSE)

\* Mutant of StopLook: nobody asks whether there is such a process.
StopLooksAway ==
  /\ StopStep("look", "signal")
  /\ UNCHANGED <<phase, term, fileVars, seen>>
  /\ Record(FALSE)

StopLook ==
  /\ StopStep("look", IF Alive(seen[Stopper]) THEN "signal" ELSE "clean")
  /\ UNCHANGED <<phase, term, fileVars, seen>>
  /\ Record(FALSE)

StopClean ==
  /\ StopStep("clean", "none")
  /\ RemoveFile
  /\ Forgets(Stopper)
  /\ UNCHANGED <<phase, term>>
  /\ Record(Stopper \in overtaken)

\* SIGTERM to whoever has the process id by now.
StopSignal ==
  /\ StopStep("signal", "none")
  /\ LET p == seen[Stopper] IN
     IF phase[p] \in {"ready", "running", "idle", "ending"}
     THEN term' = [term EXCEPT ![p] = TRUE] /\ UNCHANGED <<phase, handle>>
     ELSE phase' = [phase EXCEPT ![p] = "none"] /\ handle' = handle \ {p} /\ UNCHANGED term
  /\ Forgets(Stopper)
  /\ UNCHANGED pidFile
  /\ Record(FALSE)

-----------------------------------------------------------------------------
(* handleUpdateCommand and replaceFile.                                     *)

UpdateStep(from, to) ==
  /\ update = from /\ update' = to
  /\ UNCHANGED <<input, nodeVars, fileVars, stop, ghosts>>

UpdateRead ==
  /\ UpdateStep("none", "read")
  /\ binary = "old"
  /\ IF CommandsFindFile THEN Sees(Updater) ELSE UNCHANGED seen
  /\ UNCHANGED <<tmp, binary>>

UpdateCheck ==
  /\ UpdateStep("read", IF Alive(seen[Updater]) THEN "none" ELSE "checked")
  /\ Forgets(Updater)
  /\ UNCHANGED <<tmp, binary>>

\* The archive is downloaded and unpacked into a directory of its own, then
\* copied beside the binary, with sudo when the first attempt fails.
UpdateOpen == UpdateStep("checked", "copying") /\ tmp' = "partial" /\ UNCHANGED <<seen, binary>>
UpdateCopied == UpdateStep("copying", "copied") /\ tmp' = "whole" /\ UNCHANGED <<seen, binary>>

\* Mutant of UpdateRename: the error of the copy is not looked at.
UpdateRenameAnyway ==
  /\ UpdateStep("copied", "none") \/ UpdateStep("copying", "none")
  /\ binary' = IF tmp = "whole" THEN "new" ELSE "partial"
  /\ tmp' = "absent"
  /\ UNCHANGED seen

UpdateRename ==
  /\ UpdateStep("copied", "none")
  /\ binary' = IF tmp = "whole" THEN "new" ELSE "partial"
  /\ tmp' = "absent"
  /\ UNCHANGED seen

\* An error at any step, or a crash. Only a failed chmod or rename removes the
\* copy.
UpdateFails ==
  /\ update # "none"
  /\ UpdateStep(update, "none")
  /\ \/ UNCHANGED tmp
     \/ update = "copied" /\ tmp' = "absent"
  /\ Forgets(Updater)
  /\ UNCHANGED binary

-----------------------------------------------------------------------------
Starting(p) ==
  \/ Load(p) \/ AcquireCreate(p) \/ AcquireWrite(p) \/ AcquireRead(p)
  \/ AcquireLook(p) \/ AcquireOverwrite(p) \/ Validate(p) \/ RunStarts(p)

Ending(p) == Terminate(p) \/ Release(p) \/ End(p)

Node(p) ==
  \/ Launch(p) \/ Starting(p) \/ Ending(p)
  \/ AcquireFails(p) \/ HeartbeatLoopPanics(p) \/ RunFails(p) \/ HubShutdown(p) \/ Quit(p)
  \/ Crash(p) \/ Reused(p)

Stop == StopRead \/ StopStat \/ StopLook \/ StopClean \/ StopSignal

Update ==
  UpdateRead \/ UpdateCheck \/ UpdateOpen \/ UpdateCopied \/ UpdateRename \/ UpdateFails

Next == (\E p \in Nodes : Node(p)) \/ Stop \/ Update

Spec == Init /\ [][Next]_vars

-----------------------------------------------------------------------------
(* Properties.                                                              *)

\* main.go:537-571: the file names the node that holds the lock, through crashes,
\* fatal errors, failed writes, reused process ids and stop commands, as long as
\* nobody acts on a look at it that has been overtaken: the only way to two nodes,
\* or to one that stop does not find, is to overwrite or remove a file that another
\* start was writing, or has written since it was read.
LockNamesTheNode == ~raced => \A p \in Nodes : Holding(p) => pidFile = p

\* config.go:164-194, validation.go:60-74: a node that runs has a positive
\* capacity, no larger than configured, whose agents fit the usable memory
\* unless there is only one.
CapacityFitsMachine ==
  \A p \in Nodes : phase[p] \in {"ready", "running"} =>
    LET given == ApplyEnvOverrides(SetDefaults(input.file), input.env) IN
    /\ Cfg.agents \in 1 .. given.agents
    /\ input.total # 0 =>
         Cfg.agents = 1 \/ Cfg.agents * Cfg.memory <= Usable(input.total)

\* main.go:450-483: whatever fails during an update, the binary in place is a
\* whole one.
InstalledWhole == binary # "partial"

-----------------------------------------------------------------------------
(* Statements of the repository that the code does not keep.                *)

\* main.go:536, 631: "Uses O_CREATE|O_EXCL for atomic creation to avoid TOCTOU
\* races", "prevent multiple instances": two nodes never run at once.
OneNode == Cardinality({p \in Nodes : phase[p] = "running"}) <= 1
=============================================================================
