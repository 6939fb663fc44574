------------------------------ MODULE HubSession ------------------------------
(***************************************************************************)
(* What a node does on its link to the hub (HubLink): the commands that    *)
(* come with a heartbeat's answer and the goroutines that process them,    *)
(* the reports of failures, the hub's signing key, and the Shutdown a      *)
(* command or a signal begins (internal/daemon/daemon.go, internal/hub/    *)
(* client.go, internal/http/client.go).                                    *)
(*                                                                         *)
(* What a command does to agents and snapshots is in AgentLifecycle and    *)
(* SnapshotEngine; here it takes a while and succeeds or fails.            *)
(***************************************************************************)
EXTENDS HubLink, FiniteSets

CONSTANTS
  Commands,    \* the commands the hub hands out
  Deploys,     \* those that are "run" or "restore"
  Shutdowns,   \* those that are "shutdown"
  Signed,      \* those with a valid signature
  PoolSize     \* maxConcurrentCommands

ASSUME SessionAssumption ==
  /\ Deploys \subseteq Commands /\ Shutdowns \subseteq Commands /\ Signed \subseteq Commands
  /\ Deploys \cap Shutdowns = {}
  /\ PoolSize \in Nat \ {0}

VARIABLES
  run,         \* "up", "cancelled" (the context of Run), or "ended" (the process)
  key,         \* HubPublicKey: "unset" until Run asks the hub, "set", or "none"
  cmd,         \* cmd[c]: where command c stands
  slots        \* length of sem

commandVars == <<cmd, slots>>
sessionVars == <<run, key, commandVars>>
allVars == <<vars, sessionVars>>

Working == {"started", "working", "closing"}
Refused == {"rejected", "failed"}   \* a goroutine reports it
Ended == {"told", "untold", "done", "skipped"}

SessionTypeOK ==
  /\ TypeOK
  /\ run \in {"up", "cancelled", "ended"}
  /\ key \in {"unset", "set", "none"}
  /\ cmd \in [Commands -> {"hub", "lost", "batch"} \cup Working \cup Refused \cup Ended]
  /\ slots \in 0 .. PoolSize

SessionInit ==
  /\ Init
  /\ run = "up"
  /\ key \in {"unset", "set"}
  /\ cmd = [c \in Commands |-> "hub"]
  /\ slots = 0

-----------------------------------------------------------------------------
(* Daemon.Run and heartbeatLoop.                                           *)

\* Once, before the registration. Without an answer commands are not verified
\* as long as the daemon runs.
FetchSigningKey ==
  /\ run = "up" /\ phase # "login" /\ key = "unset"
  /\ key' \in IF up THEN {"set", "none"} ELSE {"none"}
  /\ UNCHANGED <<vars, run, commandVars>>

SessionLogin == run = "up" /\ Login /\ UNCHANGED sessionVars

\* Mutant of SessionRegister: the key is asked for some time later.
RegisterBeforeKey == run = "up" /\ Register /\ UNCHANGED sessionVars

SessionRegister == run = "up" /\ key # "unset" /\ Register /\ UNCHANGED sessionVars

\* Mutant of CommandsDone: sendHeartbeat does not wait for its commands.
NobodyWaits == TRUE

\* wg.Wait at the end of sendHeartbeat.
CommandsDone == \A c \in Commands : cmd[c] # "batch" /\ cmd[c] \notin Working

SessionSleep == run = "up" /\ CommandsDone /\ Sleep /\ UNCHANGED sessionVars

\* The hub hands out a batch with its answer. It is lost with the answer, or
\* when the answer cannot be decoded; nobody asks for it again.
Receive ==
  \E batch \in SUBSET {c \in Commands : cmd[c] = "hub"},
     where \in IF Accepted THEN {"batch", "lost"} ELSE {"lost"} :
    /\ token = 0 => batch = {}
    /\ cmd' = [c \in Commands |-> IF c \in batch THEN where ELSE cmd[c]]

\* sendHeartbeat, the first one included.
Heartbeat ==
  /\ run = "up"
  /\ FirstHeartbeat \/ HeartbeatFails \/ HeartbeatAccepted
  /\ Receive
  /\ UNCHANGED <<run, key, slots>>

\* SetHeader writes the map of headers while the refresh of the mining reward,
\* which the heartbeat has just started, may be reading it for its request: Go
\* ends a process that it catches at this.
Renew ==
  /\ run = "up" /\ CommandsDone
  /\ MaybeRenewToken
  /\ run' \in IF Due /\ up THEN {"up", "ended"} ELSE {"up"}
  /\ UNCHANGED <<key, commandVars>>

-----------------------------------------------------------------------------
(* processHubCommand: one goroutine for each command of the batch.         *)

Spawn(c) ==
  /\ run # "ended"
  /\ cmd[c] = "batch" /\ slots < PoolSize
  /\ cmd' = [cmd EXCEPT ![c] = "started"]
  /\ slots' = slots + 1
  /\ UNCHANGED <<vars, run, key>>

Move(c, to) == cmd' = [cmd EXCEPT ![c] = to] /\ UNCHANGED slots

\* Mutant of End: the goroutine returns without giving its place back.
EndKeepsSlot(c, how) == cmd' = [cmd EXCEPT ![c] = how] /\ UNCHANGED slots

End(c, how) == cmd' = [cmd EXCEPT ![c] = how] /\ slots' = slots - 1

Verified(c) == key = "set" => c \in Signed

\* A command without a valid signature is rejected and reported, if the node
\* has a key.
Begin(c) ==
  /\ run # "ended" /\ cmd[c] = "started"
  /\ \/ run = "cancelled" /\ End(c, "skipped")
     \/ run = "up" /\ ~Verified(c) /\ End(c, "rejected")
     \/ run = "up" /\ Verified(c) /\ Move(c, "working")
  /\ UNCHANGED <<vars, run, key>>

\* A deployment that fails is reported; one without a profile, and the failure
\* of another command, is only logged.
Finish(c) ==
  /\ run # "ended" /\ cmd[c] = "working" /\ c \notin Shutdowns
  /\ \/ End(c, "done")
     \/ c \in Deploys /\ End(c, "failed")
  /\ UNCHANGED <<vars, run, key>>

\* "shutdown": Daemon.Shutdown takes the node off the hub's list ...
BeginShutdown(c) ==
  /\ run # "ended" /\ cmd[c] = "working" /\ c \in Shutdowns
  /\ Move(c, "closing")
  /\ UNCHANGED <<vars, run, key>>

\* ... and cancelFunc ends Run.
EndShutdown(c) ==
  /\ run # "ended" /\ cmd[c] = "closing"
  /\ End(c, "done")
  /\ run' = "cancelled"
  /\ UNCHANGED <<vars, key>>

\* One request, for at most five seconds.
Report(c) ==
  /\ run # "ended" /\ cmd[c] \in Refused
  /\ Move(c, IF Accepted THEN "told" ELSE "untold")
  /\ UNCHANGED <<vars, run, key>>

\* The signal handler cancels the context, after a Shutdown of its own (see
\* NodeLife) during which the loop goes on.
Signal ==
  /\ run = "up"
  /\ run' = "cancelled"
  /\ UNCHANGED <<vars, key, commandVars>>

-----------------------------------------------------------------------------
Loop ==
  \/ SessionLogin \/ FetchSigningKey \/ SessionRegister
  \/ SessionSleep \/ Heartbeat \/ Renew

Goroutine(c) ==
  Spawn(c) \/ Begin(c) \/ Finish(c) \/ BeginShutdown(c) \/ EndShutdown(c) \/ Report(c)

Hub == run # "ended" /\ (HubDown \/ HubUp) /\ UNCHANGED sessionVars

SessionNext == Loop \/ (\E c \in Commands : Goroutine(c)) \/ Signal \/ Hub

SessionSpec == SessionInit /\ [][SessionNext]_allVars

\* Every wait of the loop has a timer, and every request and command a timeout.
SessionFairness ==
  /\ WF_allVars(Loop)
  /\ \A c \in Commands : WF_allVars(Goroutine(c))

SessionFairSpec == SessionSpec /\ SessionFairness

-----------------------------------------------------------------------------
(* Properties.                                                             *)

\* daemon.go:138-147, 405-441: a node that has a key has never acted on a
\* command without a valid signature, from the first heartbeat on.
OnlySigned ==
  key = "set" => \A c \in Commands :
    cmd[c] \in {"working", "closing", "done", "failed"} => c \in Signed

\* daemon.go:345-357, 596-609: once a hub command has begun a Shutdown, the node
\* sends no heartbeat that would put it back on the hub's list.
HubShutdownIsLast ==
  run = "up" /\ (\E c \in Commands : cmd[c] = "closing") => phase # "beat"

\* The steps a command still takes, at most.
StepsLeft ==
  [hub |-> 6, batch |-> 5, started |-> 4, working |-> 3, closing |-> 2, rejected |-> 1,
   failed |-> 1, lost |-> 0, told |-> 0, untold |-> 0, done |-> 0, skipped |-> 0]

\* daemon.go:343-357, 405-441: no command is handed out, processed or reported
\* twice: every change brings it nearer to its end.
CommandsOnlyForward ==
  [][\A c \in Commands : cmd'[c] = cmd[c] \/ StepsLeft[cmd'[c]] < StepsLeft[cmd[c]]]_allVars

\* daemon.go:348-357: the loop never waits for commands that all wait for a place.
NobodyStuck ==
  ~CommandsDone =>
    \E c \in Commands : cmd[c] \in Working \/ (cmd[c] = "batch" /\ slots < PoolSize)

\* daemon.go:343-357: every command of a batch is processed, and its failure
\* reported or not, however large the batch and whatever becomes of the others,
\* as long as the daemon runs.
EveryCommandEnds ==
  \A c \in Commands : cmd[c] = "batch" ~> cmd[c] \in Ended \/ run # "up"

\* daemon.go:288-361: ComesBackOnline, with commands that keep the loop waiting.
BackOnlineWithCommands == [](run = "up") => ComesBackOnline
=============================================================================
