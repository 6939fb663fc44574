----------------------------- MODULE SnapshotEngine -----------------------------
(***************************************************************************)
(* Snapshots of one agent: Engine.Create and Restore (internal/snapshot/   *)
(* engine.go), and the hub commands that use them: checkpoint, migrate_out *)
(* and stop (internal/daemon/daemon.go, internal/agent/manager.go).        *)
(*                                                                         *)
(* Several commands may work on the agent at once. Pausing the container   *)
(* is all that keeps the agent from writing to its directory while it is   *)
(* archived, and two commands from writing the same snapshot file.         *)
(* Restarts by the manager are one step here and may come at any moment;   *)
(* module AgentLifecycle has their detail.                                 *)
(*                                                                         *)
(* A content is the set of the versions of the directory that its files    *)
(* are from: one version is a consistent content. A SHA-256 reference is   *)
(* identified with the content it is the hash of.                          *)
(***************************************************************************)
EXTENDS Naturals, FiniteSets

CONSTANTS
  Commands,        \* goroutines that process hub commands on the agent
  Nobody,          \* the value of mu when it is free
  ResumeAttempts,  \* 3 in the code
  DockerErrors,    \* may Docker fail a call it could have carried out?
  MaxWrites,       \* bound: versions of the directory
  MaxContainers,   \* bound: containers created for the agent
  MaxSnapshots     \* bound: snapshots the hub stores

ASSUME SnapshotAssumption ==
  /\ Nobody \notin Commands
  /\ ResumeAttempts \in Nat \ {0}
  /\ DockerErrors \in BOOLEAN
  /\ MaxWrites \in Nat \ {0}
  /\ MaxContainers \in Nat \ {0}
  /\ MaxSnapshots \in Nat \ {0}

VARIABLES
  mu,        \* the command that holds Manager.mu, or Nobody
  record,    \* the container of the agent's record; 0: no record
  restarted, \* the container a restart has created and not yet recorded, or 0
  box,       \* the agent's container, or Gone
  made,      \* containers created so far
  data,      \* content of the agent's directory
  written,   \* the latest version of the directory
  tmp,       \* the commands that opened the current temporary archive
  file,      \* the contents of the snapshot file: one, or none if it is absent
  hub,       \* the snapshots the hub stores: reference and content
  pc,        \* pc[c]: where command c stands
  kind,      \* kind[c]: which command c is
  held,      \* held[c]: the container id in c's local variable
  bytes,     \* bytes[c]: what c has archived, or downloaded, so far
  ref,       \* ref[c]: the snapshot reference c works with
  created,   \* created[c]: Engine.Create returned a reference
  tries,     \* tries[c]: failed attempts to resume
  expired,   \* expired[c]: the context of c is done (30 s, 15 s or 120 s)
  disturbed  \* ghost: during c's Create the directory or the file was shared

managerVars == <<mu, record, restarted>>
boxVars == <<box, made>>
fileVars == <<tmp, file>>
localVars == <<kind, held, bytes, ref, created, tries>>
vars == <<managerVars, boxVars, data, written, fileVars, hub, pc, localVars,
          expired, disturbed>>

Content == SUBSET Nat
Nothing == {}        \* of no version: a partial directory or archive
Corrupted == {0}     \* bytes no directory ever had
Gone == [cid |-> 0, mode |-> "exited"]
Modes == {"running", "paused", "exited"}
Kinds == {"none", "checkpoint", "migrate", "stop", "run"}

CreateSteps == {"open", "walk", "hash", "upload", "resume"}
StopSteps == {"stop", "remove"}
RunSteps == {"download", "verify", "clear", "extract", "start"}
Steps == {"idle", "pause", "confirm", "lock"} \cup CreateSteps \cup StopSteps \cup RunSteps

Calls == {"pause", "upload", "resume", "confirm", "stop", "remove", "download", "start"}

InCreate(c) == pc[c] \in CreateSteps
Free == mu = Nobody
Holds(cid) == box.cid = cid
In(cid, mode) == box = [cid |-> cid, mode |-> mode]

TypeOK ==
  /\ mu \in Commands \cup {Nobody}
  /\ record \in Nat /\ restarted \in Nat
  /\ box \in [cid : Nat, mode : Modes]
  /\ made \in Nat
  /\ data \in Content
  /\ written \in Nat
  /\ tmp \in SUBSET Commands
  /\ file \in SUBSET Content
  /\ hub \in SUBSET [ref : Content, data : Content]
  /\ pc \in [Commands -> Steps]
  /\ kind \in [Commands -> Kinds]
  /\ held \in [Commands -> Nat]
  /\ bytes \in [Commands -> Content]
  /\ ref \in [Commands -> Content]
  /\ created \in [Commands -> BOOLEAN]
  /\ tries \in [Commands -> 0 .. ResumeAttempts - 1]
  /\ expired \in [Commands -> BOOLEAN]
  /\ disturbed \in [Commands -> BOOLEAN]

\* The agent runs, or the hub has a snapshot of it from another node.
Init ==
  /\ mu = Nobody /\ restarted = 0
  /\ \/ record = 1 /\ made = 1 /\ box = [cid |-> 1, mode |-> "running"] /\ hub = {}
     \/ /\ record = 0 /\ made = 0 /\ box = Gone
        /\ hub = {[ref |-> {1}, data |-> {1}]}
  /\ data = {1} /\ written = 1
  /\ tmp = {} /\ file = {}
  /\ pc = [c \in Commands |-> "idle"]
  /\ kind = [c \in Commands |-> "none"]
  /\ held = [c \in Commands |-> 0]
  /\ bytes = [c \in Commands |-> Nothing]
  /\ ref = [c \in Commands |-> Nothing]
  /\ created = [c \in Commands |-> FALSE]
  /\ tries = [c \in Commands |-> 0]
  /\ expired = [c \in Commands |-> FALSE]
  /\ disturbed = [c \in Commands |-> FALSE]

-----------------------------------------------------------------------------
(* Steps of a command. Docker and HTTP calls fail once its context is done;  *)
(* file operations and the lock do not look at it.                           *)

At(c, from) == pc[c] = from
Goto(c, to) == pc' = [pc EXCEPT ![c] = to]
Refuses(c) == DockerErrors \/ expired[c]

\* c forgets the local variables it will not use again.
Forget(c) ==
  /\ bytes' = [bytes EXCEPT ![c] = Nothing]
  /\ ref' = [ref EXCEPT ![c] = Nothing]
  /\ created' = [created EXCEPT ![c] = FALSE]
  /\ tries' = [tries EXCEPT ![c] = 0]
  /\ disturbed' = [disturbed EXCEPT ![c] = FALSE]

\* The command returns, releasing the lock if it holds it.
Return(c) ==
  /\ Goto(c, "idle") /\ Forget(c)
  /\ mu' = IF mu = c THEN Nobody ELSE mu
  /\ kind' = [kind EXCEPT ![c] = "none"]
  /\ held' = [held EXCEPT ![c] = 0]
  /\ expired' = [expired EXCEPT ![c] = FALSE]

\* The command goes on to another step with its local variables unchanged.
Continue(c, to) ==
  /\ Goto(c, to)
  /\ UNCHANGED <<mu, localVars, expired, disturbed>>

\* Only a call looks at the context, so that it is enough if it is done then.
Expire(c) ==
  /\ pc[c] \in Calls /\ ~expired[c]
  /\ expired' = [expired EXCEPT ![c] = TRUE]
  /\ UNCHANGED <<managerVars, boxVars, data, written, fileVars, hub, pc, localVars,
                 disturbed>>

\* Engine.Create has returned: Stop goes on whatever happened, a migration only
\* with a snapshot.
StopAfterCreate(c) ==
  /\ Goto(c, "stop") /\ Forget(c)
  /\ UNCHANGED <<mu, kind, held, expired>>

MigrateAfterCreate(c) ==
  /\ Goto(c, "confirm")
  /\ tries' = [tries EXCEPT ![c] = 0]
  /\ UNCHANGED <<mu, kind, held, bytes, ref, created, expired, disturbed>>

AfterCreate(c) ==
  \/ kind[c] = "stop" /\ StopAfterCreate(c)
  \/ kind[c] = "migrate" /\ created[c] /\ MigrateAfterCreate(c)
  \/ kind[c] \notin {"stop", "migrate"} /\ Return(c)
  \/ kind[c] = "migrate" /\ ~created[c] /\ Return(c)

-----------------------------------------------------------------------------
(* The beginnings of the four commands. A checkpoint or a migration reads    *)
(* the record under the lock; Stop and Run keep the lock until they return.  *)

Checkpoint(c) ==
  /\ At(c, "idle") /\ Free /\ record # 0
  /\ kind' \in {[kind EXCEPT ![c] = k] : k \in {"checkpoint", "migrate"}}
  /\ held' = [held EXCEPT ![c] = record]
  /\ Goto(c, "pause")
  /\ UNCHANGED <<managerVars, boxVars, data, written, fileVars, hub, bytes, ref, created,
                 tries, expired, disturbed>>

StopAgent(c) ==
  /\ At(c, "idle") /\ Free /\ record # 0
  /\ mu' = c
  /\ kind' = [kind EXCEPT ![c] = "stop"]
  /\ held' = [held EXCEPT ![c] = record]
  /\ \E createCheckpoint \in BOOLEAN : Goto(c, IF createCheckpoint THEN "pause" ELSE "stop")
  /\ UNCHANGED <<record, restarted, boxVars, data, written, fileVars, hub, bytes, ref,
                 created, tries, expired, disturbed>>

\* A command for an agent the node does not have returns an error.
NotFound(c) ==
  /\ At(c, "idle") /\ Free /\ record = 0
  /\ UNCHANGED vars

RunAgent(c) ==
  /\ At(c, "idle") /\ Free /\ record = 0 /\ made < MaxContainers
  /\ mu' = c
  /\ kind' = [kind EXCEPT ![c] = "run"]
  /\ \/ Goto(c, "start") /\ UNCHANGED ref
     \/ /\ \E s \in hub : ref' = [ref EXCEPT ![c] = s.ref]
        /\ Goto(c, "download")
  /\ UNCHANGED <<record, restarted, boxVars, data, written, fileVars, hub, held, bytes,
                 created, tries, expired, disturbed>>

-----------------------------------------------------------------------------
(* Engine.Create.                                                           *)

\* Another command is inside Create, or inside the restore of the directory.
Others(c) == {d \in Commands \ {c} : InCreate(d) \/ At(d, "clear") \/ At(d, "extract")}

Disturb(c) ==
  disturbed' = [d \in Commands |->
                  disturbed[d] \/ (Others(c) # {} /\ d \in Others(c) \cup {c})]

\* Mutant of Pause: the deferred resume is set up before the pause succeeds.
PauseResumesAnyway(c) ==
  /\ At(c, "pause")
  /\ \/ /\ In(held[c], "running") /\ ~expired[c]
        /\ box' = [box EXCEPT !.mode = "paused"]
        /\ Disturb(c) /\ Goto(c, "open")
     \/ /\ Refuses(c) \/ ~In(held[c], "running")
        /\ Goto(c, "resume")
        /\ UNCHANGED <<box, disturbed>>
  /\ UNCHANGED <<managerVars, made, data, written, fileVars, hub, localVars, expired>>

Pause(c) ==
  /\ At(c, "pause")
  /\ \/ /\ In(held[c], "running") /\ ~expired[c]
        /\ box' = [box EXCEPT !.mode = "paused"]
        /\ Disturb(c) /\ Goto(c, "open")
        /\ UNCHANGED <<mu, localVars, expired>>
     \/ /\ Refuses(c) \/ ~In(held[c], "running")
        /\ AfterCreate(c)
        /\ UNCHANGED box
  /\ UNCHANGED <<record, restarted, made, data, written, fileVars, hub>>

\* The temporary archive is created, or truncated if it is there already.
ArchiveOpen(c) ==
  /\ At(c, "open")
  /\ \/ /\ tmp' = tmp \cup {c}
        /\ bytes' = [bytes EXCEPT ![c] = data]
        /\ Goto(c, "walk")
     \/ UNCHANGED <<tmp, bytes>> /\ Goto(c, "resume")
  /\ UNCHANGED <<managerVars, boxVars, data, written, file, hub, kind, held, ref, created,
                 tries, expired, disturbed>>

\* The walk ends and the archive is renamed, or the temporary file removed.
ArchiveClose(c) ==
  /\ At(c, "walk")
  /\ tmp' = {}
  /\ \/ /\ tmp # {}
        /\ file' = {IF tmp = {c} THEN bytes[c] \cup data ELSE Nothing}
        /\ Goto(c, "hash")
     \/ Goto(c, "resume") /\ UNCHANGED file
  /\ bytes' = [bytes EXCEPT ![c] = Nothing]
  /\ UNCHANGED <<managerVars, boxVars, data, written, hub, kind, held, ref, created, tries,
                 expired, disturbed>>

\* Mutant of Hash: the directory is hashed instead of the file.
HashDirectory(c) ==
  /\ At(c, "hash")
  /\ \/ /\ ref' = [ref EXCEPT ![c] = data]
        /\ Goto(c, "upload")
     \/ Goto(c, "resume") /\ UNCHANGED ref
  /\ UNCHANGED <<managerVars, boxVars, data, written, fileVars, hub, kind, held, bytes, created,
                 tries, expired, disturbed>>

Hash(c) ==
  /\ At(c, "hash")
  /\ \/ /\ \E content \in file : ref' = [ref EXCEPT ![c] = content]
        /\ Goto(c, "upload")
     \/ Goto(c, "resume") /\ UNCHANGED ref
  /\ UNCHANGED <<managerVars, boxVars, data, written, fileVars, hub, kind, held, bytes, created,
                 tries, expired, disturbed>>

\* The hub may have stored a snapshot whose upload failed.
Upload(c) ==
  /\ At(c, "upload")
  /\ \/ /\ ~expired[c]
        /\ \E content \in file : hub' = hub \cup {[ref |-> ref[c], data |-> content]}
        /\ created' = [created EXCEPT ![c] = TRUE]
        /\ UNCHANGED file
     \/ /\ \/ UNCHANGED hub
           \/ /\ ~expired[c]
              /\ \E content \in file : hub' = hub \cup {[ref |-> ref[c], data |-> content]}
        /\ file' = {}
        /\ UNCHANGED created
  /\ Cardinality(hub') <= MaxSnapshots
  /\ Goto(c, "resume")
  /\ UNCHANGED <<managerVars, boxVars, data, written, tmp, kind, held, bytes, ref, tries,
                 expired, disturbed>>

\* Mutant of Resume: the first failure is the last attempt.
ResumeOnce(c) ==
  /\ At(c, "resume")
  /\ \/ /\ In(held[c], "paused") /\ ~expired[c]
        /\ box' = [box EXCEPT !.mode = "running"]
     \/ /\ Refuses(c) \/ ~In(held[c], "paused")
        /\ UNCHANGED box
  /\ AfterCreate(c)
  /\ UNCHANGED <<record, restarted, made, data, written, fileVars, hub>>

\* Mutant of Resume: one attempt more.
ResumeOnceMore(c) ==
  /\ At(c, "resume")
  /\ \/ /\ In(held[c], "paused") /\ ~expired[c]
        /\ box' = [box EXCEPT !.mode = "running"]
        /\ AfterCreate(c)
     \/ /\ Refuses(c) \/ ~In(held[c], "paused")
        /\ IF tries[c] < ResumeAttempts
           THEN /\ tries' = [tries EXCEPT ![c] = @ + 1]
                /\ UNCHANGED <<mu, pc, kind, held, bytes, ref, created, expired, disturbed>>
           ELSE AfterCreate(c)
        /\ UNCHANGED box
  /\ UNCHANGED <<record, restarted, made, data, written, fileVars, hub>>

\* Deferred until Create returns: up to ResumeAttempts calls, all of them with
\* the context of the command.
Resume(c) ==
  /\ At(c, "resume")
  /\ \/ /\ In(held[c], "paused") /\ ~expired[c]
        /\ box' = [box EXCEPT !.mode = "running"]
        /\ AfterCreate(c)
     \/ /\ Refuses(c) \/ ~In(held[c], "paused")
        /\ IF tries[c] + 1 < ResumeAttempts
           THEN /\ tries' = [tries EXCEPT ![c] = @ + 1]
                /\ UNCHANGED <<mu, pc, kind, held, bytes, ref, created, expired, disturbed>>
           ELSE AfterCreate(c)
        /\ UNCHANGED box
  /\ UNCHANGED <<record, restarted, made, data, written, fileVars, hub>>

-----------------------------------------------------------------------------
(* The rest of migrate_out and of Manager.Stop.                             *)

\* WaitForSnapshotConfirmation asks the hub for the reference up to 30 times.
Confirm(c) ==
  /\ At(c, "confirm")
  /\ \/ /\ ~expired[c] /\ \E s \in hub : s.ref = ref[c]
        /\ Continue(c, "lock")
     \/ Return(c)
  /\ UNCHANGED <<record, restarted, boxVars, data, written, fileVars, hub>>

\* Stop looks the agent up again: it need not be the one that was archived.
MigrateStop(c) ==
  /\ At(c, "lock") /\ Free
  /\ IF record = 0
     THEN Return(c)
     ELSE /\ mu' = c
          /\ held' = [held EXCEPT ![c] = record]
          /\ Goto(c, "stop")
          /\ UNCHANGED <<kind, bytes, ref, created, tries, expired, disturbed>>
  /\ UNCHANGED <<record, restarted, boxVars, data, written, fileVars, hub>>

\* Docker stops a paused container too.
StopContainer(c) ==
  /\ At(c, "stop")
  /\ \/ /\ Holds(held[c]) /\ ~expired[c]
        /\ box' = [box EXCEPT !.mode = "exited"]
        /\ Continue(c, "remove")
     \/ /\ Refuses(c) \/ ~Holds(held[c])
        /\ Return(c)
        /\ UNCHANGED box
  /\ UNCHANGED <<record, restarted, made, data, written, fileVars, hub>>

RemoveContainer(c) ==
  /\ At(c, "remove")
  /\ \/ /\ Holds(held[c]) /\ ~expired[c]
        /\ box' = Gone /\ record' = 0
     \/ /\ Refuses(c) \/ ~Holds(held[c])
        /\ UNCHANGED <<box, record>>
  /\ Return(c)
  /\ UNCHANGED <<restarted, made, data, written, fileVars, hub>>

-----------------------------------------------------------------------------
(* Manager.Run with a snapshot: Engine.Restore, then the container.         *)

Download(c) ==
  /\ At(c, "download")
  /\ \/ /\ ~expired[c]
        /\ \/ \E s \in hub : s.ref = ref[c] /\ bytes' = [bytes EXCEPT ![c] = s.data]
           \/ bytes' = [bytes EXCEPT ![c] = Corrupted]
        /\ Goto(c, "verify")
        /\ UNCHANGED <<mu, kind, held, ref, created, tries, expired, disturbed>>
     \/ Return(c)
  /\ UNCHANGED <<record, restarted, boxVars, data, written, fileVars, hub>>

\* Mutant of Verify: any complete download is taken.
VerifyNothing(c) ==
  /\ At(c, "verify")
  /\ Goto(c, "clear") /\ Disturb(c)
  /\ UNCHANGED <<mu, localVars, expired>>
  /\ UNCHANGED <<record, restarted, boxVars, data, written, fileVars, hub>>

\* From here the commands that archive the directory are disturbed.
Verify(c) ==
  /\ At(c, "verify")
  /\ \/ /\ bytes[c] = ref[c]
        /\ Goto(c, "clear") /\ Disturb(c)
        /\ UNCHANGED <<mu, localVars, expired>>
     \/ /\ bytes[c] # ref[c]
        /\ Return(c)
  /\ UNCHANGED <<record, restarted, boxVars, data, written, fileVars, hub>>

\* os.RemoveAll, which may fail half-way.
Clear(c) ==
  /\ At(c, "clear")
  /\ data' = Nothing
  /\ Continue(c, "extract") \/ Return(c)
  /\ UNCHANGED <<record, restarted, boxVars, written, fileVars, hub>>

Extract(c) ==
  /\ At(c, "extract")
  /\ \/ data' = bytes[c] /\ Continue(c, "start")
     \/ UNCHANGED data /\ Return(c)
  /\ UNCHANGED <<record, restarted, boxVars, written, fileVars, hub>>

\* Create, which evicts a container of that name, and Start.
StartAgent(c) ==
  /\ At(c, "start")
  /\ \/ /\ ~expired[c] /\ made < MaxContainers
        /\ made' = made + 1
        /\ box' = [cid |-> made', mode |-> "running"]
        /\ record' = made'
     \/ /\ box' \in {box, Gone}
        /\ UNCHANGED <<made, record>>
  /\ Return(c)
  /\ UNCHANGED <<restarted, data, written, fileVars, hub>>

-----------------------------------------------------------------------------
(* What the rest of the manager, the agent and the world do.                *)

\* A restart replaces the container, whatever state that is in, without the
\* lock: it has read the record before, and records the new container later.
RestartContainer ==
  /\ restarted = 0 /\ made \in 1 .. MaxContainers - 1
  /\ made' = made + 1
  /\ box' = [cid |-> made', mode |-> "running"]
  /\ restarted' = made'
  /\ UNCHANGED <<mu, record, data, written, fileVars, hub, pc, localVars, expired, disturbed>>

\* If the agent is gone by then it removes the new container instead.
RestartCommit ==
  /\ Free /\ restarted # 0
  /\ restarted' = 0
  /\ IF record # 0
     THEN record' = restarted /\ UNCHANGED box
     ELSE UNCHANGED record /\ box' \in {IF Holds(restarted) THEN Gone ELSE box}
                                       \cup (IF DockerErrors THEN {box} ELSE {})
  /\ UNCHANGED <<mu, made, data, written, fileVars, hub, pc, localVars, expired, disturbed>>

\* The manager gives the agent up; the removal may fail.
GiveUp ==
  /\ Free /\ record # 0
  /\ record' = 0
  /\ box' \in {Gone} \cup (IF DockerErrors THEN {box} ELSE {})
  /\ UNCHANGED <<mu, restarted, made, data, written, fileVars, hub, pc, localVars, expired,
                 disturbed>>

AgentWrites ==
  /\ box.mode = "running" /\ written < MaxWrites
  /\ written' = written + 1
  /\ data' = {written'}
  /\ UNCHANGED <<managerVars, boxVars, fileVars, hub, pc, localVars, expired, disturbed>>

\* The process ends, or the container is removed: also while it is paused.
ContainerEnds ==
  /\ box.mode \in {"running", "paused"}
  /\ box' \in {Gone, [box EXCEPT !.mode = "exited"]}
  /\ UNCHANGED <<managerVars, made, data, written, fileVars, hub, pc, localVars, expired,
                 disturbed>>

-----------------------------------------------------------------------------
CreateStep(c) ==
  \/ Pause(c) \/ ArchiveOpen(c) \/ ArchiveClose(c) \/ Hash(c) \/ Upload(c) \/ Resume(c)

StopStep(c) == Confirm(c) \/ MigrateStop(c) \/ StopContainer(c) \/ RemoveContainer(c)

RunStep(c) == Download(c) \/ Verify(c) \/ Clear(c) \/ Extract(c) \/ StartAgent(c)

Command(c) == CreateStep(c) \/ StopStep(c) \/ RunStep(c)

Arrive(c) == Checkpoint(c) \/ StopAgent(c) \/ NotFound(c) \/ RunAgent(c)

Environment ==
  \/ RestartContainer \/ RestartCommit \/ GiveUp \/ AgentWrites \/ ContainerEnds

Next == (\E c \in Commands : Arrive(c) \/ Command(c) \/ Expire(c)) \/ Environment

Spec == Init /\ [][Next]_vars

-----------------------------------------------------------------------------
(* Properties.                                                              *)

\* engine.go:52-83: the pause is a lock: two commands never archive the agent
\* of one container at once, since Docker does not pause it a second time and a
\* command whose pause failed does not resume it.
PauseExcludes ==
  \A c, d \in Commands : InCreate(c) /\ InCreate(d) /\ c # d => held[c] # held[d]

\* engine.go:52-127: while a command archives the agent, and unless the container
\* ends or is replaced or the directory or the file is shared, nothing writes:
\* the snapshot file and its reference are those of the directory as it is.
SnapshotConsistent ==
  \A c \in Commands :
    InCreate(c) /\ Holds(held[c]) /\ box.mode # "exited" /\ ~disturbed[c] =>
      /\ box.mode = "paused"
      /\ At(c, "walk") => bytes[c] = data
      /\ At(c, "hash") => file = {data}
      /\ At(c, "upload") => file = {data} /\ ref[c] = data

\* engine.go:56-83: Create gives its container back: it leaves it paused only
\* after ResumeAttempts attempts to resume it have failed.
ResumedUnlessTried ==
  [][\A c \in Commands :
       InCreate(c) /\ ~InCreate(c)' /\ In(held[c], "paused")
         => box'.mode = "running" \/ tries[c] = ResumeAttempts - 1]_vars

\* daemon.go:564-587: a migration removes the agent only when the hub has its
\* snapshot, and unless the directory or the file was shared while it was made,
\* the bytes the hub has are those of the reference.
MigratedIsStored ==
  [][\A c \in Commands :
       kind[c] = "migrate" /\ At(c, "remove") /\ record # 0 /\ record' = 0
         => [ref |-> ref[c], data |-> ref[c]] \in hub \/ disturbed[c]]_vars

\* engine.go:167-270: a failed or corrupted download never costs the agent its
\* directory: what changes it, apart from the agent, is a command that holds an
\* archive with the hash it was asked for, and clears the directory or fills it
\* with that archive.
RestoreVerified ==
  [][data' # data /\ written' = written =>
       \E c \in Commands : /\ At(c, "clear") \/ At(c, "extract")
                           /\ bytes[c] = ref[c]
                           /\ data' \in {Nothing, ref[c]}]_vars

\* manager.go:57-162, daemon.go:578-587: Manager.mu is held by a command that is
\* inside Run or Stop, through its checkpoint or its restore, and by one at most.
Locks(c) ==
  /\ pc[c] # "idle"
  /\ kind[c] \in {"stop", "run"} \/ (kind[c] = "migrate" /\ pc[c] \in StopSteps)

HolderWorks == \A c \in Commands : mu = c <=> Locks(c)

\* The steps of a command, counted from its end; attempts to resume are one.
StepsAfter ==
  [pause |-> 14, open |-> 13, walk |-> 12, hash |-> 11, upload |-> 10, resume |-> 9,
   confirm |-> 8, lock |-> 7, stop |-> 6, remove |-> 5,
   download |-> 4, verify |-> 3, clear |-> 2, extract |-> 1, start |-> 0]

Nearer(c) ==
  \/ pc'[c] = "idle"
  \/ StepsAfter[pc'[c]] < StepsAfter[pc[c]]
  \/ pc'[c] = "resume" /\ UNCHANGED pc[c] /\ tries'[c] = tries[c] + 1

\* engine.go, daemon.go:540-600: every step of a command brings it nearer to its
\* end, whatever fails, and none of the others takes it back: only the resume is
\* tried again, and that is counted.
CommandsOnlyForward ==
  [][\A c \in Commands : pc[c] # "idle" =>
       IF Command(c) THEN Nearer(c) ELSE UNCHANGED <<pc[c], tries[c]>>]_vars

-----------------------------------------------------------------------------
(* A statement of the repository that the code does not keep.               *)

\* engine_unit_test.go:256-257: "Container should be resumed after snapshot".
ResumedAfterSnapshot ==
  box.mode = "paused" => \E c \in Commands : InCreate(c) /\ held[c] = box.cid
=============================================================================
