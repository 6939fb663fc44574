-------------------------- MODULE SnapshotEngineProofs --------------------------
(***************************************************************************)
(* Proofs about SnapshotEngine for any number of commands, containers and  *)
(* versions: types, the pause as a lock, what it buys for the snapshot, and *)
(* what a migration and a restore may rely on.                             *)
(***************************************************************************)
EXTENDS SnapshotEngine, TLAPS

USE DEF managerVars, boxVars, fileVars, localVars

LocalsOK ==
  /\ mu \in Commands \cup {Nobody}
  /\ pc \in [Commands -> Steps]
  /\ kind \in [Commands -> Kinds]
  /\ held \in [Commands -> Nat]
  /\ bytes \in [Commands -> Content]
  /\ ref \in [Commands -> Content]
  /\ created \in [Commands -> BOOLEAN]
  /\ tries \in [Commands -> 0 .. ResumeAttempts - 1]
  /\ expired \in [Commands -> BOOLEAN]
  /\ disturbed \in [Commands -> BOOLEAN]

ManagerOK ==
  /\ record \in Nat /\ restarted \in Nat
  /\ box \in [cid : Nat, mode : Modes]
  /\ made \in Nat

FilesOK ==
  /\ data \in Content
  /\ written \in Nat
  /\ tmp \in SUBSET Commands
  /\ file \in SUBSET Content
  /\ hub \in SUBSET [ref : Content, data : Content]

LEMMA TypeParts == TypeOK <=> LocalsOK /\ ManagerOK /\ FilesOK
BY Zenon DEF TypeOK, LocalsOK, ManagerOK, FilesOK

LEMMA TypePartsNext == TypeOK' <=> LocalsOK' /\ ManagerOK' /\ FilesOK'
BY Zenon DEF TypeOK, LocalsOK, ManagerOK, FilesOK

\* Containers are numbered in order of creation.
Numbered == box.cid <= made /\ record <= made /\ restarted <= made

\* A command inside Create, or restoring the directory, is busy with it. One in
\* Create that is not disturbed is alone with the directory and the files.
Restoring(c) == pc[c] \in {"clear", "extract"}
Busy(c) == InCreate(c) \/ Restoring(c)
Alone == \A c, d \in Commands : InCreate(c) /\ ~disturbed[c] /\ c # d => ~Busy(d)

\* The temporary archive belongs to commands that walk the directory.
Walkers == \A c \in tmp : At(c, "walk")

\* There is one snapshot file or none.
OneFile == \A x, y \in file : x = y

\* What holds for each command by itself. The container of one inside Create
\* does not run.
Halted(c) == held[c] <= made /\ (InCreate(c) /\ Holds(held[c]) => box.mode # "running")

\* The archive, the file and the reference of an undisturbed command are its own.
OwnFiles(c) ==
  ~disturbed[c] => /\ At(c, "walk") => tmp = {c}
                   /\ At(c, "upload") => file = {ref[c]}

Consistent(c) ==
  InCreate(c) /\ Holds(held[c]) /\ box.mode # "exited" /\ ~disturbed[c] =>
    /\ box.mode = "paused"
    /\ At(c, "walk") => bytes[c] = data
    /\ At(c, "hash") => file = {data}
    /\ At(c, "upload") => file = {data} /\ ref[c] = data

\* Once a snapshot is created the hub has it, until the migration is over.
Stored(c) == [ref |-> ref[c], data |-> ref[c]] \in hub
AfterUpload == {"resume", "confirm", "lock", "stop", "remove"}
Uploaded(c) ==
  /\ created[c] => pc[c] \in AfterUpload
  /\ ~disturbed[c] =>
       /\ At(c, "resume") /\ created[c] => Stored(c)
       /\ kind[c] = "migrate" /\ pc[c] \in AfterUpload \ {"resume"} => Stored(c)

\* What a restore clears the directory for has the hash it was asked for.
Verified(c) == Restoring(c) => bytes[c] = ref[c]

Own(c) == Halted(c) /\ OwnFiles(c) /\ Consistent(c) /\ Uploaded(c) /\ Verified(c)

IInv ==
  /\ TypeOK /\ Numbered /\ PauseExcludes /\ Alone /\ Walkers /\ OneFile
  /\ \A c \in Commands : Own(c)

-----------------------------------------------------------------------------
(* Types.                                                                   *)

LEMMA UpdateType ==
  ASSUME NEW S, NEW T, NEW f \in [S -> T], NEW s \in S, NEW v \in T
  PROVE  [f EXCEPT ![s] = v] \in [S -> T]
OBVIOUS

LEMMA StepNames ==
  /\ CreateSteps \cup StopSteps \cup RunSteps \cup {"idle", "pause", "confirm", "lock"} = Steps
  /\ {"open", "walk", "hash", "upload", "resume", "stop", "remove", "download", "verify",
      "clear", "extract", "start", "idle", "pause", "confirm", "lock"} = Steps
BY DEF Steps, CreateSteps, StopSteps, RunSteps

LEMMA ForgetType ==
  ASSUME LocalsOK, NEW c \in Commands, Forget(c)
  PROVE  /\ bytes' \in [Commands -> Content] /\ ref' \in [Commands -> Content]
         /\ tries' \in [Commands -> 0 .. ResumeAttempts - 1]
         /\ created' \in [Commands -> BOOLEAN] /\ disturbed' \in [Commands -> BOOLEAN]
<1>1. bytes' \in [Commands -> Content] /\ ref' \in [Commands -> Content]
  BY DEF LocalsOK, Forget, Content, Nothing
<1>2. tries' \in [Commands -> 0 .. ResumeAttempts - 1]
  BY SnapshotAssumption DEF LocalsOK, Forget
<1>3. created' \in [Commands -> BOOLEAN] /\ disturbed' \in [Commands -> BOOLEAN]
  BY UpdateType, Zenon DEF LocalsOK, Forget
<1>. QED BY <1>1, <1>2, <1>3

LEMMA ReturnType ==
  ASSUME LocalsOK, NEW c \in Commands, Return(c)
  PROVE  LocalsOK'
<1>1. expired' \in [Commands -> BOOLEAN]
  BY UpdateType, Zenon DEF LocalsOK, Return
<1>2. /\ pc' \in [Commands -> Steps] /\ kind' \in [Commands -> Kinds]
      /\ held' \in [Commands -> Nat] /\ mu' \in Commands \cup {Nobody}
  BY DEF LocalsOK, Return, Goto, Steps, Kinds
<1>. QED BY <1>1, <1>2, ForgetType DEF LocalsOK, Return

LEMMA ContinueType ==
  ASSUME LocalsOK, NEW c \in Commands, NEW to \in Steps, Continue(c, to)
  PROVE  LocalsOK'
BY DEF LocalsOK, Continue, Goto

LEMMA AfterCreateType ==
  ASSUME LocalsOK, NEW c \in Commands, AfterCreate(c)
  PROVE  LocalsOK'
<1>1. CASE StopAfterCreate(c)
  <2>1. pc' \in [Commands -> Steps]
    BY <1>1, StepNames DEF LocalsOK, StopAfterCreate, Goto
  <2>. QED BY <1>1, <2>1, ForgetType DEF LocalsOK, StopAfterCreate
<1>2. CASE MigrateAfterCreate(c)
  <2>1. pc' \in [Commands -> Steps]
    BY <1>2, StepNames DEF LocalsOK, MigrateAfterCreate, Goto
  <2>2. tries' \in [Commands -> 0 .. ResumeAttempts - 1]
    BY <1>2, SnapshotAssumption DEF LocalsOK, MigrateAfterCreate
  <2>. QED BY <1>2, <2>1, <2>2 DEF LocalsOK, MigrateAfterCreate
<1>3. CASE Return(c)
  BY <1>3, ReturnType
<1>. QED BY <1>1, <1>2, <1>3 DEF AfterCreate

LEMMA DisturbType ==
  ASSUME NEW c \in Commands, Disturb(c)
  PROVE  disturbed' \in [Commands -> BOOLEAN]
<1>1. \A d \in Commands :
        (disturbed[d] \/ (Others(c) # {} /\ d \in Others(c) \cup {c})) \in BOOLEAN
  BY Zenon
<1>. QED BY <1>1, Zenon DEF Disturb

LEMMA MoveType ==
  ASSUME LocalsOK, NEW c \in Commands, NEW to \in Steps, Goto(c, to)
  PROVE  pc' \in [Commands -> Steps]
BY DEF LocalsOK, Goto

LEMMA ArriveType ==
  ASSUME TypeOK, NEW c \in Commands, Arrive(c)
  PROVE  TypeOK'
<1>. LocalsOK /\ ManagerOK /\ FilesOK
  BY TypeParts
<1>1. CASE Checkpoint(c)
  <2>1. kind' \in [Commands -> Kinds]
    BY <1>1 DEF Checkpoint, LocalsOK, Kinds
  <2>2. held' \in [Commands -> Nat]
    BY <1>1 DEF Checkpoint, LocalsOK, ManagerOK
  <2>3. LocalsOK'
    BY <1>1, <2>1, <2>2, MoveType, StepNames DEF Checkpoint, LocalsOK
  <2>4. ManagerOK' /\ FilesOK'
    BY <1>1 DEF Checkpoint, ManagerOK, FilesOK
  <2>. QED BY <2>3, <2>4, TypePartsNext
<1>2. CASE StopAgent(c)
  <2>1. kind' \in [Commands -> Kinds] /\ mu' \in Commands \cup {Nobody}
    BY <1>2 DEF StopAgent, LocalsOK, Kinds
  <2>2. held' \in [Commands -> Nat]
    BY <1>2 DEF StopAgent, LocalsOK, ManagerOK
  <2>3. Goto(c, "pause") \/ Goto(c, "stop")
    BY <1>2 DEF StopAgent
  <2>4. LocalsOK'
    BY <1>2, <2>1, <2>2, <2>3, MoveType, StepNames DEF StopAgent, LocalsOK
  <2>5. ManagerOK' /\ FilesOK'
    BY <1>2 DEF StopAgent, ManagerOK, FilesOK
  <2>. QED BY <2>4, <2>5, TypePartsNext
<1>3. CASE NotFound(c)
  BY <1>3, TypePartsNext DEF NotFound, vars, LocalsOK, ManagerOK, FilesOK
<1>4. CASE RunAgent(c)
  <2>1. kind' \in [Commands -> Kinds] /\ mu' \in Commands \cup {Nobody}
    BY <1>4 DEF RunAgent, LocalsOK, Kinds
  <2>2. \A s \in hub : s.ref \in Content
    BY DEF FilesOK
  <2>3. ref' \in [Commands -> Content]
    BY <1>4, <2>2 DEF RunAgent, LocalsOK
  <2>4. Goto(c, "start") \/ Goto(c, "download")
    BY <1>4 DEF RunAgent
  <2>5. LocalsOK'
    BY <1>4, <2>1, <2>3, <2>4, MoveType, StepNames DEF RunAgent, LocalsOK
  <2>6. ManagerOK' /\ FilesOK'
    BY <1>4 DEF RunAgent, ManagerOK, FilesOK
  <2>. QED BY <2>5, <2>6, TypePartsNext
<1>. QED BY <1>1, <1>2, <1>3, <1>4 DEF Arrive

LEMMA CreateType ==
  ASSUME TypeOK, NEW c \in Commands, CreateStep(c)
  PROVE  TypeOK'
<1>. LocalsOK /\ ManagerOK /\ FilesOK
  BY TypeParts
<1>1. CASE Pause(c)
  <2>1. LocalsOK'
    <3>1. CASE Disturb(c) /\ Goto(c, "open") /\ UNCHANGED <<mu, localVars, expired>>
      BY <3>1, DisturbType, MoveType, StepNames DEF LocalsOK
    <3>2. CASE AfterCreate(c)
      BY <3>2, AfterCreateType
    <3>. QED BY <1>1, <3>1, <3>2 DEF Pause
  <2>2. ManagerOK' /\ FilesOK'
    BY <1>1 DEF Pause, ManagerOK, FilesOK, Modes
  <2>. QED BY <2>1, <2>2, TypePartsNext
<1>2. CASE ArchiveOpen(c)
  <2>1. bytes' \in [Commands -> Content]
    BY <1>2 DEF ArchiveOpen, LocalsOK, FilesOK
  <2>2. Goto(c, "walk") \/ Goto(c, "resume")
    BY <1>2 DEF ArchiveOpen
  <2>3. LocalsOK'
    BY <1>2, <2>1, <2>2, MoveType, StepNames DEF ArchiveOpen, LocalsOK
  <2>4. ManagerOK' /\ FilesOK'
    BY <1>2 DEF ArchiveOpen, ManagerOK, FilesOK
  <2>. QED BY <2>3, <2>4, TypePartsNext
<1>3. CASE ArchiveClose(c)
  <2>1. bytes' \in [Commands -> Content] /\ bytes[c] \in Content
    BY <1>3 DEF ArchiveClose, LocalsOK, Content, Nothing
  <2>2. Goto(c, "hash") \/ Goto(c, "resume")
    BY <1>3 DEF ArchiveClose
  <2>3. LocalsOK'
    BY <1>3, <2>1, <2>2, MoveType, StepNames DEF ArchiveClose, LocalsOK
  <2>4. file' \in SUBSET Content
    <3>1. bytes[c] \cup data \in Content /\ Nothing \in Content
      BY <2>1 DEF FilesOK, Content, Nothing
    <3>. QED BY <1>3, <3>1 DEF ArchiveClose, FilesOK
  <2>5. ManagerOK' /\ FilesOK'
    BY <1>3, <2>4 DEF ArchiveClose, ManagerOK, FilesOK
  <2>. QED BY <2>3, <2>5, TypePartsNext
<1>4. CASE Hash(c)
  <2>1. ref' \in [Commands -> Content]
    BY <1>4 DEF Hash, LocalsOK, FilesOK
  <2>2. Goto(c, "upload") \/ Goto(c, "resume")
    BY <1>4 DEF Hash
  <2>3. LocalsOK'
    BY <1>4, <2>1, <2>2, MoveType, StepNames DEF Hash, LocalsOK
  <2>4. ManagerOK' /\ FilesOK'
    BY <1>4 DEF Hash, ManagerOK, FilesOK
  <2>. QED BY <2>3, <2>4, TypePartsNext
<1>5. CASE Upload(c)
  <2>1. created' \in [Commands -> BOOLEAN]
    <3>1. created' = [created EXCEPT ![c] = TRUE] \/ created' = created
      BY <1>5 DEF Upload
    <3>. QED BY <3>1, UpdateType, Zenon DEF LocalsOK
  <2>2. LocalsOK'
    BY <1>5, <2>1, MoveType, StepNames DEF Upload, LocalsOK
  <2>3. hub' \in SUBSET [ref : Content, data : Content]
    <3>1. ref[c] \in Content
      BY DEF LocalsOK
    <3>2. \A content \in file : [ref |-> ref[c], data |-> content] \in [ref : Content, data : Content]
      BY <3>1 DEF FilesOK
    <3>3. \/ hub' = hub
          \/ \E content \in file : hub' = hub \cup {[ref |-> ref[c], data |-> content]}
      BY <1>5 DEF Upload
    <3>. QED BY <3>2, <3>3 DEF FilesOK
  <2>4. file' \in SUBSET Content
    BY <1>5 DEF Upload, FilesOK
  <2>5. ManagerOK' /\ FilesOK'
    BY <1>5, <2>3, <2>4 DEF Upload, ManagerOK, FilesOK
  <2>. QED BY <2>2, <2>5, TypePartsNext
<1>6. CASE Resume(c)
  <2>1. LocalsOK'
    <3>1. CASE AfterCreate(c)
      BY <3>1, AfterCreateType
    <3>2. CASE /\ tries[c] + 1 < ResumeAttempts
               /\ tries' = [tries EXCEPT ![c] = @ + 1]
               /\ UNCHANGED <<mu, pc, kind, held, bytes, ref, created, expired, disturbed>>
      <4>1. tries[c] + 1 \in 0 .. ResumeAttempts - 1
        BY <3>2, SnapshotAssumption DEF LocalsOK
      <4>. QED BY <3>2, <4>1 DEF LocalsOK
    <3>. QED BY <1>6, <3>1, <3>2 DEF Resume
  <2>2. ManagerOK' /\ FilesOK'
    BY <1>6 DEF Resume, ManagerOK, FilesOK, Modes
  <2>. QED BY <2>1, <2>2, TypePartsNext
<1>. QED BY <1>1, <1>2, <1>3, <1>4, <1>5, <1>6 DEF CreateStep

LEMMA StopType ==
  ASSUME TypeOK, NEW c \in Commands, StopStep(c) \/ Expire(c)
  PROVE  TypeOK'
<1>. LocalsOK /\ ManagerOK /\ FilesOK
  BY TypeParts
<1>1. CASE Confirm(c)
  <2>1. LocalsOK'
    BY <1>1, ContinueType, ReturnType, StepNames DEF Confirm
  <2>. QED BY <1>1, <2>1, TypePartsNext DEF Confirm, ManagerOK, FilesOK
<1>2. CASE MigrateStop(c)
  <2>1. LocalsOK'
    <3>1. CASE Return(c)
      BY <3>1, ReturnType
    <3>2. CASE /\ mu' = c /\ held' = [held EXCEPT ![c] = record] /\ Goto(c, "stop")
               /\ UNCHANGED <<kind, bytes, ref, created, tries, expired, disturbed>>
      BY <3>2, MoveType, StepNames DEF LocalsOK, ManagerOK
    <3>. QED BY <1>2, <3>1, <3>2 DEF MigrateStop
  <2>. QED BY <1>2, <2>1, TypePartsNext DEF MigrateStop, ManagerOK, FilesOK
<1>3. CASE StopContainer(c)
  <2>1. LocalsOK'
    BY <1>3, ContinueType, ReturnType, StepNames DEF StopContainer
  <2>2. ManagerOK' /\ FilesOK'
    BY <1>3 DEF StopContainer, ManagerOK, FilesOK, Modes
  <2>. QED BY <2>1, <2>2, TypePartsNext
<1>4. CASE RemoveContainer(c)
  <2>1. LocalsOK'
    BY <1>4, ReturnType DEF RemoveContainer
  <2>2. ManagerOK' /\ FilesOK'
    BY <1>4 DEF RemoveContainer, ManagerOK, FilesOK, Modes, Gone
  <2>. QED BY <2>1, <2>2, TypePartsNext
<1>5. CASE Expire(c)
  <2>1. expired' \in [Commands -> BOOLEAN]
    BY <1>5, UpdateType, Zenon DEF Expire, LocalsOK
  <2>. QED BY <1>5, <2>1, TypePartsNext DEF Expire, LocalsOK, ManagerOK, FilesOK
<1>. QED BY <1>1, <1>2, <1>3, <1>4, <1>5 DEF StopStep

LEMMA RunType ==
  ASSUME TypeOK, NEW c \in Commands, RunStep(c)
  PROVE  TypeOK'
<1>. LocalsOK /\ ManagerOK /\ FilesOK
  BY TypeParts
<1>1. CASE Download(c)
  <2>1. LocalsOK'
    <3>1. CASE Return(c)
      BY <3>1, ReturnType
    <3>2. ASSUME NEW content \in Content, bytes' = [bytes EXCEPT ![c] = content],
                 Goto(c, "verify"),
                 UNCHANGED <<mu, kind, held, ref, created, tries, expired, disturbed>>
          PROVE  LocalsOK'
      BY <3>2, MoveType, StepNames DEF LocalsOK
    <3>3. Corrupted \in Content /\ \A s \in hub : s.data \in Content
      BY DEF FilesOK, Corrupted, Content
    <3>. QED BY <1>1, <3>1, <3>2, <3>3 DEF Download
  <2>. QED BY <1>1, <2>1, TypePartsNext DEF Download, ManagerOK, FilesOK
<1>2. CASE Verify(c)
  <2>1. LocalsOK'
    <3>1. CASE Return(c)
      BY <3>1, ReturnType
    <3>2. CASE Goto(c, "clear") /\ Disturb(c) /\ UNCHANGED <<mu, localVars, expired>>
      BY <3>2, MoveType, DisturbType, StepNames DEF LocalsOK
    <3>. QED BY <1>2, <3>1, <3>2 DEF Verify
  <2>. QED BY <1>2, <2>1, TypePartsNext DEF Verify, ManagerOK, FilesOK
<1>3. CASE Clear(c)
  <2>1. LocalsOK'
    BY <1>3, ContinueType, ReturnType, StepNames DEF Clear
  <2>. QED BY <1>3, <2>1, TypePartsNext DEF Clear, ManagerOK, FilesOK, Nothing, Content
<1>4. CASE Extract(c)
  <2>1. LocalsOK'
    BY <1>4, ContinueType, ReturnType, StepNames DEF Extract
  <2>2. bytes[c] \in Content
    BY DEF LocalsOK
  <2>. QED BY <1>4, <2>1, <2>2, TypePartsNext DEF Extract, ManagerOK, FilesOK
<1>5. CASE StartAgent(c)
  <2>1. LocalsOK'
    BY <1>5, ReturnType DEF StartAgent
  <2>2. ManagerOK'
    BY <1>5 DEF StartAgent, ManagerOK, Modes, Gone
  <2>. QED BY <1>5, <2>1, <2>2, TypePartsNext DEF StartAgent, FilesOK
<1>. QED BY <1>1, <1>2, <1>3, <1>4, <1>5 DEF RunStep

LEMMA EnvironmentType ==
  ASSUME TypeOK, Environment
  PROVE  TypeOK'
<1>. LocalsOK /\ ManagerOK /\ FilesOK
  BY TypeParts
<1>1. CASE RestartContainer \/ RestartCommit \/ GiveUp \/ ContainerEnds
  <2>1. ManagerOK'
    BY <1>1 DEF RestartContainer, RestartCommit, GiveUp, ContainerEnds, ManagerOK, Modes, Gone
  <2>2. LocalsOK' /\ FilesOK'
    BY <1>1 DEF RestartContainer, RestartCommit, GiveUp, ContainerEnds, LocalsOK, FilesOK
  <2>. QED BY <2>1, <2>2, TypePartsNext
<1>2. CASE AgentWrites
  <2>1. FilesOK'
    BY <1>2 DEF AgentWrites, FilesOK, Content
  <2>. QED BY <1>2, <2>1, TypePartsNext DEF AgentWrites, LocalsOK, ManagerOK
<1>. QED BY <1>1, <1>2 DEF Environment

LEMMA InitType == Init => TypeOK
<1>. SUFFICES ASSUME Init PROVE TypeOK
  OBVIOUS
<1>1. /\ created \in [Commands -> BOOLEAN]
      /\ expired \in [Commands -> BOOLEAN]
      /\ disturbed \in [Commands -> BOOLEAN]
  BY Zenon DEF Init
<1>2. tries \in [Commands -> 0 .. ResumeAttempts - 1]
  BY SnapshotAssumption DEF Init
<1>3. LocalsOK
  BY <1>1, <1>2 DEF Init, LocalsOK, Steps, Kinds, Content, Nothing
<1>4. ManagerOK /\ FilesOK
  BY DEF Init, ManagerOK, FilesOK, Gone, Modes, Content
<1>. QED BY <1>3, <1>4, TypeParts

LEMMA NextType == TypeOK /\ [Next]_vars => TypeOK'
<1>. SUFFICES ASSUME TypeOK, [Next]_vars PROVE TypeOK'
  OBVIOUS
<1>1. ASSUME NEW c \in Commands, Arrive(c) \/ Command(c) \/ Expire(c)
      PROVE  TypeOK'
  BY <1>1, ArriveType, CreateType, StopType, RunType DEF Command
<1>2. CASE Environment
  BY <1>2, EnvironmentType
<1>3. CASE UNCHANGED vars
  BY <1>3, TypeParts, TypePartsNext DEF vars, LocalsOK, ManagerOK, FilesOK
<1>. QED BY <1>1, <1>2, <1>3 DEF Next

-----------------------------------------------------------------------------
(* A step of one command, as the others see it.                             *)

\* The local variables of the other commands stay, but they may be disturbed.
Frame(c) ==
  \A d \in Commands \ {c} :
    /\ pc'[d] = pc[d] /\ kind'[d] = kind[d] /\ held'[d] = held[d]
    /\ bytes'[d] = bytes[d] /\ ref'[d] = ref[d] /\ created'[d] = created[d]
    /\ disturbed[d] => disturbed'[d]

\* The containers of the other commands inside Create stay as they are or end.
KeepsBoxes(c) ==
  \A d \in Commands \ {c} :
    InCreate(d) /\ box'.cid = held[d] /\ box'.mode # "exited" => box' = box

\* A command that was not busy leaves the directory and the files alone, and
\* disturbs the others if it becomes busy; it enters Create with a container no
\* other command has there.
Polite(c) ==
  /\ ~Busy(c) => data' = data /\ file' = file /\ tmp' = tmp
  /\ ~Busy(c) /\ Busy(c)' => \A d \in Commands \ {c} : InCreate(d) => disturbed'[d]
  /\ InCreate(c)' =>
       \/ InCreate(c) /\ held'[c] = held[c] /\ (disturbed[c] => disturbed'[c])
       \/ /\ \A d \in Commands \ {c} : InCreate(d) => held[d] # held'[c]
          /\ ~disturbed'[c] => \A d \in Commands \ {c} : ~Busy(d)

LEMMA OthersKeepOwn ==
  ASSUME IInv, NEW c \in Commands, NEW d \in Commands \ {c},
         Frame(c), KeepsBoxes(c), Polite(c), made' >= made, made' \in Nat, hub \subseteq hub'
  PROVE  Own(d)'
<1>. DEFINE same == /\ pc'[d] = pc[d] /\ kind'[d] = kind[d] /\ held'[d] = held[d]
                    /\ bytes'[d] = bytes[d] /\ ref'[d] = ref[d] /\ created'[d] = created[d]
                    /\ disturbed[d] => disturbed'[d]
<1>1. same /\ Own(d) /\ held[d] \in Nat /\ made \in Nat
  BY DEF Frame, IInv, TypeOK
<1>2. InCreate(d) /\ ~disturbed'[d] => data' = data /\ file' = file /\ tmp' = tmp
  BY <1>1 DEF IInv, Alone, Polite
<1>3. Halted(d)'
  BY <1>1 DEF Own, Halted, KeepsBoxes, InCreate, Holds
<1>4. OwnFiles(d)'
  BY <1>1, <1>2 DEF Own, OwnFiles, At, InCreate, CreateSteps
<1>5. Consistent(d)'
  BY <1>1, <1>2 DEF Own, Consistent, KeepsBoxes, At, InCreate, Holds
<1>6. Uploaded(d)'
  BY <1>1 DEF Own, Uploaded, Stored, At
<1>7. Verified(d)'
  BY <1>1 DEF Own, Verified, Restoring
<1>. QED BY <1>3, <1>4, <1>5, <1>6, <1>7 DEF Own

LEMMA CommandInv ==
  ASSUME IInv, TypeOK', NEW c \in Commands, Frame(c), KeepsBoxes(c), Polite(c),
         made' >= made, hub \subseteq hub', Numbered', Walkers', OneFile', Own(c)'
  PROVE  IInv'
<1>1. \A d \in Commands \ {c} : Own(d)'
  BY OthersKeepOwn DEF TypeOK
<1>2. PauseExcludes'
  BY DEF IInv, PauseExcludes, Frame, Polite, InCreate
<1>3. Alone'
  BY DEF IInv, Alone, Frame, Polite, Busy, InCreate, Restoring
<1>. QED BY <1>1, <1>2, <1>3 DEF IInv

-----------------------------------------------------------------------------
(* Steps after which the command is not busy with the directory.             *)

\* The part of Own that is left of a command that is not busy.
Quiet(c) ==
  /\ ~Busy(c) /\ held[c] <= made
  /\ created[c] => pc[c] \in AfterUpload
  /\ kind[c] = "migrate" /\ pc[c] \in AfterUpload /\ ~disturbed[c] => Stored(c)

LEMMA QuietOwn ==
  ASSUME NEW c \in Commands, Quiet(c)'
  PROVE  Own(c)'
<1>1. ~InCreate(c)' /\ ~Restoring(c)'
  BY DEF Quiet, Busy
<1>2. Halted(c)' /\ Consistent(c)' /\ Verified(c)'
  BY <1>1 DEF Quiet, Halted, Consistent, Verified
<1>3. OwnFiles(c)' /\ Uploaded(c)'
  BY <1>1 DEF Quiet, OwnFiles, Uploaded, At, InCreate, CreateSteps
<1>. QED BY <1>2, <1>3 DEF Own

LEMMA QuietInv ==
  ASSUME IInv, TypeOK', NEW c \in Commands, Frame(c), KeepsBoxes(c), Quiet(c)',
         ~At(c, "walk"), tmp' = tmp, file' = file, data' = data \/ Busy(c),
         made' >= made, hub' = hub, Numbered'
  PROVE  IInv'
<1>1. Polite(c)
  BY DEF Polite, Quiet, Busy
<1>2. Walkers' /\ OneFile'
  BY DEF IInv, TypeOK, Walkers, OneFile, Frame, At
<1>3. Own(c)'
  BY QuietOwn
<1>. QED BY <1>1, <1>2, <1>3, CommandInv

\* No part of the invariant is about contexts or attempts to resume.
LEMMA SameInv ==
  ASSUME IInv, TypeOK', UNCHANGED <<record, restarted, boxVars, data, fileVars, hub>>,
         UNCHANGED <<pc, kind, held, bytes, ref, created, disturbed>>
  PROVE  IInv'
<1>1. (Numbered /\ PauseExcludes /\ Alone /\ Walkers /\ OneFile)'
  BY DEF IInv, Numbered, PauseExcludes, Alone, Walkers, OneFile, Busy, InCreate, Restoring, At
<1>2. ASSUME NEW c \in Commands
      PROVE  Own(c)'
  BY DEF IInv, Own, Halted, OwnFiles, Consistent, Uploaded, Verified, InCreate, Restoring,
         Holds, At, Stored
<1>. QED BY <1>1, <1>2 DEF IInv

\* What a command forgets, and what the others see of it.
LEMMA ForgetFacts ==
  ASSUME LocalsOK, NEW c \in Commands, Forget(c)
  PROVE  /\ \A d \in Commands \ {c} :
              /\ bytes'[d] = bytes[d] /\ ref'[d] = ref[d] /\ created'[d] = created[d]
              /\ disturbed'[d] = disturbed[d]
         /\ created'[c] = FALSE /\ disturbed'[c] = FALSE
BY DEF LocalsOK, Forget

LEMMA ReturnFacts ==
  ASSUME LocalsOK, NEW c \in Commands, Return(c)
  PROVE  /\ Frame(c)
         /\ pc'[c] = "idle" /\ kind'[c] = "none" /\ held'[c] = 0 /\ created'[c] = FALSE
BY ForgetFacts DEF LocalsOK, Return, Goto, Frame

LEMMA ReturnQuiet ==
  ASSUME LocalsOK, NEW c \in Commands, Return(c), made' \in Nat
  PROVE  Quiet(c)'
<1>1. pc'[c] = "idle" /\ kind'[c] = "none" /\ held'[c] = 0 /\ created'[c] = FALSE
  BY ReturnFacts
<1>. QED BY <1>1 DEF Quiet, Busy, InCreate, CreateSteps, Restoring, AfterUpload

LEMMA AfterCreateQuiet ==
  ASSUME IInv, NEW c \in Commands, AfterCreate(c), made' = made, hub' = hub,
         At(c, "pause") \/ At(c, "resume")
  PROVE  Frame(c) /\ Quiet(c)'
<1>. LocalsOK /\ Own(c) /\ made \in Nat
  BY TypeParts DEF IInv, ManagerOK
<1>1. CASE Return(c)
  BY <1>1, ReturnFacts, ReturnQuiet
<1>2. CASE kind[c] = "stop" /\ StopAfterCreate(c)
  <2>1. pc'[c] = "stop" /\ kind'[c] = "stop" /\ held'[c] = held[c] /\ created'[c] = FALSE
    BY <1>2, ForgetFacts DEF StopAfterCreate, Goto, LocalsOK
  <2>2. Frame(c)
    BY <1>2, ForgetFacts DEF StopAfterCreate, Goto, LocalsOK, Frame
  <2>3. Quiet(c)'
    BY <2>1 DEF Quiet, Busy, InCreate, CreateSteps, Restoring, AfterUpload, Own, Halted
  <2>. QED BY <2>2, <2>3
<1>3. CASE kind[c] = "migrate" /\ created[c] /\ MigrateAfterCreate(c)
  <2>1. /\ pc'[c] = "confirm" /\ held'[c] = held[c] /\ ref'[c] = ref[c]
        /\ disturbed'[c] = disturbed[c]
    BY <1>3 DEF MigrateAfterCreate, Goto, LocalsOK
  <2>2. Frame(c)
    BY <1>3 DEF MigrateAfterCreate, Goto, LocalsOK, Frame
  <2>3. ~disturbed[c] => Stored(c)
    BY <1>3 DEF Own, Uploaded, At, AfterUpload
  <2>4. Quiet(c)'
    BY <2>1, <2>3 DEF Quiet, Busy, InCreate, CreateSteps, Restoring, AfterUpload, Own, Halted,
                      Stored
  <2>. QED BY <2>2, <2>4
<1>. QED BY <1>1, <1>2, <1>3 DEF AfterCreate

-----------------------------------------------------------------------------
(* The commands that arrive, and the steps of Stop and of Run.               *)

\* No other command's container is touched if none is, or if it ends, or if a
\* new one takes its place.
LEMMA BoxKept ==
  ASSUME IInv, NEW c \in Commands,
         box' = box \/ box'.mode = "exited" \/ box'.cid > made
  PROVE  KeepsBoxes(c)
BY DEF IInv, TypeOK, Own, Halted, KeepsBoxes

LEMMA ArriveInv ==
  ASSUME IInv, TypeOK', NEW c \in Commands, Arrive(c)
  PROVE  IInv'
<1>. /\ LocalsOK /\ ManagerOK /\ Own(c)
  BY TypeParts DEF IInv
<1>1. CASE Checkpoint(c)
  <2>1. /\ pc'[c] = "pause" /\ held'[c] = record /\ created'[c] = created[c]
        /\ pc[c] = "idle" /\ created' = created
    BY <1>1 DEF Checkpoint, Goto, At, LocalsOK
  <2>2. Quiet(c)'
    BY <1>1, <2>1 DEF Checkpoint, Quiet, Busy, InCreate, CreateSteps, Restoring, AfterUpload,
                      Own, Uploaded, IInv, Numbered
  <2>3. Frame(c)
    BY <1>1 DEF Checkpoint, Goto, Frame, LocalsOK
  <2>4. Numbered' /\ made' >= made
    BY <1>1 DEF Checkpoint, IInv, Numbered, ManagerOK
  <2>. QED BY <1>1, <2>2, <2>3, <2>4, QuietInv, BoxKept DEF Checkpoint, At
<1>2. CASE StopAgent(c)
  <2>1. /\ pc'[c] \in {"pause", "stop"} /\ held'[c] = record /\ kind'[c] = "stop"
        /\ pc[c] = "idle" /\ created' = created
    BY <1>2 DEF StopAgent, Goto, At, LocalsOK
  <2>2. Quiet(c)'
    BY <1>2, <2>1 DEF StopAgent, Quiet, Busy, InCreate, CreateSteps, Restoring, AfterUpload,
                      Own, Uploaded, IInv, Numbered
  <2>3. Frame(c)
    BY <1>2 DEF StopAgent, Goto, Frame, LocalsOK
  <2>4. Numbered' /\ made' >= made
    BY <1>2 DEF StopAgent, IInv, Numbered, ManagerOK
  <2>. QED BY <1>2, <2>2, <2>3, <2>4, QuietInv, BoxKept DEF StopAgent, At
<1>3. CASE NotFound(c)
  BY <1>3, SameInv DEF NotFound, vars
<1>4. CASE RunAgent(c)
  <2>1. /\ pc'[c] \in {"start", "download"} /\ held' = held /\ created' = created
        /\ pc[c] = "idle"
    BY <1>4 DEF RunAgent, Goto, At, LocalsOK
  <2>2. Quiet(c)'
    BY <1>4, <2>1 DEF RunAgent, Quiet, Busy, InCreate, CreateSteps, Restoring, AfterUpload,
                      Own, Uploaded, Halted
  <2>3. Frame(c)
    <3>1. \A d \in Commands \ {c} : ref'[d] = ref[d]
      BY <1>4 DEF RunAgent, LocalsOK
    <3>. QED BY <1>4, <3>1 DEF RunAgent, Goto, Frame, LocalsOK
  <2>4. Numbered' /\ made' >= made
    BY <1>4 DEF RunAgent, IInv, Numbered, ManagerOK
  <2>. QED BY <1>4, <2>2, <2>3, <2>4, QuietInv, BoxKept DEF RunAgent, At
<1>. QED BY <1>1, <1>2, <1>3, <1>4 DEF Arrive

LEMMA StopInv ==
  ASSUME IInv, TypeOK', NEW c \in Commands, StopStep(c)
  PROVE  IInv'
<1>. /\ LocalsOK /\ ManagerOK /\ Own(c) /\ ManagerOK'
  BY TypeParts, TypePartsNext DEF IInv
<1>. DEFINE Shared == hub' = hub /\ made' = made /\ tmp' = tmp /\ file' = file /\ data' = data
<1>1. Shared
  BY DEF StopStep, Confirm, MigrateStop, StopContainer, RemoveContainer
<1>2. box' = box \/ box'.mode = "exited"
  BY DEF StopStep, Confirm, MigrateStop, StopContainer, RemoveContainer, ManagerOK, Gone
<1>3. Numbered'
  BY DEF StopStep, Confirm, MigrateStop, StopContainer, RemoveContainer, IInv, Numbered,
         ManagerOK, Gone
<1>4. pc[c] \in {"confirm", "lock", "stop", "remove"}
  BY DEF StopStep, Confirm, MigrateStop, StopContainer, RemoveContainer, At
<1>5. Frame(c) /\ Quiet(c)'
  <2>1. CASE Return(c)
    BY <1>1, <2>1, ReturnFacts, ReturnQuiet DEF ManagerOK
  <2>2. ASSUME NEW to \in {"lock", "remove"}, Continue(c, to)
        PROVE  Frame(c) /\ Quiet(c)'
    BY <1>1, <1>4, <2>2 DEF Continue, Goto, Frame, Quiet, Busy, InCreate, CreateSteps, Restoring,
                       AfterUpload, Own, Halted, Uploaded, Stored, LocalsOK
  <2>3. CASE /\ held' = [held EXCEPT ![c] = record] /\ Goto(c, "stop")
             /\ UNCHANGED <<kind, bytes, ref, created, tries, expired, disturbed>>
    BY <1>1, <1>4, <2>3 DEF Goto, Frame, Quiet, Busy, InCreate, CreateSteps, Restoring,
                       AfterUpload, Own, Uploaded, Stored, LocalsOK, IInv, Numbered
  <2>. QED BY <2>1, <2>2, <2>3 DEF StopStep, Confirm, MigrateStop, StopContainer, RemoveContainer
<1>6. KeepsBoxes(c) /\ ~At(c, "walk") /\ made' >= made
  BY <1>1, <1>2, <1>4, BoxKept DEF At, ManagerOK
<1>. QED BY <1>1, <1>3, <1>5, <1>6, QuietInv

LEMMA RunInv ==
  ASSUME IInv, TypeOK', NEW c \in Commands, RunStep(c)
  PROVE  IInv'
<1>. /\ LocalsOK /\ ManagerOK /\ Own(c) /\ ManagerOK'
  BY TypeParts, TypePartsNext DEF IInv
<1>1. hub' = hub /\ tmp' = tmp /\ file' = file /\ made' >= made
  BY DEF RunStep, Download, Verify, Clear, Extract, StartAgent, ManagerOK
<1>2. box' = box \/ box'.mode = "exited" \/ box'.cid > made
  BY DEF RunStep, Download, Verify, Clear, Extract, StartAgent, ManagerOK, Gone
<1>3. Numbered'
  BY DEF RunStep, Download, Verify, Clear, Extract, StartAgent, IInv, Numbered, ManagerOK, Gone
<1>4. pc[c] \in {"download", "verify", "clear", "extract", "start"}
  BY DEF RunStep, Download, Verify, Clear, Extract, StartAgent, At
<1>5. data' = data \/ Busy(c)
  BY DEF RunStep, Download, Verify, Clear, Extract, StartAgent, At, Busy, Restoring
<1>6. KeepsBoxes(c) /\ ~At(c, "walk")
  BY <1>2, <1>4, BoxKept DEF At
<1>7. ~created[c]
  BY <1>4 DEF Own, Uploaded, AfterUpload
<1>8. CASE Frame(c) /\ Quiet(c)'
  BY <1>1, <1>3, <1>5, <1>6, <1>8, QuietInv
<1>9. CASE Return(c)
  BY <1>8, <1>9, ReturnFacts, ReturnQuiet DEF ManagerOK
<1>10. CASE /\ Goto(c, "verify")
            /\ \E content : bytes' = [bytes EXCEPT ![c] = content]
            /\ UNCHANGED <<kind, held, ref, created, disturbed>>
  <2>1. Frame(c)
    BY <1>10 DEF Goto, Frame, LocalsOK
  <2>2. Quiet(c)'
    BY <1>1, <1>7, <1>10 DEF Goto, Quiet, Busy, InCreate, CreateSteps, Restoring, AfterUpload, Own,
                        Halted, LocalsOK, ManagerOK
  <2>. QED BY <1>8, <2>1, <2>2
<1>11. CASE Continue(c, "start")
  <2>1. Frame(c) /\ Quiet(c)'
    BY <1>1, <1>7, <1>11 DEF Continue, Goto, Frame, Quiet, Busy, InCreate, CreateSteps, Restoring,
                        AfterUpload, Own, Halted, LocalsOK, ManagerOK
  <2>. QED BY <1>8, <2>1
<1>12. ASSUME pc'[c] \in {"clear", "extract"}, Goto(c, pc'[c]), bytes[c] = ref[c],
              UNCHANGED localVars, Busy(c) \/ (Disturb(c) /\ data' = data),
              \A d \in Commands : disturbed[d] => disturbed'[d]
       PROVE  IInv'
  <2>1. Frame(c)
    BY <1>12 DEF Goto, Frame, LocalsOK
  <2>2. Polite(c)
    BY <1>1, <1>12 DEF Polite, Busy, InCreate, CreateSteps, Restoring, Disturb, Others
  <2>3. Own(c)'
    BY <1>1, <1>7, <1>12 DEF Own, Halted, OwnFiles, Consistent, Uploaded, Verified, InCreate,
                        CreateSteps, AfterUpload, Restoring, At, LocalsOK, ManagerOK
  <2>4. Walkers' /\ OneFile'
    BY <1>1, <1>6, <2>1 DEF IInv, TypeOK, Walkers, OneFile, Frame, At
  <2>. QED BY <1>1, <1>3, <1>6, <2>1, <2>2, <2>3, <2>4, CommandInv
<1>13. CASE Continue(c, "extract") /\ At(c, "clear")
  <2>1. pc'[c] = "extract" /\ Busy(c) /\ bytes[c] = ref[c]
    BY <1>13 DEF Continue, Goto, LocalsOK, At, Own, Verified, Busy, Restoring
  <2>. QED BY <1>12, <1>13, <2>1 DEF Continue
<1>14. CASE /\ Goto(c, "clear") /\ Disturb(c) /\ bytes[c] = ref[c] /\ data' = data
            /\ UNCHANGED localVars
  <2>1. pc'[c] = "clear"
    BY <1>14 DEF Goto, LocalsOK
  <2>2. \A d \in Commands : disturbed[d] => disturbed'[d]
    BY <1>14 DEF Disturb
  <2>. QED BY <1>12, <1>14, <2>1, <2>2
<1>. QED BY <1>9, <1>10, <1>11, <1>13, <1>14
         DEF RunStep, Download, Verify, Clear, Extract, StartAgent

-----------------------------------------------------------------------------
(* The steps of Create.                                                      *)

LEMMA PauseInv ==
  ASSUME IInv, TypeOK', NEW c \in Commands, Pause(c)
  PROVE  IInv'
<1>. LocalsOK /\ ManagerOK /\ Own(c) /\ pc[c] = "pause" /\ ~Busy(c) /\ ~created[c]
  BY TypeParts DEF IInv, Pause, At, Busy, InCreate, CreateSteps, Restoring, Own, Uploaded,
                   AfterUpload
<1>1. hub' = hub /\ made' = made /\ tmp' = tmp /\ file' = file /\ data' = data /\ made' >= made
  BY DEF Pause, ManagerOK
<1>2. Numbered'
  BY DEF Pause, IInv, Numbered, ManagerOK
<1>3. CASE AfterCreate(c) /\ box' = box
  BY <1>1, <1>2, <1>3, AfterCreateQuiet, BoxKept, QuietInv DEF At
<1>4. CASE /\ In(held[c], "running") /\ box' = [box EXCEPT !.mode = "paused"]
           /\ Disturb(c) /\ Goto(c, "open") /\ UNCHANGED localVars
  <2>1. pc'[c] = "open" /\ \A d \in Commands : disturbed[d] => disturbed'[d]
    BY <1>4 DEF Goto, Disturb, LocalsOK
  <2>2. Frame(c)
    BY <1>4, <2>1 DEF Goto, Frame, LocalsOK
  <2>3. box.cid = held[c] /\ box.mode = "running" /\ box'.mode = "paused"
    BY <1>4 DEF In, ManagerOK
  <2>4. \A d \in Commands \ {c} : InCreate(d) => held[d] # held[c]
    BY <2>3 DEF IInv, Own, Halted, Holds
  <2>5. KeepsBoxes(c)
    BY <1>4, <2>3, <2>4 DEF KeepsBoxes, ManagerOK
  <2>6. Polite(c)
    <3>1. \A d \in Commands \ {c} : InCreate(d) => disturbed'[d]
      BY <1>4 DEF Disturb, Others
    <3>2. ~disturbed'[c] => \A d \in Commands \ {c} : ~Busy(d)
      BY <1>4 DEF Disturb, Others, Busy, Restoring, At
    <3>. QED BY <1>1, <1>4, <2>4, <3>1, <3>2 DEF Polite
  <2>7. Own(c)'
    BY <1>1, <1>4, <2>1, <2>3 DEF Own, Halted, OwnFiles, Consistent, Uploaded, Verified,
       InCreate, Restoring, At, AfterUpload
  <2>8. Walkers' /\ OneFile'
    BY <1>1, <2>2 DEF IInv, TypeOK, Walkers, OneFile, Frame, At
  <2>. QED BY <1>1, <1>2, <2>2, <2>5, <2>6, <2>7, <2>8, CommandInv
<1>. QED BY <1>3, <1>4 DEF Pause

\* A step within Create. What it does to the files is a matter between the
\* command and the others that share them, which are disturbed.
LEMMA WithinInv ==
  ASSUME IInv, TypeOK', NEW c \in Commands, InCreate(c), InCreate(c)', Frame(c),
         UNCHANGED <<boxVars, record, restarted, data, held, disturbed>>,
         hub \subseteq hub', Walkers', OneFile',
         OwnFiles(c)', Uploaded(c)',
         ~disturbed[c] /\ pc'[c] # "resume" /\ Consistent(c) => Consistent(c)'
  PROVE  IInv'
<1>1. Own(c) /\ made \in Nat
  BY DEF IInv, TypeOK
<1>2. Halted(c)' /\ Verified(c)'
  BY <1>1 DEF Own, Halted, Verified, InCreate, CreateSteps, Restoring, Holds
<1>3. Consistent(c)'
  BY <1>1 DEF Own, Consistent, InCreate, Holds, At
<1>4. KeepsBoxes(c) /\ Polite(c)
  BY DEF KeepsBoxes, Polite, Busy
<1>5. Numbered'
  BY DEF IInv, Numbered
<1>. QED BY <1>1, <1>2, <1>3, <1>4, <1>5, CommandInv DEF Own

LEMMA ArchiveOpenInv ==
  ASSUME IInv, TypeOK', NEW c \in Commands, ArchiveOpen(c)
  PROVE  IInv'
<1>. LocalsOK /\ Own(c) /\ pc[c] = "open" /\ InCreate(c) /\ ~created[c] /\ tmp \subseteq Commands
  BY TypeParts DEF IInv, TypeOK, ArchiveOpen, At, InCreate, CreateSteps, Own, Uploaded, AfterUpload
<1>1. Frame(c)
  BY DEF ArchiveOpen, Goto, Frame, LocalsOK
<1>2. pc'[c] \in {"walk", "resume"} /\ InCreate(c)'
  BY DEF ArchiveOpen, Goto, LocalsOK, InCreate, CreateSteps
<1>3. pc'[c] = "walk" => tmp' = tmp \cup {c} /\ bytes'[c] = data
  BY DEF ArchiveOpen, Goto, LocalsOK
<1>4. pc'[c] # "walk" => tmp' = tmp
  BY DEF ArchiveOpen, Goto, LocalsOK
<1>5. c \notin tmp
  BY DEF IInv, Walkers, At
<1>6. Walkers' /\ OneFile'
  BY <1>1, <1>3, <1>4, <1>5 DEF ArchiveOpen, IInv, Walkers, OneFile, Frame, At
<1>7. ~disturbed[c] => tmp = {}
  BY <1>5 DEF IInv, Alone, Walkers, Busy, InCreate, CreateSteps, At
<1>8. OwnFiles(c)' /\ Uploaded(c)'
  BY <1>2, <1>3, <1>7 DEF ArchiveOpen, OwnFiles, Uploaded, At, AfterUpload
<1>9. /\ UNCHANGED <<boxVars, record, restarted, data, held, disturbed>>
      /\ hub \subseteq hub'
  BY DEF ArchiveOpen
<1>10. pc'[c] # "resume" /\ Consistent(c) => Consistent(c)'
  BY <1>2, <1>3, <1>9 DEF Consistent, At, Holds
<1>. QED BY <1>1, <1>2, <1>6, <1>8, <1>9, <1>10, WithinInv

LEMMA ArchiveCloseInv ==
  ASSUME IInv, TypeOK', NEW c \in Commands, ArchiveClose(c)
  PROVE  IInv'
<1>. LocalsOK /\ Own(c) /\ pc[c] = "walk" /\ InCreate(c) /\ ~created[c]
  BY TypeParts DEF IInv, ArchiveClose, At, InCreate, CreateSteps, Own, Uploaded, AfterUpload
<1>1. Frame(c)
  BY DEF ArchiveClose, Goto, Frame, LocalsOK
<1>2. pc'[c] \in {"hash", "resume"} /\ InCreate(c)'
  BY DEF ArchiveClose, Goto, LocalsOK, InCreate, CreateSteps
<1>3. /\ UNCHANGED <<boxVars, record, restarted, data, held, disturbed>>
      /\ hub \subseteq hub'
  BY DEF ArchiveClose
<1>4. Walkers' /\ OneFile'
  BY DEF ArchiveClose, IInv, Walkers, OneFile
<1>5. OwnFiles(c)' /\ Uploaded(c)'
  BY <1>2 DEF ArchiveClose, OwnFiles, Uploaded, At, AfterUpload
<1>6. ~disturbed[c] /\ pc'[c] # "resume" /\ Consistent(c) => Consistent(c)'
  <2>1. ~disturbed[c] => tmp = {c}
    BY DEF Own, OwnFiles, At
  <2>2. pc'[c] = "hash" /\ tmp = {c} => file' = {bytes[c] \cup data}
    BY DEF ArchiveClose, Goto, LocalsOK
  <2>. QED BY <1>2, <1>3, <2>1, <2>2 DEF Consistent, At, Holds
<1>. QED BY <1>1, <1>2, <1>3, <1>4, <1>5, <1>6, WithinInv

LEMMA HashInv ==
  ASSUME IInv, TypeOK', NEW c \in Commands, Hash(c)
  PROVE  IInv'
<1>. LocalsOK /\ Own(c) /\ pc[c] = "hash" /\ InCreate(c) /\ ~created[c] /\ tmp \subseteq Commands
  BY TypeParts DEF IInv, TypeOK, Hash, At, InCreate, CreateSteps, Own, Uploaded, AfterUpload
<1>1. Frame(c)
  <2>1. \A d \in Commands \ {c} : ref'[d] = ref[d]
    BY DEF Hash, LocalsOK
  <2>. QED BY <2>1 DEF Hash, Goto, Frame, LocalsOK
<1>2. pc'[c] \in {"upload", "resume"} /\ InCreate(c)'
  BY DEF Hash, Goto, LocalsOK, InCreate, CreateSteps
<1>3. /\ UNCHANGED <<boxVars, record, restarted, data, held, disturbed>>
      /\ hub \subseteq hub'
  BY DEF Hash
<1>4. Walkers' /\ OneFile'
  BY <1>1 DEF Hash, IInv, Walkers, OneFile, Frame, At
<1>5. pc'[c] = "upload" => file' = {ref'[c]} /\ file' = file
  BY DEF Hash, Goto, LocalsOK, IInv, OneFile
<1>6. OwnFiles(c)' /\ Uploaded(c)'
  BY <1>2, <1>5 DEF Hash, OwnFiles, Uploaded, At, AfterUpload
<1>7. ~disturbed[c] /\ pc'[c] # "resume" /\ Consistent(c) => Consistent(c)'
  BY <1>2, <1>3, <1>5 DEF Consistent, At, Holds
<1>. QED BY <1>1, <1>2, <1>3, <1>4, <1>6, <1>7, WithinInv

LEMMA UploadInv ==
  ASSUME IInv, TypeOK', NEW c \in Commands, Upload(c)
  PROVE  IInv'
<1>. LocalsOK /\ Own(c) /\ pc[c] = "upload" /\ InCreate(c) /\ ~created[c] /\ tmp \subseteq Commands
  BY TypeParts DEF IInv, TypeOK, Upload, At, InCreate, CreateSteps, Own, Uploaded, AfterUpload
<1>1. Frame(c)
  <2>1. \A d \in Commands \ {c} : created'[d] = created[d]
    BY DEF Upload, LocalsOK
  <2>. QED BY <2>1 DEF Upload, Goto, Frame, LocalsOK
<1>2. pc'[c] = "resume" /\ InCreate(c)'
  BY DEF Upload, Goto, LocalsOK, InCreate, CreateSteps
<1>3. UNCHANGED <<boxVars, record, restarted, data, held, disturbed>> /\ ref' = ref
  BY DEF Upload
<1>4. hub \subseteq hub'
  BY DEF Upload
<1>5. Walkers' /\ OneFile'
  BY <1>1 DEF Upload, IInv, Walkers, OneFile, Frame, At
<1>6. ~disturbed[c] /\ created'[c] => Stored(c)'
  BY DEF Own, OwnFiles, At, Upload, Stored
<1>7. OwnFiles(c)' /\ Uploaded(c)'
  BY <1>2, <1>3, <1>6 DEF OwnFiles, Uploaded, At, AfterUpload
<1>. QED BY <1>1, <1>2, <1>3, <1>4, <1>5, <1>7, WithinInv

LEMMA ResumeInv ==
  ASSUME IInv, TypeOK', NEW c \in Commands, Resume(c)
  PROVE  IInv'
<1>. LocalsOK /\ ManagerOK /\ Own(c) /\ pc[c] = "resume" /\ InCreate(c)
  BY TypeParts DEF IInv, Resume, At, InCreate, CreateSteps
<1>1. /\ hub' = hub /\ made' = made /\ tmp' = tmp /\ file' = file /\ data' = data
      /\ record' = record /\ restarted' = restarted /\ made' >= made
  BY DEF Resume, ManagerOK
<1>2. Numbered'
  BY DEF Resume, IInv, Numbered, ManagerOK
<1>3. CASE AfterCreate(c)
  <2>1. KeepsBoxes(c)
    <3>1. CASE box' = box
      BY <3>1, BoxKept
    <3>2. CASE In(held[c], "paused") /\ box' = [box EXCEPT !.mode = "running"]
      BY <3>2 DEF In, KeepsBoxes, IInv, PauseExcludes
    <3>. QED BY <3>1, <3>2 DEF Resume
  <2>2. Frame(c) /\ Quiet(c)'
    BY <1>1, <1>3, AfterCreateQuiet DEF At
  <2>. QED BY <1>1, <1>2, <2>1, <2>2, QuietInv DEF At, Busy
<1>4. CASE UNCHANGED <<pc, kind, held, bytes, ref, created, disturbed>> /\ box' = box
  BY <1>1, <1>4, SameInv
<1>. QED BY <1>3, <1>4 DEF Resume

-----------------------------------------------------------------------------
(* The inductive invariant.                                                  *)

LEMMA EnvironmentInv ==
  ASSUME IInv, TypeOK', Environment
  PROVE  IInv'
<1>. ManagerOK /\ ManagerOK' /\ LocalsOK
  BY TypeParts, TypePartsNext DEF IInv
<1>1. UNCHANGED <<fileVars, hub, pc, localVars, disturbed>>
  BY DEF Environment, RestartContainer, RestartCommit, GiveUp, AgentWrites, ContainerEnds
<1>2. Numbered' /\ made' >= made
  BY DEF Environment, RestartContainer, RestartCommit, GiveUp, AgentWrites, ContainerEnds,
         IInv, Numbered, ManagerOK, Gone
<1>3. box' = box \/ box'.mode = "exited" \/ box'.cid > made
  BY DEF Environment, RestartContainer, RestartCommit, GiveUp, AgentWrites, ContainerEnds,
         ManagerOK, Gone
<1>4. data' = data \/ (box' = box /\ box.mode = "running")
  BY DEF Environment, RestartContainer, RestartCommit, GiveUp, AgentWrites, ContainerEnds
<1>5. (PauseExcludes /\ Alone /\ Walkers /\ OneFile)'
  BY <1>1 DEF IInv, PauseExcludes, Alone, Walkers, OneFile, Busy, InCreate, Restoring, At
<1>6. ASSUME NEW c \in Commands
      PROVE  Own(c)'
  <2>1. Own(c) /\ held[c] \in Nat
    BY DEF IInv, LocalsOK
  <2>2. Halted(c)'
    BY <1>1, <1>2, <1>3, <2>1 DEF Own, Halted, InCreate, Holds, ManagerOK
  <2>3. Consistent(c)'
    BY <1>1, <1>3, <1>4, <2>1 DEF Own, Halted, Consistent, InCreate, Holds, At, ManagerOK
  <2>4. OwnFiles(c)' /\ Uploaded(c)' /\ Verified(c)'
    BY <1>1, <2>1 DEF Own, OwnFiles, Uploaded, Verified, At, Stored, Restoring
  <2>. QED BY <2>2, <2>3, <2>4 DEF Own
<1>. QED BY <1>2, <1>5, <1>6 DEF IInv

LEMMA InitInv == Init => IInv
<1>. SUFFICES ASSUME Init PROVE IInv
  OBVIOUS
<1>1. \A c \in Commands : ~Busy(c)
  BY DEF Init, Busy, InCreate, CreateSteps, Restoring
<1>2. Numbered /\ Walkers /\ OneFile
  BY DEF Init, Numbered, Walkers, OneFile, Gone
<1>3. PauseExcludes /\ Alone
  BY <1>1 DEF PauseExcludes, Alone, Busy
<1>4. ASSUME NEW c \in Commands
      PROVE  Own(c)
  <2>1. pc[c] = "idle" /\ held[c] = 0 /\ created[c] = FALSE /\ kind[c] = "none" /\ made \in Nat
    BY DEF Init
  <2>2. Halted(c) /\ Consistent(c) /\ Verified(c)
    BY <1>1, <2>1 DEF Halted, Consistent, Verified, Busy
  <2>3. OwnFiles(c) /\ Uploaded(c)
    BY <2>1 DEF OwnFiles, Uploaded, At
  <2>. QED BY <2>2, <2>3 DEF Own
<1>. QED BY <1>2, <1>3, <1>4, InitType DEF IInv

LEMMA NextInv == IInv /\ [Next]_vars => IInv'
<1>. SUFFICES ASSUME IInv, [Next]_vars PROVE IInv'
  OBVIOUS
<1>1. TypeOK'
  BY NextType DEF IInv
<1>2. ASSUME NEW c \in Commands, Arrive(c) \/ Command(c)
      PROVE  IInv'
  BY <1>1, <1>2, ArriveInv, PauseInv, ArchiveOpenInv, ArchiveCloseInv, HashInv, UploadInv,
     ResumeInv, StopInv, RunInv DEF Command, CreateStep
<1>3. ASSUME NEW c \in Commands, Expire(c)
      PROVE  IInv'
  BY <1>1, <1>3, SameInv DEF Expire
<1>4. CASE Environment
  BY <1>1, <1>4, EnvironmentInv
<1>5. CASE UNCHANGED vars
  BY <1>1, <1>5, SameInv DEF vars
<1>. QED BY <1>2, <1>3, <1>4, <1>5 DEF Next

LEMMA SpecInv == Spec => []IInv
BY InitInv, NextInv, PTL DEF Spec

-----------------------------------------------------------------------------
(* The theorems.                                                             *)

\* A command moves by its own steps only.
LEMMA OnlyOwnSteps ==
  ASSUME LocalsOK, NEW c \in Commands, NEW d \in Commands \ {c},
         Arrive(d) \/ Command(d) \/ Expire(d)
  PROVE  pc'[c] = pc[c]
<1>1. ASSUME NEW to, Goto(d, to)
      PROVE  pc'[c] = pc[c]
  BY <1>1 DEF Goto, LocalsOK
<1>2. CASE Arrive(d) \/ Expire(d)
  BY <1>1, <1>2 DEF Arrive, Checkpoint, StopAgent, NotFound, RunAgent, vars, Expire
<1>3. CASE AfterCreate(d)
  BY <1>1, <1>3 DEF AfterCreate, StopAfterCreate, MigrateAfterCreate, Return
<1>4. CASE CreateStep(d)
  BY <1>1, <1>3, <1>4 DEF CreateStep, Pause, ArchiveOpen, ArchiveClose, Hash, Upload, Resume
<1>5. CASE StopStep(d) \/ RunStep(d)
  BY <1>1, <1>5 DEF StopStep, Confirm, MigrateStop, StopContainer, RemoveContainer, RunStep,
     Download, Verify, Clear, Extract, StartAgent, Continue, Return
<1>. QED BY <1>2, <1>4, <1>5 DEF Command

\* Types: no command tries to resume its container more often than it may.
THEOREM SnapshotTypeOK == Spec => []TypeOK
<1>1. IInv => TypeOK
  BY DEF IInv
<1>. QED BY <1>1, SpecInv, PTL

\* engine.go:52-83: the pause is a lock, for any number of commands and
\* containers: two commands never archive the agent of one container at once.
THEOREM SnapshotPauseExcludes == Spec => []PauseExcludes
<1>1. IInv => PauseExcludes
  BY DEF IInv
<1>. QED BY <1>1, SpecInv, PTL

\* engine.go:52-127: what an undisturbed command archives, hashes and uploads is
\* the agent's directory as it is.
THEOREM SnapshotIsConsistent == Spec => []SnapshotConsistent
<1>1. IInv => SnapshotConsistent
  BY DEF IInv, Own, Consistent, SnapshotConsistent
<1>. QED BY <1>1, SpecInv, PTL

\* engine.go:56-83: Create leaves its container paused only when all its attempts
\* to resume it have failed.
THEOREM SnapshotResumed == Spec => ResumedUnlessTried
<1>1. IInv /\ [Next]_vars =>
        [\A c \in Commands :
           InCreate(c) /\ ~InCreate(c)' /\ In(held[c], "paused")
             => box'.mode = "running" \/ tries[c] = ResumeAttempts - 1]_vars
  <2>. SUFFICES ASSUME IInv, Next, NEW c \in Commands, InCreate(c), ~InCreate(c)',
                       In(held[c], "paused")
                PROVE  box'.mode = "running" \/ tries[c] = ResumeAttempts - 1
    BY DEF InCreate, vars
  <2>. LocalsOK /\ ManagerOK
    BY TypeParts DEF IInv
  <2>1. CASE Resume(c)
    BY <2>1, SnapshotAssumption DEF Resume, LocalsOK, ManagerOK, In, InCreate
  <2>2. ASSUME NEW d \in Commands \ {c}, Arrive(d) \/ Command(d) \/ Expire(d)
        PROVE  FALSE
    <3>1. pc'[c] = pc[c]
      BY <2>2, OnlyOwnSteps
    <3>. QED BY <3>1 DEF InCreate
  <2>3. CASE Arrive(c) \/ Expire(c) \/ StopStep(c) \/ RunStep(c)
    BY <2>3 DEF Arrive, Checkpoint, StopAgent, NotFound, RunAgent, vars, Expire, StopStep,
       Confirm, MigrateStop, StopContainer, RemoveContainer, RunStep, Download, Verify, Clear,
       Extract, StartAgent, InCreate, CreateSteps, At
  <2>4. CASE Pause(c)
    BY <2>4 DEF Pause, At, InCreate, CreateSteps
  <2>5. CASE ArchiveOpen(c) \/ ArchiveClose(c) \/ Hash(c) \/ Upload(c)
    BY <2>5 DEF ArchiveOpen, ArchiveClose, Hash, Upload, Goto, LocalsOK, InCreate, CreateSteps
  <2>6. CASE Environment
    BY <2>6 DEF Environment, RestartContainer, RestartCommit, GiveUp, AgentWrites,
       ContainerEnds, InCreate
  <2>. QED BY <2>1, <2>2, <2>3, <2>4, <2>5, <2>6 DEF Next, Command, CreateStep
<1>. QED BY <1>1, SpecInv, PTL DEF Spec, ResumedUnlessTried

\* daemon.go:564-587: a migration removes the agent only when the hub has its
\* snapshot under its own hash, unless it was disturbed while it made it.
THEOREM SnapshotMigratedIsStored == Spec => MigratedIsStored
<1>1. IInv /\ [Next]_vars =>
        [\A c \in Commands :
           kind[c] = "migrate" /\ At(c, "remove") /\ record # 0 /\ record' = 0
             => [ref |-> ref[c], data |-> ref[c]] \in hub \/ disturbed[c]]_vars
  BY DEF IInv, Own, Uploaded, Stored, AfterUpload, At
<1>. QED BY <1>1, SpecInv, PTL DEF Spec, MigratedIsStored

\* engine.go:167-270: whatever changes the directory, apart from the agent, is a
\* command with the archive it was asked for.
THEOREM SnapshotRestoreVerified == Spec => RestoreVerified
<1>1. IInv /\ [Next]_vars =>
        [data' # data /\ written' = written =>
           \E c \in Commands : /\ At(c, "clear") \/ At(c, "extract")
                               /\ bytes[c] = ref[c]
                               /\ data' \in {Nothing, ref[c]}]_vars
  <2>. SUFFICES ASSUME IInv, Next, data' # data, written' = written
                PROVE  \E c \in Commands : /\ At(c, "clear") \/ At(c, "extract")
                                           /\ bytes[c] = ref[c]
                                           /\ data' \in {Nothing, ref[c]}
    OBVIOUS
  <2>1. ASSUME NEW c \in Commands, Clear(c) \/ Extract(c)
        PROVE  bytes[c] = ref[c] /\ data' \in {Nothing, ref[c]}
    BY <2>1 DEF Clear, Extract, At, IInv, Own, Verified, Restoring
  <2>2. ASSUME NEW c \in Commands, Arrive(c) \/ Command(c) \/ Expire(c)
        PROVE  Clear(c) \/ Extract(c)
    BY <2>2 DEF Arrive, Checkpoint, StopAgent, NotFound, RunAgent, vars, Expire, Command,
       CreateStep, Pause, ArchiveOpen, ArchiveClose, Hash, Upload, Resume, StopStep, Confirm,
       MigrateStop, StopContainer, RemoveContainer, RunStep, Download, Verify, StartAgent
  <2>3. ~Environment
    BY DEF Environment, RestartContainer, RestartCommit, GiveUp, AgentWrites, ContainerEnds,
       IInv, TypeOK
  <2>. QED BY <2>1, <2>2, <2>3 DEF Next, Clear, Extract
<1>. QED BY <1>1, SpecInv, PTL DEF Spec, RestoreVerified

-----------------------------------------------------------------------------
(* Progress, as far as it is a matter of safety: who has Manager.mu, and     *)
(* that a command which goes on comes to its end.                            *)

\* Only a migration asks the hub and takes the lock again.
Migrates(c) == pc[c] \in {"confirm", "lock"} => kind[c] = "migrate"

LockInv == TypeOK /\ HolderWorks /\ \A c \in Commands : Migrates(c)

\* How a step of command c leaves mu, kind and pc.
LeavesLock(c) ==
  \/ pc'[c] = "idle" /\ mu' = IF mu = c THEN Nobody ELSE mu
  \/ /\ UNCHANGED <<mu, kind>> /\ (Locks(c)' <=> Locks(c))
     /\ pc'[c] \in {"confirm", "lock"} => kind[c] = "migrate"
  \/ mu = Nobody /\ mu' = c /\ Locks(c)' /\ pc'[c] \notin {"confirm", "lock"}
  \/ mu = Nobody /\ mu' = Nobody /\ ~Locks(c)' /\ pc'[c] \notin {"confirm", "lock"}

\* The variables of the others stay as they are.
Aside(c) ==
  \A d \in Commands \ {c} : pc'[d] = pc[d] /\ kind'[d] = kind[d] /\ tries'[d] = tries[d]

LEMMA ReturnForward ==
  ASSUME LocalsOK, NEW c \in Commands, Return(c)
  PROVE  Aside(c) /\ LeavesLock(c) /\ Nearer(c)
BY DEF LocalsOK, Return, Forget, Goto, Aside, LeavesLock, Nearer

\* A step to a later one of the same part of the command.
LEMMA GoForward ==
  ASSUME LockInv, NEW c \in Commands, NEW to, Goto(c, to), UNCHANGED <<mu, kind>>,
         <<pc[c], to>> \in {<<"pause", "open">>, <<"open", "walk">>, <<"walk", "hash">>,
                           <<"hash", "upload">>, <<"open", "resume">>, <<"walk", "resume">>,
                           <<"hash", "resume">>, <<"upload", "resume">>, <<"confirm", "lock">>,
                           <<"stop", "remove">>, <<"download", "verify">>, <<"verify", "clear">>,
                           <<"clear", "extract">>, <<"extract", "start">>}
  PROVE  LeavesLock(c) /\ Nearer(c)
<1>1. /\ pc'[c] = to /\ to # "idle" /\ pc[c] # "idle"
      /\ pc[c] \in StopSteps <=> to \in StopSteps
      /\ to \in {"confirm", "lock"} => pc[c] \in {"confirm", "lock"}
      /\ StepsAfter[to] < StepsAfter[pc[c]]
  BY DEF LockInv, TypeOK, Goto, StopSteps, StepsAfter
<1>. QED BY <1>1 DEF LockInv, Migrates, LeavesLock, Locks, Nearer

LEMMA AfterCreateForward ==
  ASSUME LockInv, LocalsOK, NEW c \in Commands, AfterCreate(c), pc[c] \in {"pause", "resume"}
  PROVE  Aside(c) /\ LeavesLock(c) /\ Nearer(c)
<1>1. CASE Return(c)
  BY <1>1, ReturnForward
<1>2. CASE kind[c] = "stop" /\ StopAfterCreate(c)
  <2>1. pc'[c] = "stop" /\ UNCHANGED <<mu, kind>> /\ Aside(c)
    BY <1>2 DEF StopAfterCreate, Forget, Goto, Aside, LocalsOK
  <2>. QED BY <1>2, <2>1 DEF LeavesLock, Locks, Nearer, StepsAfter
<1>3. CASE kind[c] = "migrate" /\ MigrateAfterCreate(c)
  <2>1. pc'[c] = "confirm" /\ UNCHANGED <<mu, kind>> /\ Aside(c)
    BY <1>3 DEF MigrateAfterCreate, Goto, Aside, LocalsOK
  <2>. QED BY <1>3, <2>1 DEF LeavesLock, Locks, Nearer, StepsAfter, StopSteps
<1>. QED BY <1>1, <1>2, <1>3 DEF AfterCreate

LEMMA CommandForward ==
  ASSUME LockInv, NEW c \in Commands, Command(c)
  PROVE  Aside(c) /\ LeavesLock(c) /\ Nearer(c) /\ pc[c] # "idle"
<1>. LocalsOK
  BY TypeParts DEF LockInv
<1>0. ASSUME NEW to, Goto(c, to), UNCHANGED <<kind, tries>> PROVE Aside(c)
  BY <1>0 DEF Goto, Aside, LocalsOK
<1>1. CASE Pause(c)
  <2>1. pc[c] = "pause"
    BY <1>1 DEF Pause, At
  <2>. QED BY <1>0, <1>1, <2>1, GoForward, AfterCreateForward DEF Pause, localVars
<1>2. CASE ArchiveOpen(c) \/ ArchiveClose(c) \/ Hash(c) \/ Upload(c)
  BY <1>0, <1>2, GoForward DEF ArchiveOpen, ArchiveClose, Hash, Upload, At, managerVars
<1>3. CASE Resume(c)
  <2>1. pc[c] = "resume"
    BY <1>3 DEF Resume, At
  <2>2. CASE tries' = [tries EXCEPT ![c] = @ + 1] /\ UNCHANGED <<mu, pc, kind>>
    BY <2>1, <2>2 DEF Aside, LeavesLock, Locks, Nearer, LocalsOK
  <2>. QED BY <1>3, <2>1, <2>2, AfterCreateForward DEF Resume
<1>4. CASE Confirm(c) \/ StopContainer(c) \/ RemoveContainer(c)
  BY <1>0, <1>4, GoForward, ReturnForward DEF Confirm, StopContainer, RemoveContainer, Continue, At, localVars
<1>5. CASE MigrateStop(c)
  <2>1. pc[c] = "lock" /\ mu = Nobody /\ kind[c] = "migrate"
    BY <1>5 DEF MigrateStop, At, Free, LockInv, Migrates
  <2>2. CASE Return(c)
    BY <2>1, <2>2, ReturnForward
  <2>3. CASE mu' = c /\ Goto(c, "stop") /\ UNCHANGED <<kind, tries>>
    <3>1. pc'[c] = "stop"
      BY <2>3 DEF Goto, LocalsOK
    <3>. QED BY <1>0, <2>1, <2>3, <3>1 DEF LeavesLock, Locks, Nearer, StepsAfter, StopSteps
  <2>. QED BY <1>5, <2>2, <2>3 DEF MigrateStop
<1>6. CASE Download(c) \/ Verify(c) \/ Clear(c)
  BY <1>0, <1>6, GoForward, ReturnForward DEF Download, Verify, Clear, Continue, At, localVars
<1>7. CASE Extract(c) \/ StartAgent(c)
  BY <1>0, <1>7, GoForward, ReturnForward DEF Extract, StartAgent, Continue, At, localVars
<1>. QED BY <1>1, <1>2, <1>3, <1>4, <1>5, <1>6, <1>7 DEF Command, CreateStep, StopStep, RunStep

LEMMA ArriveForward ==
  ASSUME LockInv, NEW c \in Commands, Arrive(c)
  PROVE  Aside(c) /\ LeavesLock(c) /\ pc[c] = "idle"
<1>. LocalsOK /\ pc[c] = "idle" /\ mu = Nobody
  BY TypeParts DEF LockInv, Arrive, Checkpoint, StopAgent, NotFound, RunAgent, At, Free
<1>1. CASE Checkpoint(c)
  <2>1. pc'[c] = "pause" /\ kind'[c] \in {"checkpoint", "migrate"} /\ mu' = mu /\ Aside(c)
    BY <1>1 DEF Checkpoint, Goto, Aside, LocalsOK, managerVars
  <2>. QED BY <2>1 DEF LeavesLock, Locks, StopSteps
<1>2. CASE StopAgent(c)
  <2>1. pc'[c] \in {"pause", "stop"} /\ kind'[c] = "stop" /\ mu' = c /\ Aside(c)
    BY <1>2 DEF StopAgent, Goto, Aside, LocalsOK
  <2>. QED BY <2>1 DEF LeavesLock, Locks
<1>3. CASE RunAgent(c)
  <2>1. pc'[c] \in {"start", "download"} /\ kind'[c] = "run" /\ mu' = c /\ Aside(c)
    BY <1>3 DEF RunAgent, Goto, Aside, LocalsOK
  <2>. QED BY <2>1 DEF LeavesLock, Locks
<1>4. CASE NotFound(c)
  BY <1>4 DEF NotFound, vars, managerVars, localVars, Aside, LeavesLock, Locks
<1>. QED BY <1>1, <1>2, <1>3, <1>4 DEF Arrive

LEMMA StepLock ==
  ASSUME LockInv, [Next]_vars
  PROVE  /\ LockInv'
         /\ \A c \in Commands : pc[c] # "idle" =>
              IF Command(c) THEN Nearer(c) ELSE UNCHANGED <<pc[c], tries[c]>>
<1>. TypeOK' /\ Nobody \notin Commands
  BY NextType, SnapshotAssumption DEF LockInv
<1>1. ASSUME NEW c \in Commands, Aside(c), LeavesLock(c), pc[c] = "idle" => ~Locks(c) PROVE LockInv'
  <2>1. \A d \in Commands \ {c} : (Locks(d)' <=> Locks(d)) /\ Migrates(d)'
    BY <1>1 DEF LockInv, Aside, Locks, Migrates
  <2>2. Migrates(c)'
    BY <1>1 DEF LeavesLock, Migrates
  <2>3. HolderWorks'
    BY <1>1, <2>1 DEF LockInv, HolderWorks, LeavesLock, Locks
  <2>. QED BY <2>1, <2>2, <2>3 DEF LockInv
<1>2. ASSUME NEW c \in Commands, Arrive(c) \/ Command(c)
      PROVE  /\ LockInv'
             /\ \A d \in Commands : pc[d] # "idle" =>
                  IF Command(d) THEN Nearer(d) ELSE UNCHANGED <<pc[d], tries[d]>>
  <2>1. Aside(c) /\ LeavesLock(c)
    BY <1>2, CommandForward, ArriveForward
  <2>2. LockInv'
    BY <1>1, <2>1 DEF Locks
  <2>. QED BY <1>2, <2>1, <2>2, CommandForward, ArriveForward DEF Aside
<1>3. CASE (\E c \in Commands : Expire(c)) \/ Environment \/ UNCHANGED vars
  <2>1. UNCHANGED <<mu, pc, kind, tries>>
    BY <1>3 DEF Expire, Environment, RestartContainer, RestartCommit, GiveUp, AgentWrites,
       ContainerEnds, vars, managerVars, localVars
  <2>2. LockInv'
    BY <2>1 DEF LockInv, HolderWorks, Locks, Migrates
  <2>. QED BY <2>1, <2>2, CommandForward
<1>. QED BY <1>2, <1>3 DEF Next

LEMMA InitLock == Init => LockInv
BY InitType, SnapshotAssumption DEF Init, LockInv, HolderWorks, Locks, Migrates

\* manager.go:57-162, daemon.go:578-587: at most one command is inside Stop or Run,
\* a checkpoint before the stop and a restore before the run included.
THEOREM SnapshotHolderWorks == Spec => []HolderWorks
<1>1. LockInv => HolderWorks
  BY DEF LockInv
<1>. QED BY <1>1, InitLock, StepLock, PTL DEF Spec

\* engine.go, daemon.go:540-600: no command goes back to an earlier step, whatever
\* fails; the attempts to resume are bounded by their type.
THEOREM SnapshotCommandsForward == Spec => CommandsOnlyForward
<1>. DEFINE Forward == \A c \in Commands : pc[c] # "idle" =>
              IF Command(c) THEN Nearer(c) ELSE UNCHANGED <<pc[c], tries[c]>>
<1>1. LockInv /\ [Next]_vars => [Forward]_vars
  BY StepLock
<1>. QED BY <1>1, InitLock, StepLock, PTL DEF Spec, CommandsOnlyForward
=============================================================================
