--------------------------- MODULE NodeProcessProofs ---------------------------
(***************************************************************************)
(* Proofs about NodeConfig and NodeProcess for any machines, process ids   *)
(* and number of launches.                                                 *)
(***************************************************************************)
EXTENDS NodeProcess, TLAPS

USE DEF nodeVars, fileVars, updateVars, ghosts

-----------------------------------------------------------------------------
(* What config.Load makes of a machine.                                     *)

LEMMA Quotient ==
  ASSUME NEW u \in Nat, NEW m \in Nat \ {0}
  PROVE  u \div m \in Nat /\ (u \div m) * m <= u
OBVIOUS

LEMMA UsableNat == ASSUME NEW total \in Nat PROVE Usable(total) \in Nat
BY DEF Usable, Reserved

LEMMA FewerFit ==
  ASSUME NEW n \in Nat, NEW most \in Nat, NEW m \in Nat, NEW u \in Nat, n <= most, most * m <= u
  PROVE  n * m <= u
OBVIOUS

LEMMA GivenType ==
  ASSUME NEW file \in Configs, NEW env, IsEnvironment(env)
  PROVE  ApplyEnvOverrides(SetDefaults(file), env) \in Configs
<1>1. SetDefaults(file) \in Configs
  BY DEF SetDefaults, Configs, Fields, Or, LeastMemory
<1>2. PICK D \in SUBSET Fields : env \in [D -> Int]
  BY DEF IsEnvironment
<1>. QED BY <1>1, <1>2 DEF ApplyEnvOverrides, Configs

(* config.go:161-194: the capacity that is left fits the memory, or is one. *)
LEMMA CapFits ==
  ASSUME NEW cfg \in Configs, NEW total \in Nat, cfg.memory > 0, cfg.agents >= 1
  PROVE  LET c == CapMaxAgents(cfg, total) IN
         /\ c \in Configs
         /\ c.memory = cfg.memory
         /\ c.agents \in 1 .. cfg.agents
         /\ total # 0 => c.agents = 1 \/ c.agents * c.memory <= Usable(total)
<1>. DEFINE most == MaxByMemory(cfg.memory, total)
            c == CapMaxAgents(cfg, total)
<1>1. cfg.memory \in Nat \ {0} /\ cfg.agents \in Nat /\ Usable(total) \in Nat
  BY UsableNat DEF Configs, Fields
<1>2. most \in Nat /\ most >= 1 /\ (most = 1 \/ most * cfg.memory <= Usable(total))
  <2>1. /\ Usable(total) \div cfg.memory \in Nat
        /\ (Usable(total) \div cfg.memory) * cfg.memory <= Usable(total)
    BY <1>1, Quotient
  <2>. QED BY <1>1, <2>1 DEF MaxByMemory
<1>3. CASE total # 0 /\ most < cfg.agents
  <2>1. c = [cfg EXCEPT !.agents = most]
    BY <1>3 DEF CapMaxAgents
  <2>2. c \in Configs /\ c.memory = cfg.memory /\ c.agents = most
    BY <1>2, <2>1 DEF Configs, Fields
  <2>. QED BY <1>1, <1>2, <1>3, <2>2
<1>4. CASE ~(total # 0 /\ most < cfg.agents)
  <2>1. c = cfg
    BY <1>4 DEF CapMaxAgents
  <2>2. total # 0 => cfg.agents = 1 \/ cfg.agents * cfg.memory <= Usable(total)
    BY <1>1, <1>2, <1>4, FewerFit
  <2>. QED BY <1>1, <2>1, <2>2
<1>. QED BY <1>3, <1>4

(* validation.go:59-76: what validation lets through fits the machine.      *)
LEMMA ValidFits ==
  ASSUME NEW i \in Inputs,
         LET c == Effective(i.file, i.env, i.total) IN ValidLimits(c)
  PROVE  LET given == ApplyEnvOverrides(SetDefaults(i.file), i.env)
             c == Effective(i.file, i.env, i.total)
         IN  /\ c.agents \in 1 .. given.agents
             /\ i.total # 0 => c.agents = 1 \/ c.agents * c.memory <= Usable(i.total)
<1>. DEFINE given == ApplyEnvOverrides(SetDefaults(i.file), i.env)
            c == Effective(i.file, i.env, i.total)
<1>1. given \in Configs /\ i.total \in Nat
  BY GivenType, ProcessAssumption
<1>2. c = CapMaxAgents(given, i.total)
  BY DEF Effective
<1>3. c.memory >= LeastMemory /\ c.agents >= 1
  BY DEF ValidLimits
<1>. HIDE DEF given, c
<1>4. given.memory \in Int /\ given.agents \in Int
  BY <1>1 DEF Configs, Fields
<1>5. MaxByMemory(given.memory, i.total) \in Int \/ given.memory <= 0
  <2>. SUFFICES ASSUME given.memory > 0 PROVE MaxByMemory(given.memory, i.total) \in Int
    BY <1>4
  <2>. QED BY <1>1, <1>4, Quotient, UsableNat DEF MaxByMemory
<1>6. given.memory > 0 /\ given.agents >= 1
  <2>. DEFINE most == MaxByMemory(given.memory, i.total)
  <2>1. CASE i.total # 0 /\ most < given.agents
    <3>1. c = [given EXCEPT !.agents = most]
      BY <1>2, <2>1 DEF CapMaxAgents
    <3>2. c.memory = given.memory /\ c.agents = most
      BY <1>1, <3>1 DEF Configs, Fields
    <3>3. given.memory > 0
      BY <1>3, <1>4, <3>2 DEF LeastMemory
    <3>. QED BY <1>3, <1>4, <1>5, <2>1, <3>2, <3>3
  <2>2. CASE ~(i.total # 0 /\ most < given.agents)
    <3>1. c = given
      BY <1>2, <2>2 DEF CapMaxAgents
    <3>. QED BY <1>3, <1>4, <3>1 DEF LeastMemory
  <2>. QED BY <2>1, <2>2
<1>. QED BY <1>1, <1>2, <1>6, CapFits DEF given, c

-----------------------------------------------------------------------------
(* The types.                                                               *)

\* What a node's step does besides moving on.
FileOK == pidFile \in Contents /\ handle \subseteq Nodes /\ (pidFile = "absent" => handle = {})

\* The look at the PID file: what a process remembers of it, and the ghosts.
LookOK ==
  /\ seen \in [Processes -> Contents]
  /\ overtaken \subseteq Lookers
  /\ raced \in BOOLEAN

LEMMA GoType ==
  ASSUME TypeOK, NEW p \in Nodes, NEW to \in Phases, Go(p, to)
  PROVE  /\ UNCHANGED <<input, tui, launches, stop, updateVars>>
         /\ phase' \in [Nodes -> Phases] /\ phase' = [phase EXCEPT ![p] = to]
         /\ term' \in [Nodes -> BOOLEAN]
<1>1. phase \in [Nodes -> Phases] /\ term \in [Nodes -> BOOLEAN]
  BY DEF TypeOK
<1>2. term' = [term EXCEPT ![p] = FALSE] \/ term' = term
  BY DEF Go
<1>3. term' \in [Nodes -> BOOLEAN]
  BY <1>1, <1>2, Zenon
<1>. QED BY <1>1, <1>3 DEF Go

LEMMA SeenType ==
  ASSUME TypeOK, NEW x \in Processes, Sees(x) \/ Forgets(x) \/ UNCHANGED seen
  PROVE  seen' \in [Processes -> Contents]
BY DEF TypeOK, Sees, Forgets, Contents

LEMMA RecordType ==
  ASSUME TypeOK, NEW acts \in BOOLEAN, Record(acts)
  PROVE  overtaken' \subseteq Lookers' /\ raced' \in BOOLEAN
<1>1. overtaken' \subseteq Lookers'
  BY DEF Record
<1>2. raced' = (raced \/ acts) /\ raced \in BOOLEAN
  BY DEF Record, TypeOK
<1>. QED BY <1>1, <1>2, Zenon

\* Whoever moves elsewhere looks at nothing before and after.
LEMMA LookersKept ==
  ASSUME TypeOK, NEW p \in Nodes, NEW to \in Phases, Go(p, to),
         phase[p] \notin {"look", "stale"}, to \notin {"look", "stale"}
  PROVE  Lookers' = Lookers
BY DEF Go, Lookers, TypeOK

LEMMA NodeStepShape ==
  ASSUME TypeOK, NEW p \in Nodes, Node(p), ~Launch(p)
  PROVE  /\ \E to \in Phases : Go(p, to)
         /\ FileOK'
         /\ LookOK'
<1>. FileOK
  BY DEF TypeOK, FileOK
<1>. p \notin {"absent", "empty", "mixed"} /\ p \in Processes
  BY ProcessAssumption DEF Processes
<1>. phase \in [Nodes -> Phases]
  BY DEF TypeOK
<1>a. ASSUME NEW to \in Phases, Go(p, to), UNCHANGED <<seen, ghosts>>,
             phase[p] \notin {"look", "stale"}, to \notin {"look", "stale"}
      PROVE  LookOK'
  <2>1. overtaken' \subseteq Lookers' /\ seen' \in [Processes -> Contents]
    BY <1>a, LookersKept DEF TypeOK
  <2>2. raced' \in BOOLEAN
    BY <1>a, Zenon DEF TypeOK
  <2>. QED BY <2>1, <2>2, Zenon DEF LookOK
<1>b. ASSUME NEW acts \in BOOLEAN, Record(acts), Sees(p) \/ Forgets(p) \/ UNCHANGED seen
      PROVE  LookOK'
  BY <1>b, RecordType, SeenType, Zenon DEF LookOK
<1>1. CASE Load(p)
  <2>1. PICK to \in {"none", "acquire"} : Go(p, to)
    BY <1>1 DEF Load
  <2>. QED BY <1>1, <2>1, <1>a DEF Load, FileOK, Phases
<1>2. CASE AcquireCreate(p)
  <2>1. /\ Go(p, "created") \/ Go(p, "check")
        /\ Record(FALSE) /\ UNCHANGED seen
        /\ (pidFile' = "empty" /\ handle' = {p}) \/ UNCHANGED fileVars
    BY <1>2 DEF AcquireCreate
  <2>. QED BY <2>1, <1>b DEF FileOK, Phases, Contents
<1>3. CASE AcquireWrite(p)
  <2>1. /\ Go(p, "locked") /\ Record(FALSE) /\ UNCHANGED seen
        /\ handle' = handle \ {p}
        /\ pidFile' = pidFile \/ (p \in handle /\ pidFile' \in {p, "mixed"})
    BY <1>3 DEF AcquireWrite, Write
  <2>. QED BY <2>1, <1>b DEF FileOK, Phases, Contents
<1>4. CASE AcquireFails(p)
  <2>1. /\ Go(p, "over") /\ Record(FALSE) /\ UNCHANGED seen
        /\ \/ pidFile' = "absent" /\ handle' = {}
           \/ handle' = handle \ {p} /\ pidFile' = pidFile
    BY <1>4 DEF AcquireFails, RemoveFile
  <2>. QED BY <2>1, <1>b DEF FileOK, Phases, Contents
<1>5. CASE AcquireRead(p)
  <2>1. /\ Go(p, "stale") \/ Go(p, "look")
        /\ Record(FALSE) /\ UNCHANGED fileVars /\ (Sees(p) \/ UNCHANGED seen)
    BY <1>5 DEF AcquireRead
  <2>. QED BY <2>1, <1>b DEF FileOK, Phases
<1>6. CASE AcquireLook(p)
  <2>1. /\ Go(p, "over") \/ Go(p, "stale")
        /\ Record(FALSE) /\ UNCHANGED fileVars /\ Forgets(p)
    BY <1>6 DEF AcquireLook
  <2>. QED BY <2>1, <1>b DEF FileOK, Phases
<1>7. CASE AcquireOverwrite(p)
  <2>1. /\ Go(p, "overwrite") /\ Record(p \in overtaken) /\ UNCHANGED seen
        /\ pidFile' = "empty" /\ handle' \subseteq Nodes
    BY <1>7 DEF AcquireOverwrite, FileOK
  <2>2. (p \in overtaken) \in BOOLEAN
    OBVIOUS
  <2>3. LookOK'
    BY <2>1, <2>2, <1>b
  <2>. QED BY <2>1, <2>3 DEF FileOK, Phases, Contents
<1>8. CASE Validate(p) \/ RunStarts(p) \/ RunFails(p) \/ HeartbeatLoopPanics(p) \/ HubShutdown(p)
           \/ Quit(p) \/ Terminate(p) \/ End(p) \/ Reused(p)
  <2>1. /\ UNCHANGED <<fileVars, seen, ghosts>> /\ phase[p] \notin {"look", "stale"}
        /\ \E to \in {"none", "ready", "running", "idle", "ending", "stranger"} : Go(p, to)
    BY <1>8 DEF Validate, RunStarts, RunFails, HeartbeatLoopPanics, HubShutdown, Quit, Terminate, End,
                Reused
  <2>2. PICK to \in {"none", "ready", "running", "idle", "ending", "stranger"} : Go(p, to)
    BY <2>1
  <2>. QED BY <2>1, <2>2, <1>a DEF FileOK, Phases
<1>9. CASE Release(p)
  <2>1. /\ Go(p, "over") /\ UNCHANGED <<seen, ghosts>> /\ phase[p] = "ending"
        /\ pidFile' = "absent" /\ handle' = {}
    BY <1>9 DEF Release, RemoveFile
  <2>. QED BY <2>1, <1>a DEF FileOK, Phases, Contents
<1>10. CASE Crash(p)
  <2>1. /\ Go(p, "none") /\ Record(FALSE) /\ Forgets(p)
        /\ handle' = handle \ {p} /\ UNCHANGED pidFile
    BY <1>10 DEF Crash
  <2>. QED BY <2>1, <1>b DEF FileOK, Phases
<1>. QED BY <1>1, <1>2, <1>3, <1>4, <1>5, <1>6, <1>7, <1>8, <1>9, <1>10 DEF Node, Starting, Ending

LEMMA NodeTypes == ASSUME TypeOK, NEW p \in Nodes, Node(p) PROVE TypeOK'
<1>1. CASE Launch(p)
  <2>. USE <1>1 DEF Launch
  <2>1. phase' \in [Nodes -> Phases]
    BY DEF TypeOK, Phases
  <2>2. tui' \in [Nodes -> BOOLEAN]
    <3>1. PICK b \in BOOLEAN : tui' = [tui EXCEPT ![p] = b]
      OBVIOUS
    <3>2. tui \in [Nodes -> BOOLEAN]
      BY DEF TypeOK
    <3>. QED BY <3>1, <3>2, Zenon
  <2>3. launches' \in 0 .. MaxLaunches
    BY ProcessAssumption DEF TypeOK
  <2>4. /\ input' = input /\ term' = term /\ pidFile' = pidFile /\ handle' = handle
        /\ stop' = stop /\ seen' = seen /\ update' = update /\ tmp' = tmp
        /\ binary' = binary /\ overtaken' = overtaken /\ raced' = raced
    OBVIOUS
  <2>5. input \in Inputs /\ term \in [Nodes -> BOOLEAN] /\ raced \in BOOLEAN
    BY DEF TypeOK
  <2>6. term' \in [Nodes -> BOOLEAN] /\ input' \in Inputs /\ raced' \in BOOLEAN
    BY <2>4, <2>5, Zenon
  <2>7. Lookers' = Lookers
    BY DEF Lookers, TypeOK
  <2>. HIDE <1>1 DEF Launch
  <2>. QED BY <2>1, <2>2, <2>3, <2>4, <2>6, <2>7 DEF TypeOK
<1>2. CASE ~Launch(p)
  <2>1. PICK to \in Phases : Go(p, to)
    BY <1>2, NodeStepShape
  <2>2. FileOK' /\ LookOK'
    BY <1>2, NodeStepShape
  <2>3. /\ UNCHANGED <<input, tui, launches, stop, updateVars>>
        /\ phase' \in [Nodes -> Phases] /\ term' \in [Nodes -> BOOLEAN]
    BY <2>1, GoType
  <2>4. tui' \in [Nodes -> BOOLEAN] /\ input' \in Inputs
    BY <2>3, Zenon DEF TypeOK
  <2>5. stop' = "signal" => seen'[Stopper] \in Nodes
    <3>1. Stopper \in Processes /\ Stopper # p
      BY ProcessAssumption DEF Processes
    <3>2. seen'[Stopper] = seen[Stopper]
      BY <1>2, <2>1, <3>1 DEF Node, Starting, Ending, Load, AcquireCreate, AcquireWrite, AcquireRead,
         AcquireLook, AcquireOverwrite, Validate, RunStarts, Terminate, Release, End, AcquireFails,
         HeartbeatLoopPanics, RunFails, HubShutdown, Quit, Crash, Reused, Sees, Forgets, TypeOK
    <3>. QED BY <2>3, <3>2 DEF TypeOK
  <2>6. launches' \in 0 .. MaxLaunches
    BY <2>3 DEF TypeOK
  <2>7. raced' \in BOOLEAN
    BY <2>2, Zenon DEF LookOK
  <2>. QED BY <2>2, <2>3, <2>4, <2>5, <2>6, <2>7 DEF TypeOK, FileOK, LookOK
<1>. QED BY <1>1, <1>2

\* Stop moves on, and no node does.
LEMMA StopStepType ==
  ASSUME TypeOK, NEW from, NEW to \in {"none", "stat", "look", "clean", "signal"},
         StopStep(from, to), UNCHANGED <<phase, term>>, FileOK', NEW acts \in BOOLEAN, Record(acts),
         Sees(Stopper) \/ Forgets(Stopper) \/ UNCHANGED seen,
         to = "signal" => seen'[Stopper] \in Nodes
  PROVE  TypeOK'
<1>1. overtaken' \subseteq Lookers' /\ raced' \in BOOLEAN
  BY RecordType
<1>2. seen' \in [Processes -> Contents]
  BY SeenType DEF Processes
<1>3. UNCHANGED <<input, tui, launches, updateVars>> /\ stop' = to
  BY DEF StopStep
<1>4. term' \in [Nodes -> BOOLEAN] /\ tui' \in [Nodes -> BOOLEAN] /\ input' \in Inputs
  BY <1>3, Zenon DEF TypeOK
<1>. QED BY <1>1, <1>2, <1>3, <1>4 DEF TypeOK, FileOK

LEMMA StopTypes == ASSUME TypeOK, Stop PROVE TypeOK'
<1>. FileOK
  BY DEF TypeOK, FileOK
<1>0. UNCHANGED fileVars => FileOK'
  BY DEF FileOK
<1>1. CASE StopRead
  <2>1. PICK to \in {"stat", "look"} : StopStep("none", to)
    BY <1>1 DEF StopRead
  <2>. QED BY <1>0, <1>1, <2>1, StopStepType DEF StopRead
<1>2. CASE StopStat
  <2>1. PICK to \in {"none", "clean"} : StopStep("stat", to)
    BY <1>2 DEF StopStat
  <2>. QED BY <1>0, <1>2, <2>1, StopStepType DEF StopStat
<1>3. CASE StopLook
  <2>1. PICK to \in {"signal", "clean"} :
          StopStep("look", to) /\ (to = "signal" => seen[Stopper] \in Nodes)
    BY <1>3 DEF StopLook, Alive
  <2>. QED BY <1>0, <1>3, <2>1, StopStepType DEF StopLook
<1>4. CASE StopClean
  <2>1. FileOK'
    BY <1>4 DEF StopClean, RemoveFile, FileOK, Contents
  <2>2. (Stopper \in overtaken) \in BOOLEAN
    OBVIOUS
  <2>. QED BY <1>4, <2>1, <2>2, StopStepType DEF StopClean
<1>5. CASE StopSignal
  <2>. DEFINE p == seen[Stopper]
  <2>1. p \in Nodes
    BY <1>5 DEF StopSignal, StopStep, TypeOK
  <2>2. /\ stop' = "none" /\ UNCHANGED <<input, tui, launches, pidFile, updateVars>>
        /\ Forgets(Stopper) /\ Record(FALSE)
        /\ \/ term' = [term EXCEPT ![p] = TRUE] /\ UNCHANGED <<phase, handle>>
           \/ /\ phase' = [phase EXCEPT ![p] = "none"] /\ handle' = handle \ {p}
              /\ UNCHANGED term
    BY <1>5 DEF StopSignal, StopStep
  <2>. HIDE DEF p
  <2>3. term' \in [Nodes -> BOOLEAN]
    <3>1. term' = [term EXCEPT ![p] = TRUE] \/ term' = term
      BY <2>2
    <3>. QED BY <2>1, <3>1, Zenon DEF TypeOK
  <2>4. phase' \in [Nodes -> Phases]
    BY <2>1, <2>2 DEF TypeOK, Phases
  <2>5. tui' \in [Nodes -> BOOLEAN] /\ input' \in Inputs
    BY <2>2, Zenon DEF TypeOK
  <2>6. handle' \subseteq Nodes /\ (pidFile' = "absent" => handle' = {})
    BY <2>2 DEF TypeOK
  <2>7. seen' \in [Processes -> Contents] /\ overtaken' \subseteq Lookers' /\ raced' \in BOOLEAN
    BY <2>2, SeenType, RecordType DEF Processes
  <2>. QED BY <2>2, <2>3, <2>4, <2>5, <2>6, <2>7 DEF TypeOK, Contents
<1>. QED BY <1>1, <1>2, <1>3, <1>4, <1>5 DEF Stop

LEMMA UpdateTypes == ASSUME TypeOK, Update PROVE TypeOK'
<1>1. /\ UNCHANGED <<input, nodeVars, fileVars, stop, ghosts>>
      /\ Sees(Updater) \/ Forgets(Updater) \/ UNCHANGED seen
  BY DEF Update, UpdateRead, UpdateCheck, UpdateOpen, UpdateCopied, UpdateRename, UpdateFails, UpdateStep
<1>2. /\ update' \in {"none", "read", "checked", "copying", "copied"}
      /\ tmp' \in {"absent", "partial", "whole"} /\ binary' \in {"old", "new", "partial"}
  BY DEF Update, UpdateRead, UpdateCheck, UpdateOpen, UpdateCopied, UpdateRename, UpdateFails, UpdateStep,
         TypeOK
<1>3. /\ term' \in [Nodes -> BOOLEAN] /\ tui' \in [Nodes -> BOOLEAN] /\ input' \in Inputs
      /\ raced' \in BOOLEAN
  BY <1>1, Zenon DEF TypeOK
<1>4. seen' \in [Processes -> Contents]
  BY <1>1, SeenType DEF Processes
<1>5. Lookers' = Lookers
  BY <1>1 DEF Lookers
<1>6. seen'[Stopper] = seen[Stopper]
  BY <1>1, ProcessAssumption DEF Sees, Forgets, TypeOK, Processes
<1>. QED BY <1>1, <1>2, <1>3, <1>4, <1>5, <1>6 DEF TypeOK

LEMMA StepTypes == TypeOK /\ [Next]_vars => TypeOK'
<1>. SUFFICES ASSUME TypeOK, [Next]_vars PROVE TypeOK'
  OBVIOUS
<1>1. CASE UNCHANGED vars
  <2>1. /\ term' \in [Nodes -> BOOLEAN] /\ tui' \in [Nodes -> BOOLEAN] /\ input' \in Inputs
        /\ raced' \in BOOLEAN
    BY <1>1, Zenon DEF vars, TypeOK
  <2>2. Lookers' = Lookers
    BY <1>1 DEF vars, Lookers
  <2>. QED BY <1>1, <2>1, <2>2 DEF vars, TypeOK
<1>. QED BY <1>1, NodeTypes, StopTypes, UpdateTypes DEF Next

LEMMA InitTypes == Init => TypeOK
<1>. SUFFICES ASSUME Init PROVE TypeOK
  OBVIOUS
<1>1. term \in [Nodes -> BOOLEAN] /\ tui \in [Nodes -> BOOLEAN]
  BY Zenon DEF Init
<1>2. /\ input \in Inputs /\ raced \in BOOLEAN
  BY Zenon DEF Init
<1>3. /\ phase = [p \in Nodes |-> "none"] /\ pidFile = "absent" /\ handle = {}
      /\ seen = [x \in Processes |-> "absent"]
      /\ stop = "none" /\ update = "none" /\ tmp = "absent"
      /\ binary = "old" /\ launches = 0 /\ overtaken = {}
  BY Zenon DEF Init
<1>. HIDE DEF Init
<1>4. /\ phase \in [Nodes -> Phases] /\ pidFile \in Contents /\ seen \in [Processes -> Contents]
      /\ launches \in 0 .. MaxLaunches
  BY <1>3, ProcessAssumption DEF Phases, Contents
<1>. QED BY <1>1, <1>2, <1>3, <1>4 DEF TypeOK

(* The variables of the processes keep their types, and only a file that is *)
(* there can be open under its name.                                        *)
THEOREM ProcessTypeOK == Spec => []TypeOK
BY InitTypes, StepTypes, PTL DEF Spec

-----------------------------------------------------------------------------
(* The capacity and the update.                                             *)

Admitted == \A p \in Nodes : phase[p] \in {"ready", "running"} => ValidLimits(Cfg)

LEMMA StepAdmitted == TypeOK /\ Admitted /\ [Next]_vars => Admitted'
<1>. SUFFICES ASSUME TypeOK, Admitted, [Next]_vars, NEW q \in Nodes,
                     phase'[q] \in {"ready", "running"}
              PROVE  ValidLimits(Cfg)'
  BY DEF Admitted
<1>1. input' = input
  BY DEF Next, Node, Starting, Ending, Launch, Load, AcquireCreate, AcquireWrite, AcquireRead, AcquireLook,
         AcquireOverwrite, Validate, RunStarts, Terminate, Release, End, AcquireFails,
         HeartbeatLoopPanics, RunFails, HubShutdown, Quit, Crash, Reused, Go, Stop, StopRead, StopStat, StopLook,
         StopClean, StopSignal, StopStep, Update, UpdateRead, UpdateCheck, UpdateOpen, UpdateCopied, UpdateRename,
         UpdateFails, UpdateStep, vars
<1>2. ValidLimits(Cfg)' <=> ValidLimits(Cfg)
  BY <1>1 DEF Cfg
<1>3. ASSUME phase[q] \notin {"ready", "running"} PROVE ValidLimits(Cfg)
  <2>. phase \in [Nodes -> Phases]
    BY DEF TypeOK
  <2>1. ASSUME NEW p \in Nodes, Node(p) PROVE Validate(p) /\ p = q
    <3>1. \E to \in Phases : phase' = [phase EXCEPT ![p] = to]
      BY <2>1 DEF Node, Starting, Ending, Launch, Load, AcquireCreate, AcquireWrite, AcquireRead, AcquireLook,
           AcquireOverwrite, Validate, RunStarts, Terminate, Release, End, AcquireFails,
           HeartbeatLoopPanics, RunFails, HubShutdown, Quit, Crash, Reused, Go, Phases
    <3>2. p = q
      BY <1>3, <3>1
    <3>3. ~Launch(q) /\ ~Load(q) /\ ~RunStarts(q) /\ ~Ending(q)
      BY <1>3 DEF Launch, Load, RunStarts, Ending, Terminate, Release, End, Go
    <3>4. ~AcquireCreate(q) /\ ~AcquireWrite(q) /\ ~AcquireRead(q) /\ ~AcquireLook(q) /\ ~AcquireOverwrite(q)
      BY <1>3 DEF AcquireCreate, AcquireWrite, AcquireRead, AcquireLook, AcquireOverwrite, Go
    <3>5. ~AcquireFails(q) /\ ~HeartbeatLoopPanics(q) /\ ~RunFails(q) /\ ~HubShutdown(q)
          /\ ~Quit(q) /\ ~Crash(q) /\ ~Reused(q)
      BY <1>3 DEF AcquireFails, HeartbeatLoopPanics, RunFails, HubShutdown, Quit, Crash, Reused, Go
    <3>. QED BY <2>1, <3>2, <3>3, <3>4, <3>5 DEF Node, Starting
  <2>2. Stop \/ Update \/ UNCHANGED vars => phase'[q] = phase[q] \/ phase'[q] = "none"
    BY DEF Stop, StopRead, StopStat, StopLook, StopClean, StopSignal, StopStep, Update, UpdateRead, UpdateCheck,
           UpdateOpen, UpdateCopied, UpdateRename, UpdateFails, UpdateStep, vars
  <2>3. \E p \in Nodes : Validate(p) /\ p = q
    BY <1>3, <2>1, <2>2 DEF Next
  <2>. QED BY <1>3, <2>3 DEF Validate, Go
<1>. QED BY <1>2, <1>3 DEF Admitted

(* config.go:161-194, validation.go:59-76: the agents a running node may    *)
(* have fit its memory, on any machine and with any configuration.          *)
THEOREM ProcessCapacityFitsMachine == Spec => []CapacityFitsMachine
<1>1. Init => Admitted
  BY DEF Init, Admitted
<1>2. TypeOK /\ Admitted => CapacityFitsMachine
  BY ValidFits DEF Admitted, Cfg, TypeOK, CapacityFitsMachine
<1>. QED BY <1>1, <1>2, InitTypes, StepTypes, StepAdmitted, PTL DEF Spec

\* What is renamed is whole.
CopyWhole == InstalledWhole /\ (update = "copied" => tmp = "whole")

(* main.go:450-483: an update never installs a part of a binary.            *)
THEOREM ProcessInstalledWhole == Spec => []InstalledWhole
<1>1. Init => CopyWhole
  BY DEF Init, CopyWhole, InstalledWhole
<1>2. CopyWhole /\ [Next]_vars => CopyWhole'
  <2>. SUFFICES ASSUME CopyWhole, [Next]_vars PROVE CopyWhole'
    OBVIOUS
  <2>1. CASE Update
    BY <2>1 DEF Update, UpdateRead, UpdateCheck, UpdateOpen, UpdateCopied, UpdateRename, UpdateFails, UpdateStep,
                CopyWhole, InstalledWhole
  <2>2. CASE Stop
    BY <2>2 DEF Stop, StopRead, StopStat, StopLook, StopClean, StopSignal, StopStep, CopyWhole, InstalledWhole
  <2>3. ASSUME NEW p \in Nodes, Node(p) PROVE UNCHANGED updateVars
    BY <2>3 DEF Node, Starting, Ending, Launch, Load, AcquireCreate, AcquireWrite, AcquireRead, AcquireLook,
         AcquireOverwrite, Validate, RunStarts, Terminate, Release, End, AcquireFails,
         HeartbeatLoopPanics, RunFails, HubShutdown, Quit, Crash, Reused, Go
  <2>4. CASE UNCHANGED vars
    BY <2>4 DEF vars, CopyWhole, InstalledWhole
  <2>. QED BY <2>1, <2>2, <2>3, <2>4 DEF Next, CopyWhole, InstalledWhole
<1>3. CopyWhole => InstalledWhole
  BY DEF CopyWhole
<1>. QED BY <1>1, <1>2, <1>3, PTL DEF Spec

-----------------------------------------------------------------------------
(* The lock.                                                                *)

NobodyHolds == \A q \in Nodes : ~Holding(q)
NobodyWrites == \A q \in Nodes : ~Writing(q)
\* It has read a file that names somebody, whom it has still to look up.
Looks(x) == IF x = Stopper THEN stop = "look" ELSE phase[x] = "look"
\* Whoever holds the lock is the one that x is about to look up.
Covered(x) == \/ NobodyHolds
              \/ Looks(x) /\ \A q \in Nodes : Holding(q) => seen[x] = q

\* The file is empty between its creation and the write, and a look that has not
\* been overtaken knows of everybody who writes or holds.
LockOrder ==
  /\ \A p \in Nodes : Holding(p) => pidFile = p
  /\ \A p \in Nodes : Writing(p) => /\ pidFile = "empty" /\ p \in handle /\ NobodyHolds
                                    /\ \A q \in Nodes : Writing(q) => q = p
  /\ \A x \in Lookers : x \in overtaken \/ (NobodyWrites /\ Covered(x))

LockInv == ~raced => LockOrder

\* Who has been overtaken stays so, and a node that writes overtakes everybody.
LEMMA Overtakes ==
  ASSUME NEW acts, Record(acts)
  PROVE  /\ \A x \in Lookers' \ overtaken' : x \notin overtaken /\ NobodyWrites'
         /\ \A p \in Nodes : Writing(p)' => overtaken' = Lookers'
BY DEF Record, NobodyWrites

(* A step after which nobody holds, writes or looks who did not before.     *)
LEMMA Quiet ==
  ASSUME TypeOK, LockOrder, pidFile' = pidFile,
         \A q \in Nodes : Holding(q)' => Holding(q),
         \A q \in Nodes : Writing(q)' => Writing(q) /\ (q \in handle => q \in handle'),
         \A x \in Lookers' \ overtaken' :
           x \in Lookers \ overtaken /\ (NobodyHolds \/ (Looks(x)' /\ seen'[x] = seen[x]))
  PROVE  LockOrder'
<1>1. \A p \in Nodes : (Holding(p) => pidFile = p)'
  BY DEF LockOrder
<1>2. NobodyHolds => NobodyHolds'
  BY DEF NobodyHolds
<1>3. NobodyWrites => NobodyWrites'
  BY DEF NobodyWrites
<1>4. ASSUME NEW p \in Nodes, Writing(p)'
      PROVE  /\ pidFile' = "empty" /\ p \in handle' /\ NobodyHolds'
             /\ \A q \in Nodes : Writing(q)' => q = p
  BY <1>2, <1>4 DEF LockOrder
<1>5. ASSUME NEW x \in Lookers', x \notin overtaken' PROVE NobodyWrites' /\ Covered(x)'
  <2>1. x \in Lookers \ overtaken /\ (NobodyHolds \/ (Looks(x)' /\ seen'[x] = seen[x]))
    BY <1>5
  <2>2. NobodyWrites /\ Covered(x)
    BY <2>1 DEF LockOrder
  <2>. QED BY <1>2, <1>3, <2>1, <2>2 DEF Covered
<1>. QED BY <1>1, <1>4, <1>5 DEF LockOrder

(* A node that moves without writing or looking, and leaves the file alone.  *)
LEMMA NodeMoves ==
  ASSUME TypeOK, LockOrder, NEW p \in Nodes, NEW to \in Phases, Go(p, to), pidFile' = pidFile,
         handle' \in {handle, handle \ {p}},
         \A x \in Processes \ {p} : seen'[x] = seen[x],
         UNCHANGED ghosts \/ Record(FALSE),
         to \notin {"created", "look", "stale", "overwrite"},
         to \in {"locked", "ready", "running", "idle", "ending"} => Holding(p)
  PROVE  LockOrder'
<1>1. phase \in [Nodes -> Phases] /\ phase' = [phase EXCEPT ![p] = to] /\ stop' = stop
  BY DEF TypeOK, Go
<1>2. \A q \in Nodes : Holding(q)' => Holding(q)
  BY <1>1 DEF Holding
<1>3. \A q \in Nodes : Writing(q)' => Writing(q) /\ q # p
  BY <1>1 DEF Writing
<1>4. \A x \in Lookers' : x \in Lookers /\ x # p /\ x \in Processes /\ (Looks(x) => Looks(x)')
  BY <1>1, ProcessAssumption DEF Lookers, Looks, Processes
<1>5. \A x \in Lookers' \ overtaken' : x \notin overtaken
  BY Overtakes
<1>6. ASSUME NEW x \in Lookers' \ overtaken'
      PROVE  x \in Lookers \ overtaken /\ (NobodyHolds \/ (Looks(x)' /\ seen'[x] = seen[x]))
  BY <1>4, <1>5 DEF LockOrder, Covered
<1>. QED BY <1>2, <1>3, <1>6, Quiet

LEMMA NodeLock ==
  ASSUME TypeOK, LockInv, NEW p \in Nodes, Node(p), ~raced'
  PROVE  LockOrder'
<1>. phase \in [Nodes -> Phases] /\ seen \in [Processes -> Contents] /\ raced \in BOOLEAN
  BY DEF TypeOK
<1>. p \in Processes /\ Stopper \in Processes /\ p # Stopper /\ p \notin {"absent", "empty", "mixed"}
  BY ProcessAssumption DEF Processes
<1>r. ~raced /\ LockOrder
  <2>1. raced => raced'
    BY DEF Node, Starting, Ending, Launch, Load, AcquireCreate, AcquireWrite, AcquireRead, AcquireLook,
         AcquireOverwrite, Validate, RunStarts, Terminate, Release, End, AcquireFails,
         HeartbeatLoopPanics, RunFails, HubShutdown, Quit, Crash, Reused, Record
  <2>. QED BY <2>1 DEF LockInv
<1>0. CASE Launch(p)
  <2>1. /\ phase' = [phase EXCEPT ![p] = "load"] /\ phase[p] = "none"
        /\ UNCHANGED <<fileVars, seen, stop, ghosts>>
    BY <1>0 DEF Launch
  <2>2. \A q \in Nodes : (Holding(q)' <=> Holding(q)) /\ (Writing(q)' <=> Writing(q))
    BY <2>1 DEF Holding, Writing
  <2>3. Lookers' = Lookers /\ \A x \in Lookers : Looks(x)' <=> Looks(x)
    BY <2>1 DEF Lookers, Looks
  <2>. QED BY <1>r, <2>1, <2>2, <2>3, Quiet DEF LockOrder, Covered
<1>1. CASE Load(p)
  <2>1. PICK to \in {"none", "acquire"} : Go(p, to)
    BY <1>1 DEF Load
  <2>. QED BY <1>1, <1>r, <2>1, NodeMoves DEF Load, Phases
<1>2. CASE AcquireCreate(p)
  <2>1. CASE pidFile = "absent"
    <3>1. /\ phase' = [phase EXCEPT ![p] = "created"] /\ pidFile' = "empty" /\ handle' = {p}
          /\ Record(FALSE)
      BY <1>2, <2>1 DEF AcquireCreate, Go
    <3>2. NobodyHolds /\ NobodyWrites
      BY <1>r, <2>1, ProcessAssumption DEF LockOrder, NobodyHolds, NobodyWrites
    <3>3. NobodyHolds' /\ Writing(p)' /\ \A q \in Nodes : Writing(q)' => q = p
      BY <3>1, <3>2 DEF NobodyHolds, NobodyWrites, Holding, Writing
    <3>4. overtaken' = Lookers'
      BY <3>1, <3>3, Overtakes
    <3>. QED BY <3>1, <3>3, <3>4 DEF LockOrder, NobodyHolds
  <2>2. CASE pidFile # "absent"
    <3>1. Go(p, "check") /\ UNCHANGED <<pidFile, handle, seen>> /\ Record(FALSE)
      BY <1>2, <2>2 DEF AcquireCreate
    <3>. QED BY <1>r, <3>1, NodeMoves DEF Phases
  <2>. QED BY <2>1, <2>2
<1>3. CASE AcquireWrite(p)
  <2>1. /\ phase' = [phase EXCEPT ![p] = "locked"] /\ Writing(p) /\ Record(FALSE) /\ stop' = stop
    BY <1>3 DEF AcquireWrite, Go
  <2>2. pidFile = "empty" /\ p \in handle /\ NobodyHolds /\ \A q \in Nodes : Writing(q) => q = p
    BY <1>r, <2>1 DEF LockOrder
  <2>3. pidFile' = p
    BY <1>3, <2>2 DEF AcquireWrite, Write
  <2>4. NobodyWrites' /\ \A q \in Nodes : Holding(q)' => q = p
    BY <2>1, <2>2 DEF NobodyHolds, NobodyWrites, Holding, Writing
  <2>5. \A x \in Lookers' : x \in overtaken'
    <3>1. Lookers' = Lookers /\ Lookers \subseteq overtaken
      BY <1>r, <2>1 DEF Lookers, Writing, LockOrder, NobodyWrites
    <3>. QED BY <2>1, <3>1, Overtakes
  <2>. QED BY <2>3, <2>4, <2>5 DEF LockOrder, NobodyWrites
<1>4. CASE AcquireFails(p)
  <2>1. Go(p, "over") /\ Record(FALSE) /\ UNCHANGED seen
    BY <1>4 DEF AcquireFails
  <2>2. CASE phase[p] = "created"
    <3>1. pidFile' = "absent" /\ Writing(p) /\ phase' = [phase EXCEPT ![p] = "over"] /\ stop' = stop
      BY <1>4, <2>1, <2>2 DEF AcquireFails, RemoveFile, Writing, Go
    <3>2. NobodyHolds /\ \A q \in Nodes : Writing(q) => q = p
      BY <1>r, <3>1 DEF LockOrder
    <3>3. NobodyWrites' /\ NobodyHolds'
      BY <3>1, <3>2 DEF NobodyHolds, NobodyWrites, Holding, Writing
    <3>. QED BY <3>3 DEF LockOrder, NobodyHolds, NobodyWrites, Covered
  <2>3. CASE phase[p] # "created"
    <3>1. pidFile' = pidFile /\ handle' = handle \ {p}
      BY <1>4, <2>3 DEF AcquireFails
    <3>. QED BY <1>r, <2>1, <3>1, NodeMoves DEF Phases
  <2>. QED BY <2>2, <2>3
<1>5. CASE AcquireRead(p)
  <2>1. /\ phase[p] = "check" /\ phase' = [phase EXCEPT ![p] = IF pidFile \in {"absent", "empty"}
                                                             THEN "stale" ELSE "look"]
        /\ pidFile' = pidFile /\ handle' = handle /\ stop' = stop /\ Record(FALSE)
        /\ pidFile \notin {"absent", "empty"} => seen' = [seen EXCEPT ![p] = pidFile]
        /\ pidFile \in {"absent", "empty"} => seen' = seen
    BY <1>5 DEF AcquireRead, Go, Sees
  <2>2. \A q \in Nodes : (Holding(q)' <=> Holding(q)) /\ (Writing(q)' <=> Writing(q))
    BY <2>1 DEF Holding, Writing
  <2>3. ASSUME NEW x \in Lookers', x \notin overtaken' PROVE NobodyWrites' /\ Covered(x)'
    <3>1. NobodyWrites' /\ NobodyWrites /\ x \notin overtaken
      BY <2>1, <2>2, <2>3, Overtakes DEF NobodyWrites
    <3>2. CASE x = p
      <4>1. CASE pidFile \in {"absent", "empty"}
        <5>1. NobodyHolds
          BY <1>r, <4>1, ProcessAssumption DEF LockOrder, NobodyHolds
        <5>. QED BY <2>2, <3>1, <5>1 DEF NobodyHolds, Covered
      <4>2. CASE pidFile \notin {"absent", "empty"}
        <5>1. Looks(p)' /\ seen'[p] = pidFile
          BY <2>1, <4>2 DEF Looks
        <5>. QED BY <1>r, <2>2, <3>1, <3>2, <5>1 DEF LockOrder, Covered
      <4>. QED BY <4>1, <4>2
    <3>3. CASE x # p
      <4>1. x \in Lookers /\ x \in Processes /\ (Looks(x)' <=> Looks(x))
        BY <2>1, <2>3, <3>3 DEF Lookers, Looks, Processes
      <4>2. seen'[x] = seen[x]
        BY <2>1, <3>3, <4>1
      <4>3. Covered(x)
        BY <1>r, <3>1, <4>1 DEF LockOrder
      <4>. QED BY <2>2, <3>1, <4>1, <4>2, <4>3 DEF Covered, NobodyHolds
    <3>. QED BY <3>2, <3>3
  <2>. QED BY <1>r, <2>1, <2>2, <2>3 DEF LockOrder, NobodyHolds
<1>6. CASE AcquireLook(p)
  <2>1. /\ phase[p] = "look" /\ pidFile' = pidFile /\ handle' = handle /\ stop' = stop /\ Record(FALSE)
        /\ seen' = [seen EXCEPT ![p] = "absent"]
    BY <1>6 DEF AcquireLook, Go, Forgets
  <2>2. CASE Alive(seen[p])
    <3>1. Go(p, "over")
      BY <1>6, <2>2 DEF AcquireLook
    <3>. QED BY <1>r, <2>1, <3>1, NodeMoves DEF Phases
  <2>3. CASE ~Alive(seen[p])
    <3>1. phase' = [phase EXCEPT ![p] = "stale"]
      BY <1>6, <2>3 DEF AcquireLook, Go
    <3>2. \A q \in Nodes : (Holding(q)' <=> Holding(q)) /\ (Writing(q)' <=> Writing(q))
      BY <2>1, <3>1 DEF Holding, Writing
    <3>3. ASSUME NEW x \in Lookers' \ overtaken'
          PROVE  x \in Lookers \ overtaken /\ (NobodyHolds \/ (Looks(x)' /\ seen'[x] = seen[x]))
      <4>1. x \in Lookers /\ x \in Processes /\ (x # p => (Looks(x)' <=> Looks(x)))
        BY <2>1, <3>1, <3>3 DEF Lookers, Looks, Processes
      <4>2. x \notin overtaken
        BY <2>1, <3>3, Overtakes
      <4>3. Covered(x)
        BY <1>r, <4>1, <4>2 DEF LockOrder
      <4>4. x = p => NobodyHolds
        BY <2>3, <4>3 DEF Covered, NobodyHolds, Alive, Holding
      <4>5. x # p => seen'[x] = seen[x]
        BY <2>1, <4>1
      <4>. QED BY <4>1, <4>2, <4>3, <4>4, <4>5 DEF Covered
    <3>. QED BY <1>r, <2>1, <3>2, <3>3, Quiet
  <2>. QED BY <2>2, <2>3
<1>7. CASE AcquireOverwrite(p)
  <2>1. /\ phase[p] = "stale" /\ phase' = [phase EXCEPT ![p] = "overwrite"] /\ pidFile' = "empty"
        /\ p \in handle' /\ Record(p \in overtaken)
    BY <1>7 DEF AcquireOverwrite, Go
  <2>2. p \in Lookers /\ p \notin overtaken /\ ~Looks(p)
    BY <2>1 DEF Record, Lookers, Looks
  <2>3. NobodyHolds /\ NobodyWrites
    BY <1>r, <2>2 DEF LockOrder, Covered
  <2>4. NobodyHolds' /\ Writing(p)' /\ \A q \in Nodes : Writing(q)' => q = p
    BY <2>1, <2>3 DEF NobodyHolds, NobodyWrites, Holding, Writing
  <2>5. overtaken' = Lookers'
    BY <2>1, <2>4, Overtakes
  <2>. QED BY <2>1, <2>4, <2>5 DEF LockOrder, NobodyHolds
<1>8. CASE Validate(p) \/ RunStarts(p) \/ RunFails(p) \/ HeartbeatLoopPanics(p) \/ HubShutdown(p)
           \/ Quit(p) \/ Terminate(p)
  <2>1. Holding(p) /\ UNCHANGED <<pidFile, handle, seen, ghosts>>
    BY <1>8 DEF Validate, RunStarts, RunFails, HeartbeatLoopPanics, HubShutdown, Quit, Terminate, Holding
  <2>2. PICK to \in {"none", "ready", "running", "idle", "ending"} : Go(p, to)
    BY <1>8 DEF Validate, RunStarts, RunFails, HeartbeatLoopPanics, HubShutdown, Quit, Terminate
  <2>. QED BY <1>r, <2>1, <2>2, NodeMoves DEF Phases
<1>9. CASE Release(p)
  <2>1. /\ phase[p] = "ending" /\ phase' = [phase EXCEPT ![p] = "over"] /\ stop' = stop
        /\ UNCHANGED <<seen, ghosts>>
    BY <1>9 DEF Release, Go
  <2>2. Holding(p) /\ NobodyWrites /\ \A q \in Nodes \ {p} : ~Holding(q)
    BY <1>r, <2>1 DEF LockOrder, Holding, NobodyHolds, NobodyWrites
  <2>3. NobodyHolds' /\ NobodyWrites'
    BY <2>1, <2>2 DEF NobodyHolds, NobodyWrites, Holding, Writing
  <2>. QED BY <2>3 DEF LockOrder, NobodyHolds, NobodyWrites, Covered
<1>10. CASE End(p)
  <2>1. Go(p, "none") /\ UNCHANGED <<pidFile, handle, seen, ghosts>>
    BY <1>10 DEF End
  <2>. QED BY <1>r, <2>1, NodeMoves DEF Phases
<1>11. CASE Crash(p)
  <2>1. Go(p, "none") /\ handle' = handle \ {p} /\ UNCHANGED pidFile /\ Record(FALSE)
        /\ seen' = [seen EXCEPT ![p] = "absent"]
    BY <1>11 DEF Crash, Forgets
  <2>. QED BY <1>r, <2>1, NodeMoves DEF Phases
<1>12. CASE Reused(p)
  <2>1. Go(p, "stranger") /\ UNCHANGED <<pidFile, handle, seen, ghosts>>
    BY <1>12 DEF Reused
  <2>. QED BY <1>r, <2>1, NodeMoves DEF Phases
<1>. QED BY <1>0, <1>1, <1>2, <1>3, <1>4, <1>5, <1>6, <1>7, <1>8, <1>9, <1>10, <1>11, <1>12
         DEF Node, Starting, Ending

LEMMA StopLock == ASSUME TypeOK, LockInv, Stop, ~raced' PROVE LockOrder'
<1>. phase \in [Nodes -> Phases] /\ seen \in [Processes -> Contents] /\ raced \in BOOLEAN
  BY DEF TypeOK
<1>. Stopper \in Processes /\ Stopper \notin Nodes
  BY ProcessAssumption DEF Processes
<1>r. ~raced /\ LockOrder
  <2>1. raced => raced'
    BY DEF Stop, StopRead, StopStat, StopLook, StopClean, StopSignal, Record
  <2>. QED BY <2>1 DEF LockInv
\* Those who look are the same nodes, and the stop command.
<1>n. ASSUME UNCHANGED phase
      PROVE  /\ \A q \in Nodes : (Holding(q)' <=> Holding(q)) /\ (Writing(q)' <=> Writing(q))
             /\ \A x \in Lookers' : x # Stopper => /\ x \in Lookers /\ x \in Processes
                                                   /\ (Looks(x)' <=> Looks(x))
  BY <1>n DEF Holding, Writing, Lookers, Looks, Processes
<1>1. CASE StopRead
  <2>1. /\ UNCHANGED <<phase, pidFile, handle>> /\ Record(FALSE)
        /\ seen' = [seen EXCEPT ![Stopper] = pidFile]
        /\ stop' = IF pidFile \in {"absent", "empty"} THEN "stat" ELSE "look"
    BY <1>1 DEF StopRead, StopStep, Sees
  <2>2. ASSUME NEW x \in Lookers', x \notin overtaken' PROVE NobodyWrites' /\ Covered(x)'
    <3>1. NobodyWrites' /\ x \notin overtaken
      BY <2>1, <2>2, Overtakes
    <3>2. CASE x = Stopper
      <4>1. CASE pidFile \in {"absent", "empty"}
        <5>1. NobodyHolds
          BY <1>r, <4>1, ProcessAssumption DEF LockOrder, NobodyHolds
        <5>. QED BY <1>n, <2>1, <3>1, <5>1 DEF NobodyHolds, Covered
      <4>2. CASE pidFile \notin {"absent", "empty"}
        <5>1. Looks(Stopper)' /\ seen'[Stopper] = pidFile
          BY <2>1, <4>2 DEF Looks
        <5>. QED BY <1>r, <1>n, <2>1, <3>1, <3>2, <5>1 DEF LockOrder, Covered
      <4>. QED BY <4>1, <4>2
    <3>3. CASE x # Stopper
      <4>1. x \in Lookers /\ x \in Processes /\ (Looks(x)' <=> Looks(x))
        BY <1>n, <2>1, <2>2, <3>3
      <4>2. seen'[x] = seen[x]
        BY <2>1, <3>3, <4>1
      <4>3. Covered(x)
        BY <1>r, <3>1, <4>1 DEF LockOrder
      <4>. QED BY <1>n, <2>1, <3>1, <4>1, <4>2, <4>3 DEF Covered, NobodyHolds
    <3>. QED BY <3>2, <3>3
  <2>. QED BY <1>r, <1>n, <2>1, <2>2 DEF LockOrder, NobodyHolds
\* A step of the stop command that keeps or ends its own look, and touches no file.
<1>q. ASSUME UNCHANGED <<phase, pidFile, handle>>, Record(FALSE),
             \A x \in Processes \ {Stopper} : seen'[x] = seen[x],
             Stopper \in Lookers' \ overtaken' => Stopper \in Lookers /\ NobodyHolds
      PROVE  LockOrder'
  <2>1. ASSUME NEW x \in Lookers' \ overtaken'
        PROVE  x \in Lookers \ overtaken /\ (NobodyHolds \/ (Looks(x)' /\ seen'[x] = seen[x]))
    <3>1. x \notin overtaken
      BY <1>q, <2>1, Overtakes
    <3>2. CASE x # Stopper
      <4>1. x \in Lookers /\ x \in Processes /\ (Looks(x)' <=> Looks(x))
        BY <1>n, <1>q, <2>1, <3>2
      <4>2. Covered(x) /\ seen'[x] = seen[x]
        BY <1>q, <1>r, <3>1, <3>2, <4>1 DEF LockOrder
      <4>. QED BY <3>1, <4>1, <4>2 DEF Covered
    <3>. QED BY <1>q, <2>1, <3>1, <3>2
  <2>. QED BY <1>n, <1>q, <1>r, <2>1, Quiet
<1>2. CASE StopStat
  <2>1. /\ UNCHANGED <<phase, pidFile, handle, seen>> /\ Record(FALSE) /\ stop = "stat"
    BY <1>2 DEF StopStat, StopStep
  <2>2. ASSUME Stopper \in Lookers' \ overtaken' PROVE Stopper \in Lookers /\ NobodyHolds
    <3>1. Stopper \in Lookers /\ ~Looks(Stopper) /\ Stopper \notin overtaken
      BY <2>1, <2>2, Overtakes DEF Lookers, Looks
    <3>. QED BY <1>r, <3>1 DEF LockOrder, Covered
  <2>. QED BY <1>q, <2>1, <2>2
<1>3. CASE StopLook
  <2>1. /\ UNCHANGED <<phase, pidFile, handle, seen>> /\ Record(FALSE) /\ stop = "look"
        /\ stop' = IF Alive(seen[Stopper]) THEN "signal" ELSE "clean"
    BY <1>3 DEF StopLook, StopStep
  <2>2. ASSUME Stopper \in Lookers' \ overtaken' PROVE Stopper \in Lookers /\ NobodyHolds
    <3>1. Stopper \in Lookers /\ Stopper \notin overtaken /\ ~Alive(seen[Stopper])
      BY <2>1, <2>2, Overtakes DEF Lookers
    <3>. QED BY <1>r, <3>1 DEF LockOrder, Covered, NobodyHolds, Alive, Holding
  <2>. QED BY <1>q, <2>1, <2>2
<1>4. CASE StopClean
  <2>1. /\ UNCHANGED phase /\ stop = "clean" /\ stop' = "none" /\ Record(Stopper \in overtaken)
    BY <1>4 DEF StopClean, StopStep
  <2>2. Stopper \in Lookers /\ Stopper \notin overtaken /\ ~Looks(Stopper)
    BY <2>1 DEF Record, Lookers, Looks
  <2>3. NobodyHolds /\ NobodyWrites
    BY <1>r, <2>2 DEF LockOrder, Covered
  <2>4. NobodyHolds' /\ NobodyWrites'
    BY <1>n, <2>1, <2>3 DEF NobodyHolds, NobodyWrites
  <2>. QED BY <2>4 DEF LockOrder, NobodyHolds, NobodyWrites, Covered
<1>5. CASE StopSignal
  <2>. DEFINE p == seen[Stopper]
  <2>1. p \in Nodes /\ pidFile' = pidFile /\ stop = "signal" /\ stop' = "none" /\ Record(FALSE)
        /\ seen' = [seen EXCEPT ![Stopper] = "absent"]
    BY <1>5 DEF StopSignal, StopStep, TypeOK, Forgets
  <2>2. \/ UNCHANGED <<phase, handle>>
        \/ phase' = [phase EXCEPT ![p] = "none"] /\ handle' = handle \ {p}
    BY <1>5 DEF StopSignal
  <2>. HIDE DEF p
  <2>3. \A q \in Nodes : /\ Holding(q)' => Holding(q)
                         /\ Writing(q)' => Writing(q) /\ (q \in handle => q \in handle')
    BY <2>1, <2>2 DEF Holding, Writing
  <2>4. \A x \in Lookers' : x \in Lookers /\ x # Stopper /\ x \in Processes /\ (Looks(x) => Looks(x)')
    BY <2>1, <2>2 DEF Lookers, Looks, Processes
  <2>5. ASSUME NEW x \in Lookers' \ overtaken'
        PROVE  x \in Lookers \ overtaken /\ (NobodyHolds \/ (Looks(x)' /\ seen'[x] = seen[x]))
    <3>1. x \notin overtaken
      BY <2>1, <2>5, Overtakes
    <3>2. seen'[x] = seen[x]
      BY <2>1, <2>4, <2>5
    <3>. QED BY <1>r, <2>4, <2>5, <3>1, <3>2 DEF LockOrder, Covered
  <2>. QED BY <1>r, <2>1, <2>3, <2>5, Quiet
<1>. QED BY <1>1, <1>2, <1>3, <1>4, <1>5 DEF Stop

LEMMA StepLock == TypeOK /\ LockInv /\ [Next]_vars => LockInv'
<1>. SUFFICES ASSUME TypeOK, LockInv, [Next]_vars, ~raced' PROVE LockOrder'
  BY DEF LockInv
<1>1. ASSUME UNCHANGED <<phase, pidFile, handle, stop, ghosts>>,
             \A x \in Processes \ {Updater} : seen'[x] = seen[x]
      PROVE  LockOrder'
  <2>1. LockOrder
    BY <1>1 DEF LockInv
  <2>2. \A q \in Nodes : (Holding(q)' <=> Holding(q)) /\ (Writing(q)' <=> Writing(q))
    BY <1>1 DEF Holding, Writing
  <2>3. Lookers' = Lookers /\ \A x \in Lookers : (Looks(x)' <=> Looks(x)) /\ seen'[x] = seen[x]
    BY <1>1, ProcessAssumption DEF Lookers, Looks, Processes
  <2>. QED BY <1>1, <2>1, <2>2, <2>3, Quiet DEF LockOrder, Covered
<1>2. CASE Update
  <2>1. UNCHANGED <<phase, pidFile, handle, stop, ghosts>>
        /\ (Sees(Updater) \/ Forgets(Updater) \/ UNCHANGED seen)
    BY <1>2 DEF Update, UpdateRead, UpdateCheck, UpdateOpen, UpdateCopied, UpdateRename, UpdateFails,
                UpdateStep
  <2>2. \A x \in Processes \ {Updater} : seen'[x] = seen[x]
    BY <2>1 DEF Sees, Forgets, TypeOK
  <2>. QED BY <1>1, <2>1, <2>2
<1>3. CASE UNCHANGED vars
  BY <1>1, <1>3 DEF vars
<1>. QED BY <1>2, <1>3, NodeLock, StopLock DEF Next

(* main.go:537-571: through crashes, reused process ids, failed writes and   *)
(* stop commands the PID file names the node that holds the lock, as long as *)
(* nobody overwrites or removes it on a look that a start has overtaken.     *)
THEOREM ProcessLockNamesTheNode == Spec => []LockNamesTheNode
<1>1. Init => LockInv
  BY DEF Init, LockInv, LockOrder, NobodyHolds, Holding, Writing, Lookers
<1>2. LockInv => LockNamesTheNode
  BY DEF LockInv, LockOrder, LockNamesTheNode
<1>. QED BY <1>1, <1>2, InitTypes, StepTypes, StepLock, PTL DEF Spec
=============================================================================
