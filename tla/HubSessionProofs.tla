--------------------------- MODULE HubSessionProofs ---------------------------
(***************************************************************************)
(* Proofs about HubSession for any commands, signatures and pool size: the *)
(* session implements the link, so that what is proved of the link holds   *)
(* with commands, reports and shutdowns going on, and the commands keep    *)
(* the order the hub relies on.                                            *)
(***************************************************************************)
EXTENDS HubSession, HubLinkProofs, FiniteSetTheorems

USE DEF tokenVars, statusVars, hubVars, sessionVars, commandVars

(* Every step of the session is a step of the link or leaves it as it is.   *)
LEMMA LinkStep == [SessionNext]_allVars => [Next]_vars
<1>. SUFFICES ASSUME [SessionNext]_allVars PROVE [Next]_vars
  OBVIOUS
<1>1. CASE Loop
  BY <1>1 DEF Loop, SessionLogin, FetchSigningKey, SessionRegister, SessionSleep, Heartbeat, Renew,
              Next, Node
<1>2. ASSUME NEW c \in Commands, Goroutine(c) PROVE UNCHANGED vars
  BY <1>2 DEF Goroutine, Spawn, Begin, Finish, BeginShutdown, EndShutdown, Report
<1>3. CASE Signal
  BY <1>3 DEF Signal
<1>4. CASE Hub
  BY <1>4 DEF Hub, Next
<1>5. CASE UNCHANGED allVars
  BY <1>5 DEF allVars
<1>. QED BY <1>1, <1>2, <1>3, <1>4, <1>5 DEF SessionNext

(* daemon.go:112-361: a node that processes commands keeps to the protocol  *)
(* of the link.                                                             *)
THEOREM SessionImplementsLink == SessionSpec => Spec
<1>1. SessionInit => Init
  BY DEF SessionInit
<1>. QED BY <1>1, LinkStep, PTL DEF SessionSpec, Spec

(* client.go:377-407: the reported status follows the outcomes of the       *)
(* heartbeats, whatever the commands do.                                    *)
THEOREM SessionStatusFollowsHistory == SessionSpec => []StatusFollowsHistory
BY SessionImplementsLink, LinkStatusFollowsHistory, PTL

(* client.go:390-397: the status does not flap.                             *)
THEOREM SessionNoFlapping == SessionSpec => NoFlapping
BY SessionImplementsLink, LinkNoFlapping, PTL

(* daemon.go:302-311: the back-off stays between the interval and the cap.  *)
THEOREM SessionBackoffInRange == SessionSpec => []BackoffInRange
BY SessionImplementsLink, LinkBackoffInRange, PTL

(* daemon.go:839-865: a token outlives an outage no longer than the         *)
(* threshold, however long the commands keep the loop.                      *)
THEOREM SessionTokenSurvivesOutage == SessionSpec => []TokenSurvivesOutage
BY SessionImplementsLink, LinkTokenSurvivesOutage, PTL

-----------------------------------------------------------------------------
(* The commands.                                                            *)

Active == {c \in Commands : cmd[c] \in Working}
SlotsCounted == IsFiniteSet(Active) /\ slots = Cardinality(Active) /\ slots <= PoolSize

\* A node without a key has not had a command yet.
KeyFirst ==
  key = "unset" => phase \in {"login", "register"} /\ \A c \in Commands : cmd[c] = "hub"

\* A heartbeat is sent when no command is in hand.
BeatsAlone == run = "up" /\ phase \in {"login", "register", "first", "beat"} => CommandsDone

SessionInv == SessionTypeOK /\ SlotsCounted /\ KeyFirst /\ BeatsAlone /\ OnlySigned

LEMMA SameCommands ==
  ASSUME SlotsCounted, Active' = Active, slots' = slots PROVE SlotsCounted'
BY DEF SlotsCounted

LEMMA SlotsRange == ASSUME SlotsCounted PROVE slots \in 0 .. PoolSize
BY FS_CardinalityType, SessionAssumption DEF SlotsCounted

(* A command takes a place of the pool ...                                  *)
LEMMA SlotTaken ==
  ASSUME SlotsCounted, NEW c \in Commands, c \notin Active, slots < PoolSize,
         Active' = Active \cup {c}, slots' = slots + 1
  PROVE  SlotsCounted'
<1>1. IsFiniteSet(Active \cup {c}) /\ Cardinality(Active \cup {c}) = Cardinality(Active) + 1
  BY FS_AddElement DEF SlotsCounted
<1>2. slots \in 0 .. PoolSize
  BY SlotsRange
<1>. QED BY <1>1, <1>2, SessionAssumption DEF SlotsCounted

(* ... and gives it back.                                                   *)
LEMMA SlotGivenBack ==
  ASSUME SlotsCounted, NEW c \in Commands, c \in Active,
         Active' = Active \ {c}, slots' = slots - 1
  PROVE  SlotsCounted'
<1>1. IsFiniteSet(Active \ {c}) /\ Cardinality(Active \ {c}) = Cardinality(Active) - 1
  BY FS_RemoveElement DEF SlotsCounted
<1>2. slots \in 0 .. PoolSize
  BY SlotsRange
<1>. QED BY <1>1, <1>2, SessionAssumption DEF SlotsCounted

LEMMA Places ==
  ASSUME SessionTypeOK, SlotsCounted, NEW c \in Commands, NEW to
  PROVE  /\ cmd[c] = "batch" /\ slots < PoolSize /\ cmd' = [cmd EXCEPT ![c] = to]
              /\ to \in Working /\ slots' = slots + 1 => SlotsCounted'
         /\ cmd[c] \in Working /\ to \in Working /\ Move(c, to) => SlotsCounted'
         /\ cmd[c] \notin Working /\ to \notin Working /\ Move(c, to) => SlotsCounted'
         /\ cmd[c] \in Working /\ to \notin Working /\ End(c, to) => SlotsCounted'
<1>1. DOMAIN cmd = Commands
  BY DEF SessionTypeOK
<1>2. ASSUME cmd' = [cmd EXCEPT ![c] = to]
      PROVE  Active' = IF to \in Working THEN Active \cup {c} ELSE Active \ {c}
  BY <1>1, <1>2 DEF Active
<1>3. ASSUME cmd[c] = "batch", slots < PoolSize, cmd' = [cmd EXCEPT ![c] = to], to \in Working,
             slots' = slots + 1
      PROVE  SlotsCounted'
  <2>1. c \notin Active
    BY <1>3 DEF Active, Working
  <2>. QED BY <1>2, <1>3, <2>1, SlotTaken
<1>4. ASSUME cmd[c] \in Working, to \in Working, Move(c, to) PROVE SlotsCounted'
  BY <1>2, <1>4, SameCommands DEF Move, Active
<1>5. ASSUME cmd[c] \notin Working, to \notin Working, Move(c, to) PROVE SlotsCounted'
  BY <1>2, <1>5, SameCommands DEF Move, Active
<1>6. ASSUME cmd[c] \in Working, to \notin Working, End(c, to) PROVE SlotsCounted'
  <2>1. c \in Active
    BY <1>6 DEF Active
  <2>. QED BY <1>2, <1>6, <2>1, SlotGivenBack DEF End
<1>. QED BY <1>3, <1>4, <1>5, <1>6

(* A step of a command keeps the invariant.                                 *)
LEMMA GoroutineInv ==
  ASSUME SessionInv, NEW c \in Commands, Goroutine(c) PROVE SessionInv'
<1>. /\ SessionTypeOK /\ SlotsCounted /\ KeyFirst /\ BeatsAlone /\ OnlySigned
     /\ cmd \in [Commands -> {"hub", "lost", "batch"} \cup Working \cup Refused \cup Ended]
     /\ UNCHANGED vars
  BY DEF SessionInv, SessionTypeOK, Goroutine, Spawn, Begin, Finish, BeginShutdown, EndShutdown, Report
<1>1. PICK to : /\ cmd' = [cmd EXCEPT ![c] = to]
                /\ to \in Working \cup Refused \cup Ended
                /\ cmd[c] \notin {"hub", "lost"} \cup Ended
                /\ cmd[c] = "batch" => to = "started"
                /\ cmd[c] \in Refused => to \in {"told", "untold"}
                /\ to \in {"working", "closing", "done", "failed"} =>
                     \/ cmd[c] = "started" /\ Verified(c)
                     \/ cmd[c] \in {"working", "closing"}
                /\ SlotsCounted'
  <2>1. CASE Spawn(c)
    BY <2>1, Places DEF Spawn, Working, Refused, Ended
  <2>2. CASE Begin(c)
    BY <2>2, Places DEF Begin, End, Move, Working, Refused, Ended
  <2>3. CASE Finish(c)
    BY <2>3, Places DEF Finish, End, Working, Refused, Ended
  <2>4. CASE BeginShutdown(c)
    BY <2>4, Places DEF BeginShutdown, Move, Working, Refused, Ended
  <2>5. CASE EndShutdown(c)
    BY <2>5, Places DEF EndShutdown, End, Working, Refused, Ended
  <2>6. CASE Report(c)
    BY <2>6, Places DEF Report, Move, Working, Refused, Ended
  <2>. QED BY <2>1, <2>2, <2>3, <2>4, <2>5, <2>6 DEF Goroutine
<1>2. /\ UNCHANGED key /\ run' \in {run, "cancelled"}
  BY DEF Goroutine, Spawn, Begin, Finish, BeginShutdown, EndShutdown, Report
<1>3. SessionTypeOK'
  <2>1. cmd' \in [Commands -> {"hub", "lost", "batch"} \cup Working \cup Refused \cup Ended]
    BY <1>1
  <2>2. slots' \in 0 .. PoolSize
    BY <1>1, FS_CardinalityType, SessionAssumption DEF SlotsCounted
  <2>3. TypeOK'
    BY DEF vars, TypeOK, SessionTypeOK
  <2>. QED BY <1>2, <2>1, <2>2, <2>3 DEF SessionTypeOK
<1>4. KeyFirst'
  <2>. SUFFICES ASSUME key' = "unset" PROVE FALSE
    BY DEF KeyFirst
  <2>. QED BY <1>1, <1>2 DEF KeyFirst
<1>5. BeatsAlone'
  <2>. SUFFICES ASSUME run' = "up", phase' \in {"login", "register", "first", "beat"}
                PROVE  CommandsDone'
    BY DEF BeatsAlone
  <2>1. CommandsDone
    BY <1>2 DEF BeatsAlone, vars
  <2>. QED BY <1>1, <2>1 DEF CommandsDone, Working, Refused, Ended
<1>6. OnlySigned'
  <2>. SUFFICES ASSUME key' = "set", NEW d \in Commands,
                       cmd'[d] \in {"working", "closing", "done", "failed"}
                PROVE  d \in Signed
    BY DEF OnlySigned
  <2>. QED BY <1>1, <1>2 DEF OnlySigned, Verified
<1>. QED BY <1>1, <1>3, <1>4, <1>5, <1>6 DEF SessionInv

(* A heartbeat: commands leave the hub.                                     *)
LEMMA ReceiveCommands ==
  ASSUME SessionTypeOK, Receive
  PROVE  /\ cmd' \in [Commands -> {"hub", "lost", "batch"} \cup Working \cup Refused \cup Ended]
         /\ \A c \in Commands : cmd'[c] = cmd[c] \/ (cmd'[c] \in {"batch", "lost"} /\ cmd[c] = "hub")
<1>. DEFINE Where == IF Accepted THEN {"batch", "lost"} ELSE {"lost"}
<1>1. PICK batch \in SUBSET {c \in Commands : cmd[c] = "hub"}, where \in Where :
             cmd' = [c \in Commands |-> IF c \in batch THEN where ELSE cmd[c]]
  BY DEF Receive
<1>2. where \in {"batch", "lost"}
  <2>1. CASE Accepted
    BY <2>1
  <2>2. CASE ~Accepted
    BY <2>2
  <2>. QED BY <2>1, <2>2
<1>. HIDE DEF Where
<1>3. \A c \in batch : cmd[c] = "hub"
  BY <1>1
<1>4. \A c \in Commands : cmd'[c] = IF c \in batch THEN where ELSE cmd[c]
  BY <1>1
<1>5. \A c \in Commands : cmd[c] \in {"hub", "lost", "batch"} \cup Working \cup Refused \cup Ended
  BY DEF SessionTypeOK
<1>6. \A c \in Commands : cmd'[c] \in {"hub", "lost", "batch"} \cup Working \cup Refused \cup Ended
  BY <1>2, <1>4, <1>5
<1>7. cmd' = [c \in Commands |-> cmd'[c]]
  BY <1>1
<1>8. cmd' \in [Commands -> {"hub", "lost", "batch"} \cup Working \cup Refused \cup Ended]
  BY <1>6, <1>7
<1>. QED BY <1>2, <1>3, <1>4, <1>8

\* What the conjuncts depend on, apart from the link.
LEMMA LinkOnly ==
  ASSUME SessionInv, TypeOK', UNCHANGED sessionVars, KeyFirst', BeatsAlone'
  PROVE  SessionInv'
BY SameCommands DEF SessionInv, SessionTypeOK, OnlySigned, Active

LEMMA LoopInv == ASSUME SessionInv, IInv', Loop PROVE SessionInv'
<1>. /\ SessionTypeOK /\ SlotsCounted /\ KeyFirst /\ BeatsAlone /\ OnlySigned /\ TypeOK'
  BY DEF SessionInv, IInv
<1>1. CASE SessionLogin
  <2>1. KeyFirst' /\ BeatsAlone'
    BY <1>1 DEF SessionLogin, Login, KeyFirst, BeatsAlone, CommandsDone
  <2>. QED BY <1>1, <2>1, LinkOnly DEF SessionLogin
<1>2. CASE FetchSigningKey
  <2>1. UNCHANGED <<vars, run, commandVars>> /\ key' \in {"set", "none"} /\ key = "unset"
    BY <1>2 DEF FetchSigningKey
  <2>2. SlotsCounted' /\ BeatsAlone'
    BY <2>1, SameCommands DEF Active, BeatsAlone, CommandsDone, vars
  <2>. QED BY <2>1, <2>2 DEF SessionInv, SessionTypeOK, KeyFirst, OnlySigned
<1>3. CASE SessionRegister
  <2>1. KeyFirst' /\ BeatsAlone'
    BY <1>3 DEF SessionRegister, Register, KeyFirst, BeatsAlone, CommandsDone
  <2>. QED BY <1>3, <2>1, LinkOnly DEF SessionRegister
<1>4. CASE SessionSleep
  <2>1. KeyFirst' /\ BeatsAlone'
    BY <1>4 DEF SessionSleep, Sleep, KeyFirst, BeatsAlone, CommandsDone
  <2>. QED BY <1>4, <2>1, LinkOnly DEF SessionSleep
<1>5. CASE Heartbeat
  <2>1. /\ phase \in {"first", "beat"} /\ phase' \in {"sleep", "renew"}
        /\ UNCHANGED <<run, key, slots>> /\ Receive
    BY <1>5 DEF Heartbeat, FirstHeartbeat, HeartbeatFails, HeartbeatAccepted
  <2>2. /\ cmd' \in [Commands -> {"hub", "lost", "batch"} \cup Working \cup Refused \cup Ended]
        /\ \A c \in Commands : cmd'[c] = cmd[c] \/ (cmd'[c] \in {"batch", "lost"} /\ cmd[c] = "hub")
    BY <2>1, ReceiveCommands
  <2>3. Active' = Active
    BY <2>2 DEF Active, Working
  <2>4. OnlySigned'
    BY <2>1, <2>2 DEF OnlySigned
  <2>. QED BY <2>1, <2>2, <2>3, <2>4, SameCommands DEF SessionInv, SessionTypeOK, KeyFirst, BeatsAlone
<1>6. CASE Renew
  <2>1. /\ phase' = "sleep" /\ phase = "renew" /\ UNCHANGED <<key, commandVars>>
        /\ run' \in {"up", "ended"}
    BY <1>6 DEF Renew, MaybeRenewToken
  <2>. QED BY <2>1, SameCommands
           DEF SessionInv, SessionTypeOK, KeyFirst, BeatsAlone, OnlySigned, Active
<1>. QED BY <1>1, <1>2, <1>3, <1>4, <1>5, <1>6 DEF Loop

LEMMA StepSession == IInv /\ SessionInv /\ [SessionNext]_allVars => IInv' /\ SessionInv'
<1>. SUFFICES ASSUME IInv, SessionInv, [SessionNext]_allVars PROVE IInv' /\ SessionInv'
  OBVIOUS
<1>1. IInv'
  BY LinkStep, StepIInv
<1>2. TypeOK'
  BY <1>1 DEF IInv
<1>3. CASE Loop
  BY <1>1, <1>3, LoopInv
<1>4. CASE \E c \in Commands : Goroutine(c)
  BY <1>1, <1>4, GoroutineInv
<1>5. CASE Signal
  BY <1>1, <1>2, <1>5, SameCommands
  DEF Signal, SessionInv, SessionTypeOK, KeyFirst, BeatsAlone, OnlySigned, Active, CommandsDone, vars
<1>6. CASE Hub
  <2>1. UNCHANGED <<phase, sessionVars>>
    BY <1>6 DEF Hub, HubDown, HubUp
  <2>. QED BY <1>1, <1>2, <2>1, LinkOnly DEF SessionInv, KeyFirst, BeatsAlone, CommandsDone
<1>7. CASE UNCHANGED allVars
  BY <1>1, <1>2, <1>7, LinkOnly DEF allVars, vars, SessionInv, KeyFirst, BeatsAlone, CommandsDone
<1>. QED BY <1>1, <1>3, <1>4, <1>5, <1>6, <1>7 DEF SessionNext

LEMMA InitSession == SessionInit => IInv /\ SessionInv
<1>. SUFFICES ASSUME SessionInit PROVE IInv /\ SessionInv
  OBVIOUS
<1>1. IInv /\ TypeOK
  BY InitIInv DEF SessionInit, IInv
<1>2. Active = {}
  BY DEF SessionInit, Active, Working
<1>3. SlotsCounted
  BY <1>2, FS_EmptySet, SessionAssumption DEF SlotsCounted, SessionInit
<1>. QED BY <1>1, <1>3, SessionAssumption
         DEF SessionInit, Init, SessionInv, SessionTypeOK, KeyFirst, BeatsAlone, CommandsDone,
             OnlySigned, Working

(* The variables of the session keep their types, and the pool its bound.   *)
THEOREM SessionTypes == SessionSpec => []SessionTypeOK
<1>1. SessionInv => SessionTypeOK
  BY DEF SessionInv
<1>. QED BY <1>1, InitSession, StepSession, PTL DEF SessionSpec

(* daemon.go:138-147, 405-441: a node that has a key acts on signed         *)
(* commands alone.                                                          *)
THEOREM SessionOnlySigned == SessionSpec => []OnlySigned
<1>1. SessionInv => OnlySigned
  BY DEF SessionInv
<1>. QED BY <1>1, InitSession, StepSession, PTL DEF SessionSpec

(* daemon.go:345-357, 596-609: no heartbeat after a hub command has begun a *)
(* Shutdown.                                                                *)
THEOREM SessionShutdownIsLast == SessionSpec => []HubShutdownIsLast
<1>1. SessionInv => HubShutdownIsLast
  BY DEF SessionInv, BeatsAlone, CommandsDone, HubShutdownIsLast, Working
<1>. QED BY <1>1, InitSession, StepSession, PTL DEF SessionSpec

-----------------------------------------------------------------------------
(* Progress, as far as it is a matter of safety: with the fairness of the   *)
(* loop and of the goroutines it makes every command end.                   *)

(* daemon.go:348-357: if no command holds a place, all places are free.     *)
THEOREM SessionNobodyStuck == SessionSpec => []NobodyStuck
<1>1. SessionInv => NobodyStuck
  <2>. SUFFICES ASSUME SessionInv, ~CommandsDone, \A c \in Commands : cmd[c] \notin Working
                PROVE  \E c \in Commands : cmd[c] = "batch" /\ slots < PoolSize
    BY DEF NobodyStuck
  <2>1. Active = {}
    BY DEF Active
  <2>2. slots = 0
    BY <2>1, FS_EmptySet DEF SessionInv, SlotsCounted
  <2>. QED BY <2>2, SessionAssumption DEF CommandsDone
<1>. QED BY <1>1, InitSession, StepSession, PTL DEF SessionSpec

(* daemon.go:343-357, 405-441: a command is never taken up twice.           *)
THEOREM SessionCommandsForward == SessionSpec => CommandsOnlyForward
<1>. DEFINE Forward == \A c \in Commands : cmd'[c] = cmd[c] \/ StepsLeft[cmd'[c]] < StepsLeft[cmd[c]]
<1>1. SessionInv /\ [SessionNext]_allVars => [Forward]_allVars
  <2>. SUFFICES ASSUME SessionInv, SessionNext PROVE Forward
    BY DEF allVars
  <2>. SessionTypeOK /\ DOMAIN cmd = Commands
    BY DEF SessionInv, SessionTypeOK
  <2>1. CASE Heartbeat
    <3>1. \A c \in Commands : cmd'[c] = cmd[c] \/ (cmd'[c] \in {"batch", "lost"} /\ cmd[c] = "hub")
      BY <2>1, ReceiveCommands DEF Heartbeat
    <3>. QED BY <3>1 DEF StepsLeft
  <2>2. CASE SessionLogin \/ FetchSigningKey \/ SessionRegister \/ SessionSleep \/ Renew \/ Signal \/ Hub
    BY <2>2 DEF SessionLogin, FetchSigningKey, SessionRegister, SessionSleep, Renew, Signal, Hub
  <2>3. ASSUME NEW c \in Commands, Goroutine(c) PROVE Forward
    <3>1. \E to : cmd' = [cmd EXCEPT ![c] = to] /\ StepsLeft[to] < StepsLeft[cmd[c]]
      <4>1. CASE Spawn(c)
        <5>1. cmd[c] = "batch" /\ cmd' = [cmd EXCEPT ![c] = "started"]
          BY <4>1 DEF Spawn
        <5>2. StepsLeft["started"] < StepsLeft["batch"]
          BY DEF StepsLeft
        <5>. QED BY <5>1, <5>2
      <4>2. CASE Begin(c)
        BY <4>2 DEF Begin, End, Move, StepsLeft
      <4>3. CASE Finish(c)
        BY <4>3 DEF Finish, End, StepsLeft
      <4>4. CASE BeginShutdown(c) \/ EndShutdown(c)
        BY <4>4 DEF BeginShutdown, EndShutdown, Move, End, StepsLeft
      <4>5. CASE Report(c)
        <5>1. /\ cmd[c] \in {"rejected", "failed"}
              /\ \E to \in {"told", "untold"} : cmd' = [cmd EXCEPT ![c] = to]
          BY <4>5 DEF Report, Move, Refused
        <5>2. \A from \in {"rejected", "failed"}, to \in {"told", "untold"} : StepsLeft[to] < StepsLeft[from]
          BY DEF StepsLeft
        <5>. QED BY <5>1, <5>2
      <4>. QED BY <2>3, <4>1, <4>2, <4>3, <4>4, <4>5 DEF Goroutine
    <3>. QED BY <3>1
  <2>. QED BY <2>1, <2>2, <2>3 DEF SessionNext, Loop
<1>. QED BY <1>1, InitSession, StepSession, PTL DEF SessionSpec, CommandsOnlyForward
=============================================================================
