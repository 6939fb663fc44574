-------------------------- MODULE StateStoreProofs --------------------------
(***************************************************************************)
(* Proofs about StateStore for any number of callers, shutdowns, retries   *)
(* and changes: types, no lost update, the promise of Shutdown, and the    *)
(* refinement of DurableMap.                                               *)
(***************************************************************************)
EXTENDS StateStore, TLAPS

USE DEF mapVars, triggerVars, loopVars, saveVars, closeVars

\* The pending flag never blocks a trigger for good: while it is set, a
\* trigger waits in the channel or the loop is about to clear the flag.
PendingIsServed == pending => saveChan \/ loop = "clear"

\* Save reads and writes under s.mu, so what it has marshalled stays current.
BufferCurrent == \A p \in Savers : save[p] # "off" => buf[p] = agents

\* Save is running exactly when its caller stands inside it.
CallersInSave ==
  /\ save[LoopSaver] # "off" <=> loop = "saving"
  /\ \A c \in Closers : save[c] # "off" <=> shutdown[c] = "saving"

\* A retry is only ever slept for while one is left.
RetryLeft == loop = "sleep" => attempt < MaxRetries

\* Past its first step, a Shutdown has cancelled the loop; if it saw done
\* closed, the loop has exited.
ShutdownOrder ==
  \A c \in Closers :
    /\ shutdown[c] # "no" => cancelled
    /\ joined[c] => shutdown[c] \notin {"no", "join"} /\ loop = "exited"

\* Map numbers grow while the node is up.
NumbersGrow ==
  /\ agents <= changes
  /\ file.ver <= changes
  /\ \A c \in Closers : asked[c] <= agents

\* What a successful final save wrote survives until another Shutdown
\* truncates the file or fails.
FinalSaveStays ==
  \A c \in Closers :
    shutdown[c] = "closed" /\ joined[c] /\ flushed[c] =>
      \/ file.form = "whole" /\ file.ver >= asked[c]
      \/ \E d \in Closers \ {c} :
           save[d] = "write" \/ (shutdown[d] = "closed" /\ ~flushed[d])

IInv ==
  /\ TypeOK
  /\ PendingIsServed
  /\ BufferCurrent
  /\ CallersInSave
  /\ RetryLeft
  /\ ShutdownOrder
  /\ NumbersGrow
  /\ NoLostUpdate
  /\ FinalSaveStays


-----------------------------------------------------------------------------

\* The initial state: empty map, no file, everything idle.
LEMMA InitIInv == Init => IInv
<1>. SUFFICES ASSUME Init PROVE IInv
  OBVIOUS
<1>1. TypeOK
  <2>1. /\ joined \in [Closers -> BOOLEAN]
        /\ flushed \in [Closers -> BOOLEAN]
    BY Zenon DEF Init
  <2>2. /\ file \in [form : Forms, ver : Nat]
        /\ attempt \in 0 .. MaxRetries
    BY StoreAssumption DEF Init, Forms
  <2>. QED BY <2>1, <2>2 DEF Init, TypeOK, LoopStates, Savers
<1>2. PendingIsServed /\ BufferCurrent /\ CallersInSave /\ RetryLeft
  BY DEF Init, PendingIsServed, BufferCurrent, CallersInSave, RetryLeft, Savers
<1>3. ShutdownOrder /\ NumbersGrow /\ NoLostUpdate /\ FinalSaveStays
  BY DEF Init, ShutdownOrder, NumbersGrow, NoLostUpdate, FinalSaveStays,
         NothingToSave
<1>. QED BY <1>1, <1>2, <1>3 DEF IInv

\* Steps of a caller: the map changes under s.mu, then the save is triggered.
LEMMA CallerIInv ==
  ASSUME IInv, NEW c \in Callers, Change(c) \/ TriggerSave(c)
  PROVE  IInv'
<1>1. CASE Change(c)
  BY <1>1, StoreAssumption
  DEF Change, IInv, TypeOK, PendingIsServed, BufferCurrent, CallersInSave,
      RetryLeft, ShutdownOrder, NumbersGrow, NoLostUpdate, FinalSaveStays,
      Forms, LoopStates, Savers, Persisted, NothingToSave, SaveOwed
<1>2. CASE TriggerSave(c)
  BY <1>2, StoreAssumption
  DEF TriggerSave, IInv, TypeOK, PendingIsServed, BufferCurrent, CallersInSave,
      RetryLeft, ShutdownOrder, NumbersGrow, NoLostUpdate, FinalSaveStays,
      Forms, LoopStates, Savers, Persisted, NothingToSave, SaveOwed
<1>. QED BY <1>1, <1>2

\* Steps of saveLoop outside Save.
LEMMA LoopIInv == IInv /\ LoopStep => IInv'
<1>. SUFFICES ASSUME IInv, LoopStep PROVE IInv'
  OBVIOUS
<1>1. CASE LoopReceive
  BY <1>1, StoreAssumption
  DEF LoopReceive, IInv, TypeOK, PendingIsServed, BufferCurrent, CallersInSave,
      RetryLeft, ShutdownOrder, NumbersGrow, NoLostUpdate, FinalSaveStays,
      Forms, LoopStates, Savers, Persisted, NothingToSave, SaveOwed
<1>2. CASE LoopClear
  <2>. USE <1>2 DEF LoopClear
  <2>1. TypeOK'
    <3>1. attempt' \in 0 .. MaxRetries
      BY StoreAssumption
    <3>. QED BY <3>1 DEF IInv, TypeOK, LoopStates
  <2>2. PendingIsServed' /\ RetryLeft'
    BY StoreAssumption DEF IInv, TypeOK, PendingIsServed, RetryLeft,
       CallersInSave, Savers
  <2>3. BufferCurrent' /\ CallersInSave'
    BY StoreAssumption DEF IInv, TypeOK, BufferCurrent, CallersInSave, Savers
  <2>4. ShutdownOrder' /\ NumbersGrow'
    BY StoreAssumption DEF IInv, TypeOK, CallersInSave, BufferCurrent,
       ShutdownOrder, NumbersGrow, Savers
  <2>5. NoLostUpdate'
    BY StoreAssumption DEF IInv, TypeOK, NoLostUpdate, Persisted, NothingToSave,
       SaveOwed, PendingIsServed, CallersInSave, BufferCurrent, ShutdownOrder,
       Savers
  <2>6. FinalSaveStays'
    BY StoreAssumption DEF IInv, TypeOK, FinalSaveStays, CallersInSave,
       BufferCurrent, ShutdownOrder, NumbersGrow, Savers
  <2>. QED BY <2>1, <2>2, <2>3, <2>4, <2>5, <2>6 DEF IInv
<1>3. CASE LoopExit
  <2>. USE <1>3 DEF LoopExit
  <2>1. TypeOK'
    BY StoreAssumption DEF IInv, TypeOK, Forms, LoopStates, Savers, RetryLeft
  <2>2. PendingIsServed' /\ RetryLeft'
    BY StoreAssumption DEF IInv, TypeOK, PendingIsServed, RetryLeft,
       CallersInSave, Savers
  <2>3. BufferCurrent' /\ CallersInSave'
    BY StoreAssumption DEF IInv, TypeOK, BufferCurrent, CallersInSave, Savers
  <2>4. ShutdownOrder' /\ NumbersGrow'
    BY StoreAssumption DEF IInv, TypeOK, CallersInSave, BufferCurrent,
       ShutdownOrder, NumbersGrow, Savers
  <2>5. NoLostUpdate'
    BY StoreAssumption DEF IInv, TypeOK, NoLostUpdate, Persisted, NothingToSave,
       SaveOwed, PendingIsServed, CallersInSave, BufferCurrent, ShutdownOrder,
       Savers
  <2>6. FinalSaveStays'
    BY StoreAssumption DEF IInv, TypeOK, FinalSaveStays, CallersInSave,
       BufferCurrent, ShutdownOrder, NumbersGrow, Savers
  <2>. QED BY <2>1, <2>2, <2>3, <2>4, <2>5, <2>6 DEF IInv
<1>4. CASE LoopRetry
  BY <1>4, StoreAssumption
  DEF LoopRetry, IInv, TypeOK, PendingIsServed, BufferCurrent, CallersInSave,
      RetryLeft, ShutdownOrder, NumbersGrow, NoLostUpdate, FinalSaveStays,
      Forms, LoopStates, Savers, Persisted, NothingToSave, SaveOwed
<1>. QED BY <1>1, <1>2, <1>3, <1>4 DEF LoopStep

\* Steps of a saver inside Save.
LEMMA SaveIInv ==
  ASSUME IInv, NEW p \in Savers, SaveStep(p)
  PROVE  IInv'
<1>1. CASE SaveNoDir(p)
  <2>. USE <1>1 DEF SaveNoDir, MaySave, SaveReturns
  <2>1. TypeOK'
    BY StoreAssumption DEF IInv, TypeOK, Forms, LoopStates, Savers, RetryLeft
  <2>2. PendingIsServed' /\ RetryLeft'
    BY StoreAssumption DEF IInv, TypeOK, PendingIsServed, RetryLeft,
       CallersInSave, Savers
  <2>3. BufferCurrent' /\ CallersInSave'
    BY StoreAssumption DEF IInv, TypeOK, BufferCurrent, CallersInSave, Savers
  <2>4. ShutdownOrder' /\ NumbersGrow'
    BY StoreAssumption DEF IInv, TypeOK, CallersInSave, BufferCurrent,
       ShutdownOrder, NumbersGrow, Savers
  <2>5. NoLostUpdate'
    BY StoreAssumption DEF IInv, TypeOK, NoLostUpdate, Persisted, NothingToSave,
       SaveOwed, PendingIsServed, CallersInSave, BufferCurrent, ShutdownOrder,
       Savers
  <2>6. FinalSaveStays'
    BY StoreAssumption DEF IInv, TypeOK, FinalSaveStays, CallersInSave,
       BufferCurrent, ShutdownOrder, NumbersGrow, Savers
  <2>. QED BY <2>1, <2>2, <2>3, <2>4, <2>5, <2>6 DEF IInv
<1>2. CASE SaveMarshal(p)
  BY <1>2, StoreAssumption
  DEF SaveMarshal, MaySave, IInv, TypeOK, PendingIsServed, BufferCurrent, CallersInSave,
      RetryLeft, ShutdownOrder, NumbersGrow, NoLostUpdate, FinalSaveStays,
      Forms, LoopStates, Savers, Persisted, NothingToSave, SaveOwed
<1>3. CASE SaveTruncate(p)
  BY <1>3, StoreAssumption
  DEF SaveTruncate, IInv, TypeOK, PendingIsServed, BufferCurrent, CallersInSave,
      RetryLeft, ShutdownOrder, NumbersGrow, NoLostUpdate, FinalSaveStays,
      Forms, LoopStates, Savers, Persisted, NothingToSave, SaveOwed
<1>4. CASE SaveOpenFails(p)
  <2>. USE <1>4 DEF SaveOpenFails, SaveReturns
  <2>1. TypeOK'
    BY StoreAssumption DEF IInv, TypeOK, Forms, LoopStates, Savers, RetryLeft
  <2>2. PendingIsServed' /\ RetryLeft'
    BY StoreAssumption DEF IInv, TypeOK, PendingIsServed, RetryLeft,
       CallersInSave, Savers
  <2>3. BufferCurrent' /\ CallersInSave'
    BY StoreAssumption DEF IInv, TypeOK, BufferCurrent, CallersInSave, Savers
  <2>4. ShutdownOrder' /\ NumbersGrow'
    BY StoreAssumption DEF IInv, TypeOK, CallersInSave, BufferCurrent,
       ShutdownOrder, NumbersGrow, Savers
  <2>5. NoLostUpdate'
    BY StoreAssumption DEF IInv, TypeOK, NoLostUpdate, Persisted, NothingToSave,
       SaveOwed, PendingIsServed, CallersInSave, BufferCurrent, ShutdownOrder,
       Savers
  <2>6. FinalSaveStays'
    BY StoreAssumption DEF IInv, TypeOK, FinalSaveStays, CallersInSave,
       BufferCurrent, ShutdownOrder, NumbersGrow, Savers
  <2>. QED BY <2>1, <2>2, <2>3, <2>4, <2>5, <2>6 DEF IInv
<1>5. CASE SaveWrite(p)
  <2>. USE <1>5 DEF SaveWrite, SaveReturns
  <2>1. TypeOK'
    BY StoreAssumption DEF IInv, TypeOK, Forms, LoopStates, Savers, RetryLeft
  <2>2. PendingIsServed' /\ RetryLeft'
    BY StoreAssumption DEF IInv, TypeOK, PendingIsServed, RetryLeft,
       CallersInSave, Savers
  <2>3. BufferCurrent' /\ CallersInSave'
    BY StoreAssumption DEF IInv, TypeOK, BufferCurrent, CallersInSave, Savers
  <2>4. ShutdownOrder' /\ NumbersGrow'
    BY StoreAssumption DEF IInv, TypeOK, CallersInSave, BufferCurrent,
       ShutdownOrder, NumbersGrow, Savers
  <2>5. NoLostUpdate'
    BY StoreAssumption DEF IInv, TypeOK, NoLostUpdate, Persisted, NothingToSave,
       SaveOwed, PendingIsServed, CallersInSave, BufferCurrent, ShutdownOrder,
       Savers
  <2>6. FinalSaveStays'
    BY StoreAssumption DEF IInv, TypeOK, FinalSaveStays, CallersInSave,
       BufferCurrent, ShutdownOrder, NumbersGrow, Savers
  <2>. QED BY <2>1, <2>2, <2>3, <2>4, <2>5, <2>6 DEF IInv
<1>6. CASE SaveWriteFails(p)
  <2>. USE <1>6 DEF SaveWriteFails, SaveReturns
  <2>1. TypeOK'
    BY StoreAssumption DEF IInv, TypeOK, Forms, LoopStates, Savers, RetryLeft
  <2>2. PendingIsServed' /\ RetryLeft'
    BY StoreAssumption DEF IInv, TypeOK, PendingIsServed, RetryLeft,
       CallersInSave, Savers
  <2>3. BufferCurrent' /\ CallersInSave'
    BY StoreAssumption DEF IInv, TypeOK, BufferCurrent, CallersInSave, Savers
  <2>4. ShutdownOrder' /\ NumbersGrow'
    BY StoreAssumption DEF IInv, TypeOK, CallersInSave, BufferCurrent,
       ShutdownOrder, NumbersGrow, Savers
  <2>5. NoLostUpdate'
    BY StoreAssumption DEF IInv, TypeOK, NoLostUpdate, Persisted, NothingToSave,
       SaveOwed, PendingIsServed, CallersInSave, BufferCurrent, ShutdownOrder,
       Savers
  <2>6. FinalSaveStays'
    BY StoreAssumption DEF IInv, TypeOK, FinalSaveStays, CallersInSave,
       BufferCurrent, ShutdownOrder, NumbersGrow, Savers
  <2>. QED BY <2>1, <2>2, <2>3, <2>4, <2>5, <2>6 DEF IInv
<1>. QED BY <1>1, <1>2, <1>3, <1>4, <1>5, <1>6 DEF SaveStep

\* Steps of a Shutdown outside its final Save.
LEMMA ShutdownIInv ==
  ASSUME IInv, NEW c \in Closers, ShutdownBegin(c) \/ ShutdownJoin(c)
  PROVE  IInv'
<1>1. CASE ShutdownBegin(c)
  <2>. USE <1>1 DEF ShutdownBegin
  <2>1. TypeOK'
    BY StoreAssumption DEF IInv, TypeOK, Forms, LoopStates, Savers, RetryLeft
  <2>2. PendingIsServed' /\ RetryLeft'
    BY StoreAssumption DEF IInv, TypeOK, PendingIsServed, RetryLeft,
       CallersInSave, Savers
  <2>3. BufferCurrent' /\ CallersInSave'
    BY StoreAssumption DEF IInv, TypeOK, BufferCurrent, CallersInSave, Savers
  <2>4. ShutdownOrder' /\ NumbersGrow'
    BY StoreAssumption DEF IInv, TypeOK, CallersInSave, BufferCurrent,
       ShutdownOrder, NumbersGrow, Savers
  <2>5. NoLostUpdate'
    BY StoreAssumption DEF IInv, TypeOK, NoLostUpdate, Persisted, NothingToSave,
       SaveOwed, PendingIsServed, CallersInSave, BufferCurrent, ShutdownOrder,
       Savers
  <2>6. FinalSaveStays'
    BY StoreAssumption DEF IInv, TypeOK, FinalSaveStays, CallersInSave,
       BufferCurrent, ShutdownOrder, NumbersGrow, Savers
  <2>. QED BY <2>1, <2>2, <2>3, <2>4, <2>5, <2>6 DEF IInv
<1>2. CASE ShutdownJoin(c)
  BY <1>2, StoreAssumption
  DEF ShutdownJoin, IInv, TypeOK, PendingIsServed, BufferCurrent, CallersInSave,
      RetryLeft, ShutdownOrder, NumbersGrow, NoLostUpdate, FinalSaveStays,
      Forms, LoopStates, Savers, Persisted, NothingToSave, SaveOwed
<1>. QED BY <1>1, <1>2

\* Death and start of the process.
LEMMA ProcessIInv == IInv /\ ProcessStep => IInv'
<1>. SUFFICES ASSUME IInv, ProcessStep PROVE IInv'
  OBVIOUS
<1>1. CASE Die
  <2>. USE <1>1 DEF Die, FreshMemory
  <2>1. TypeOK'
    <3>1. /\ joined' \in [Closers -> BOOLEAN]
          /\ flushed' \in [Closers -> BOOLEAN]
      BY Zenon
    <3>2. /\ file' \in [form : Forms, ver : Nat]
          /\ attempt' \in 0 .. MaxRetries
      BY StoreAssumption DEF IInv, TypeOK, Forms
    <3>. QED BY <3>1, <3>2 DEF IInv, TypeOK, LoopStates, Savers
  <2>2. PendingIsServed' /\ RetryLeft'
    BY StoreAssumption DEF IInv, TypeOK, PendingIsServed, RetryLeft,
       CallersInSave, Savers
  <2>3. BufferCurrent' /\ CallersInSave'
    BY StoreAssumption DEF IInv, TypeOK, BufferCurrent, CallersInSave, Savers
  <2>4. ShutdownOrder' /\ NumbersGrow'
    BY StoreAssumption DEF IInv, TypeOK, CallersInSave, BufferCurrent,
       ShutdownOrder, NumbersGrow, Savers
  <2>5. NoLostUpdate'
    BY StoreAssumption DEF IInv, TypeOK, NoLostUpdate, Persisted, NothingToSave,
       SaveOwed, PendingIsServed, CallersInSave, BufferCurrent, ShutdownOrder,
       Savers
  <2>6. FinalSaveStays'
    BY StoreAssumption DEF IInv, TypeOK, FinalSaveStays, CallersInSave,
       BufferCurrent, ShutdownOrder, NumbersGrow, Savers
  <2>. QED BY <2>1, <2>2, <2>3, <2>4, <2>5, <2>6 DEF IInv
<1>2. CASE Start
  <2>. USE <1>2 DEF Start, FreshMemory, Loaded
  <2>1. TypeOK'
    <3>1. /\ joined' \in [Closers -> BOOLEAN]
          /\ flushed' \in [Closers -> BOOLEAN]
      BY Zenon
    <3>2. /\ file' \in [form : Forms, ver : Nat]
          /\ attempt' \in 0 .. MaxRetries
      BY StoreAssumption DEF IInv, TypeOK, Forms
    <3>. QED BY <3>1, <3>2 DEF IInv, TypeOK, LoopStates, Savers
  <2>2. PendingIsServed' /\ RetryLeft'
    BY StoreAssumption DEF IInv, TypeOK, PendingIsServed, RetryLeft,
       CallersInSave, Savers
  <2>3. BufferCurrent' /\ CallersInSave'
    BY StoreAssumption DEF IInv, TypeOK, BufferCurrent, CallersInSave, Savers
  <2>4. ShutdownOrder' /\ NumbersGrow'
    BY StoreAssumption DEF IInv, TypeOK, CallersInSave, BufferCurrent,
       ShutdownOrder, NumbersGrow, Savers
  <2>5. NoLostUpdate'
    BY StoreAssumption DEF IInv, TypeOK, Forms, NoLostUpdate, Persisted, NothingToSave,
       SaveOwed, PendingIsServed, CallersInSave, BufferCurrent, ShutdownOrder,
       Savers
  <2>6. FinalSaveStays'
    BY StoreAssumption DEF IInv, TypeOK, FinalSaveStays, CallersInSave,
       BufferCurrent, ShutdownOrder, NumbersGrow, Savers
  <2>. QED BY <2>1, <2>2, <2>3, <2>4, <2>5, <2>6 DEF IInv
<1>3. CASE StartRefused
  BY <1>3, StoreAssumption
  DEF StartRefused, IInv, TypeOK, PendingIsServed, BufferCurrent, CallersInSave,
      RetryLeft, ShutdownOrder, NumbersGrow, NoLostUpdate, FinalSaveStays,
      Forms, LoopStates, Savers, Persisted, NothingToSave, SaveOwed
<1>. QED BY <1>1, <1>2, <1>3 DEF ProcessStep

\* The invariant holds in every reachable state.
THEOREM StoreInvariant == Spec => []IInv
<1>1. IInv /\ [Next]_vars => IInv'
  <2>. SUFFICES ASSUME IInv, [Next]_vars PROVE IInv'
    OBVIOUS
  <2>1. CASE UNCHANGED vars
    BY <2>1
    DEF vars, IInv, TypeOK, PendingIsServed, BufferCurrent,
        CallersInSave, RetryLeft, ShutdownOrder, NumbersGrow, NoLostUpdate,
        FinalSaveStays, Persisted, NothingToSave, SaveOwed
  <2>2. CASE Next
    BY <2>2, CallerIInv, LoopIInv, SaveIInv, ShutdownIInv, ProcessIInv
    DEF Next, CallerStep, ShutdownStep
  <2>. QED BY <2>1, <2>2
<1>. QED BY InitIInv, <1>1, PTL DEF Spec

-----------------------------------------------------------------------------

\* Every variable keeps its type.
THEOREM StoreTypeOK == Spec => []TypeOK
  BY StoreInvariant, PTL DEF IInv

\* No update is lost, for any number of callers, closers, retries, changes.
THEOREM StoreNoLostUpdate == Spec => []NoLostUpdate
  BY StoreInvariant, PTL DEF IInv

\* A Shutdown that waited for the loop leaves a file at least as new as the
\* map it was called with, unless another Shutdown is writing or failed.
THEOREM StoreShutdownDurable == Spec => []ShutdownDurable
<1>1. IInv => ShutdownDurable
  BY DEF IInv, TypeOK, FinalSaveStays, ShutdownDurable, Savers
<1>. QED BY StoreInvariant, <1>1, PTL

\* The store implements the durable map: only a completed write flushes, and
\* it flushes the current map; death and start reload the file or nothing.
THEOREM StoreImplementsDurableMap == Spec => ImplementsDurableMap
<1>1. Init => Durable!Init
  BY DEF Init, Durable!Init
<1>2. ASSUME IInv, [Next]_vars PROVE [Durable!Next]_(Durable!vars)
  <2>. USE DEF Durable!Next, Durable!Change, Durable!Flush, Durable!Reload,
               Durable!vars
  <2>1. ASSUME NEW c \in Callers, Change(c) \/ TriggerSave(c)
        PROVE  [Durable!Next]_(Durable!vars)
    BY <2>1 DEF Change, TriggerSave
  <2>2. CASE LoopStep
    BY <2>2 DEF LoopStep, LoopReceive, LoopClear, LoopExit, LoopRetry
  <2>3. ASSUME NEW p \in Savers, SaveStep(p)
        PROVE  [Durable!Next]_(Durable!vars)
    <3>1. CASE SaveWrite(p)
      BY <3>1, <1>2 DEF SaveWrite, SaveReturns, IInv, BufferCurrent
    <3>2. CASE SaveTruncate(p) \/ SaveWriteFails(p)
      BY <3>2, <1>2 DEF SaveTruncate, SaveWriteFails, SaveReturns, IInv, TypeOK
    <3>3. CASE SaveNoDir(p) \/ SaveMarshal(p) \/ SaveOpenFails(p)
      BY <3>3 DEF SaveNoDir, SaveMarshal, SaveOpenFails, SaveReturns
    <3>. QED BY <2>3, <3>1, <3>2, <3>3 DEF SaveStep
  <2>4. ASSUME NEW c \in Closers, ShutdownBegin(c) \/ ShutdownJoin(c)
        PROVE  [Durable!Next]_(Durable!vars)
    BY <2>4 DEF ShutdownBegin, ShutdownJoin
  <2>5. CASE Die
    BY <2>5, <1>2 DEF Die, FreshMemory, IInv, TypeOK
  <2>6. CASE Start \/ StartRefused
    BY <2>6 DEF Start, StartRefused, FreshMemory, Loaded
  <2>7. CASE UNCHANGED vars
    BY <2>7 DEF vars
  <2>. QED BY <1>2, <2>1, <2>2, <2>3, <2>4, <2>5, <2>6, <2>7
           DEF Next, CallerStep, ShutdownStep, ProcessStep
<1>. QED
  BY StoreInvariant, <1>1, <1>2, PTL DEF Spec, ImplementsDurableMap, Durable!Spec
=============================================================================
