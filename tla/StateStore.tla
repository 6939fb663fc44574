----------------------------- MODULE StateStore -----------------------------
(***************************************************************************)
(* Persistence of the agent map: StateManager (internal/agent/state.go)    *)
(* and the StateSaver goroutine behind it (internal/agent/state_saver.go). *)
(* A map is named by the number of the change that produced it (0 is the   *)
(* empty map). A file whose form is not "whole" keeps in ver the last      *)
(* complete map it held: the node cannot read it, the properties can.      *)
(***************************************************************************)
EXTENDS Naturals

CONSTANTS
  Callers,     \* goroutines that call SaveAgent and RemoveAgent
  Closers,     \* goroutines that call Shutdown (the TUI build has two)
  LoopSaver,   \* the saveLoop goroutine
  MaxRetries,  \* StateSaver.maxRetries (3 in the code)
  MaxChanges   \* bound: changes made over all lives of the node

ASSUME StoreAssumption ==
  /\ MaxRetries \in Nat
  /\ MaxChanges \in Nat
  /\ LoopSaver \notin Closers

Savers == Closers \cup {LoopSaver}

VARIABLES
  agents,    \* s.agents
  changes,   \* number of the latest change (names the maps)
  file,      \* the state file
  caller,    \* caller[c]: between the map change and TriggerSave?
  pending,   \* StateSaver.pending
  saveChan,  \* does StateSaver.saveChan (capacity 1) hold a trigger?
  loop,      \* where saveLoop stands; "exited" = done is closed
  attempt,   \* the loop's retry counter
  gaveUp,    \* ghost: the loop's last round of attempts all failed
  save,      \* save[p]: where p stands inside Save()
  buf,       \* buf[p]: the map p has marshalled
  cancelled, \* StateSaver.ctx is done
  shutdown,  \* shutdown[c]: where c stands inside Shutdown()
  asked,     \* ghost: asked[c] = the map when c called Shutdown
  joined,    \* ghost: joined[c] = c saw the loop exit before its final save
  flushed,   \* ghost: flushed[c] = c's final save returned no error
  node       \* "up", "down", or "refused": Load failed, the node cannot start

mapVars == <<agents, changes, caller>>
triggerVars == <<pending, saveChan>>
loopVars == <<loop, attempt, gaveUp>>
saveVars == <<save, buf>>
closeVars == <<cancelled, shutdown, asked, joined, flushed>>
vars == <<mapVars, triggerVars, loopVars, saveVars, closeVars, file, node>>

Forms == {"whole", "empty", "torn"}
LoopStates == {"wait", "clear", "check", "saving", "sleep", "exited"}

TypeOK ==
  /\ agents \in Nat
  /\ changes \in Nat
  /\ file \in [form : Forms, ver : Nat]
  /\ caller \in [Callers -> {"idle", "trigger"}]
  /\ pending \in BOOLEAN
  /\ saveChan \in BOOLEAN
  /\ loop \in LoopStates
  /\ attempt \in 0 .. MaxRetries
  /\ gaveUp \in BOOLEAN
  /\ save \in [Savers -> {"off", "open", "write"}]
  /\ buf \in [Savers -> Nat]
  /\ cancelled \in BOOLEAN
  /\ shutdown \in [Closers -> {"no", "join", "final", "saving", "closed"}]
  /\ asked \in [Closers -> Nat]
  /\ joined \in [Closers -> BOOLEAN]
  /\ flushed \in [Closers -> BOOLEAN]
  /\ node \in {"up", "down", "refused"}

Init ==
  /\ agents = 0 /\ changes = 0
  /\ file = [form |-> "empty", ver |-> 0]
  /\ caller = [c \in Callers |-> "idle"]
  /\ pending = FALSE /\ saveChan = FALSE
  /\ loop = "wait" /\ attempt = 0 /\ gaveUp = FALSE
  /\ save = [p \in Savers |-> "off"] /\ buf = [p \in Savers |-> 0]
  /\ cancelled = FALSE
  /\ shutdown = [c \in Closers |-> "no"]
  /\ asked = [c \in Closers |-> 0]
  /\ joined = [c \in Closers |-> FALSE] /\ flushed = [c \in Closers |-> FALSE]
  /\ node = "up"

-----------------------------------------------------------------------------
(* Callers. SaveAgent and RemoveAgent change the map under s.mu and call   *)
(* TriggerSave with the lock released. Save holds s.mu for reading, so the *)
(* map cannot change from the marshalling to the end of the write.         *)

\* Mutant of Change: Save would give up s.mu before it writes the file.
ChangeDuringSave(c) ==
  /\ node = "up" /\ caller[c] = "idle" /\ changes < MaxChanges
  /\ changes' = changes + 1
  /\ agents' = changes'
  /\ caller' = [caller EXCEPT ![c] = "trigger"]
  /\ UNCHANGED <<triggerVars, loopVars, saveVars, closeVars, file, node>>

Change(c) ==
  /\ node = "up" /\ caller[c] = "idle" /\ changes < MaxChanges
  /\ \A p \in Savers : save[p] = "off"
  /\ changes' = changes + 1
  /\ agents' = changes'
  /\ caller' = [caller EXCEPT ![c] = "trigger"]
  /\ UNCHANGED <<triggerVars, loopVars, saveVars, closeVars, file, node>>

TriggerSave(c) ==
  /\ caller[c] = "trigger"
  /\ caller' = [caller EXCEPT ![c] = "idle"]
  /\ pending' = TRUE
  /\ saveChan' = (saveChan \/ ~pending)
  /\ UNCHANGED <<agents, changes, loopVars, saveVars, closeVars, file, node>>

-----------------------------------------------------------------------------
(* saveLoop. Go's select picks at random between a done context and a      *)
(* waiting trigger, hence LoopReceive has no guard on cancelled.           *)

LoopReceive ==
  /\ loop = "wait" /\ saveChan
  /\ saveChan' = FALSE
  /\ loop' = "clear"
  /\ UNCHANGED <<mapVars, pending, attempt, gaveUp, saveVars, closeVars, file, node>>

\* Mutant of LoopClear: the pending flag is not reset.
LoopKeepsPending ==
  /\ loop = "clear"
  /\ attempt' = 0 /\ loop' = "check"
  /\ UNCHANGED <<mapVars, triggerVars, gaveUp, saveVars, closeVars, file, node>>

LoopClear ==
  /\ loop = "clear"
  /\ pending' = FALSE
  /\ attempt' = 0 /\ loop' = "check"
  /\ UNCHANGED <<mapVars, saveChan, gaveUp, saveVars, closeVars, file, node>>

\* Mutant of LoopExit: done is closed while a save is still running.
LoopExitEarly ==
  /\ loop \in {"wait", "check", "saving", "sleep"} /\ cancelled
  /\ loop' = "exited"
  /\ UNCHANGED <<mapVars, triggerVars, attempt, gaveUp, saveVars, closeVars, file, node>>

LoopExit ==
  /\ loop \in {"wait", "check", "sleep"} /\ cancelled
  /\ loop' = "exited"
  /\ UNCHANGED <<mapVars, triggerVars, attempt, gaveUp, saveVars, closeVars, file, node>>

\* Mutant of LoopRetry: the retry counter advances twice.
LoopRetryTwice ==
  /\ loop = "sleep"
  /\ attempt' = attempt + 2 /\ loop' = "check"
  /\ UNCHANGED <<mapVars, triggerVars, gaveUp, saveVars, closeVars, file, node>>

LoopRetry ==
  /\ loop = "sleep"
  /\ attempt' = attempt + 1 /\ loop' = "check"
  /\ UNCHANGED <<mapVars, triggerVars, gaveUp, saveVars, closeVars, file, node>>

-----------------------------------------------------------------------------
(* Save(), run by saveLoop or by a Shutdown: MkdirAll, RLock and marshal;  *)
(* os.WriteFile opens with O_TRUNC and then writes. Each part may fail.    *)

MaySave(p) ==
  /\ save[p] = "off"
  /\ IF p = LoopSaver THEN loop = "check" /\ ~cancelled
                      ELSE shutdown[p] = "final"

\* The caller of Save goes on with the error, or its absence, it returned.
SaveReturns(p, ok) ==
  /\ save' = [save EXCEPT ![p] = "off"]
  /\ buf' = [buf EXCEPT ![p] = 0]
  /\ UNCHANGED <<mapVars, triggerVars, attempt, cancelled, asked, joined, node>>
  /\ IF p = LoopSaver
       THEN /\ loop' = IF ok \/ attempt >= MaxRetries THEN "wait" ELSE "sleep"
            /\ gaveUp' = IF ok THEN FALSE ELSE gaveUp \/ attempt >= MaxRetries
            /\ UNCHANGED <<shutdown, flushed>>
       ELSE /\ shutdown' = [shutdown EXCEPT ![p] = "closed"]
            /\ flushed' = [flushed EXCEPT ![p] = ok]
            /\ UNCHANGED <<loop, gaveUp>>

SaveNoDir(p) ==
  /\ MaySave(p)
  /\ SaveReturns(p, FALSE)
  /\ UNCHANGED file

SaveMarshal(p) ==
  /\ MaySave(p)
  /\ save' = [save EXCEPT ![p] = "open"]
  /\ buf' = [buf EXCEPT ![p] = agents]
  /\ IF p = LoopSaver
       THEN loop' = "saving" /\ UNCHANGED shutdown
       ELSE shutdown' = [shutdown EXCEPT ![p] = "saving"] /\ UNCHANGED loop
  /\ UNCHANGED <<mapVars, triggerVars, attempt, gaveUp, cancelled, asked, joined, flushed, file, node>>

SaveTruncate(p) ==
  /\ save[p] = "open"
  /\ save' = [save EXCEPT ![p] = "write"]
  /\ file' = [file EXCEPT !.form = "empty"]
  /\ UNCHANGED <<mapVars, triggerVars, loopVars, buf, closeVars, node>>

SaveOpenFails(p) ==
  /\ save[p] = "open"
  /\ SaveReturns(p, FALSE)
  /\ UNCHANGED file

SaveWrite(p) ==
  /\ save[p] = "write"
  /\ file' = [form |-> "whole", ver |-> buf[p]]
  /\ SaveReturns(p, TRUE)

\* A short write (no space left): the file keeps a part of the map.
SaveWriteFails(p) ==
  /\ save[p] = "write"
  /\ file' = [file EXCEPT !.form = "torn"]
  /\ SaveReturns(p, FALSE)

-----------------------------------------------------------------------------
(* Shutdown: StateSaver.Shutdown cancels the loop and waits until done is  *)
(* closed or five seconds have passed; then the final Save.                *)

ShutdownBegin(c) ==
  /\ node = "up" /\ shutdown[c] = "no"
  /\ cancelled' = TRUE
  /\ shutdown' = [shutdown EXCEPT ![c] = "join"]
  /\ asked' = [asked EXCEPT ![c] = agents]
  /\ UNCHANGED <<mapVars, triggerVars, loopVars, saveVars, joined, flushed, file, node>>

ShutdownJoin(c) ==
  /\ shutdown[c] = "join"
  /\ shutdown' = [shutdown EXCEPT ![c] = "final"]
  /\ joined' = [joined EXCEPT ![c] = (loop = "exited")]
  /\ UNCHANGED <<mapVars, triggerVars, loopVars, saveVars, cancelled, asked, flushed, file, node>>

-----------------------------------------------------------------------------
(* The process dies: killed at any step, or main returns, whatever other   *)
(* goroutines are doing. A write under way may be cut short. The next one  *)
(* loads the file: absent or empty is the empty map, torn is an error.     *)

\* The memory of a new process that starts from map m.
FreshMemory(m) ==
  /\ agents' = m
  /\ caller' = [c \in Callers |-> "idle"]
  /\ pending' = FALSE /\ saveChan' = FALSE
  /\ loop' = "wait" /\ attempt' = 0 /\ gaveUp' = FALSE
  /\ save' = [p \in Savers |-> "off"] /\ buf' = [p \in Savers |-> 0]
  /\ cancelled' = FALSE
  /\ shutdown' = [c \in Closers |-> "no"]
  /\ asked' = [c \in Closers |-> 0]
  /\ joined' = [c \in Closers |-> FALSE] /\ flushed' = [c \in Closers |-> FALSE]
  /\ UNCHANGED changes

Die ==
  /\ node = "up"
  /\ node' = "down"
  /\ \/ UNCHANGED file
     \/ /\ \E p \in Savers : save[p] = "write"
        /\ file' = [file EXCEPT !.form = "torn"]
  /\ FreshMemory(0)

Loaded == IF file.form = "whole" THEN file.ver ELSE 0

Start ==
  /\ node = "down" /\ file.form # "torn"
  /\ node' = "up"
  /\ FreshMemory(Loaded)
  /\ UNCHANGED file

StartRefused ==
  /\ node = "down" /\ file.form = "torn"
  /\ node' = "refused"
  /\ UNCHANGED <<mapVars, triggerVars, loopVars, saveVars, closeVars, file>>

-----------------------------------------------------------------------------

CallerStep == \E c \in Callers : Change(c) \/ TriggerSave(c)

LoopStep == LoopReceive \/ LoopClear \/ LoopExit \/ LoopRetry

SaveStep(p) ==
  \/ SaveNoDir(p) \/ SaveMarshal(p) \/ SaveTruncate(p)
  \/ SaveOpenFails(p) \/ SaveWrite(p) \/ SaveWriteFails(p)

ShutdownStep == \E c \in Closers : ShutdownBegin(c) \/ ShutdownJoin(c)

ProcessStep == Die \/ Start \/ StartRefused

Next ==
  CallerStep \/ LoopStep \/ (\E p \in Savers : SaveStep(p)) \/ ShutdownStep \/ ProcessStep

Spec == Init /\ [][Next]_vars

\* The Go scheduler runs a goroutine that can run, and file operations end:
\* a caller that changed the map calls TriggerSave, the loop and a save in
\* progress go on. Nobody has to change the map, to shut down or to crash.
FairSpec ==
  /\ Spec
  /\ \A c \in Callers : WF_vars(TriggerSave(c))
  /\ WF_vars(LoopStep)
  /\ \A p \in Savers : WF_vars(SaveStep(p))

-----------------------------------------------------------------------------
(* Properties.                                                             *)

Persisted == file.form = "whole" /\ file.ver = agents
NothingToSave == file.form = "empty" /\ agents = 0

\* Somebody will still save the current map: a caller is about to trigger,
\* a trigger waits, or the loop is on its way to marshal or write the map.
SaveOwed ==
  \/ \E c \in Callers : caller[c] = "trigger"
  \/ saveChan
  \/ loop \in {"clear", "check", "saving", "sleep"}

\* No update is lost: a running node whose file does not hold the current map
\* has a save owed, unless every retry of the last save failed or a shutdown
\* has cancelled the loop. (TriggerSave skips the send when a save is pending;
\* saveLoop must therefore clear the flag before it reads the map.)
NoLostUpdate ==
  node = "up" => Persisted \/ NothingToSave \/ SaveOwed \/ gaveUp \/ cancelled

\* Shutdown keeps its promise when it waited for the loop: if its own final
\* save succeeded, and no other Shutdown is writing or failed, the file holds
\* a map at least as new as the one in memory when Shutdown was called.
ShutdownDurable ==
  \A c \in Closers :
    /\ node = "up"
    /\ shutdown[c] = "closed" /\ joined[c] /\ flushed[c]
    /\ \A d \in Closers \ {c} : save[d] = "off" /\ (shutdown[d] = "closed" => flushed[d])
    => file.form = "whole" /\ file.ver >= asked[c]

\* The store implements the abstract durable map: what reaches the disk is
\* the map of that moment, never an older or a mixed one, and a restart
\* resumes from what the disk held or from the empty map.
Durable == INSTANCE DurableMap WITH disk <- file.ver
ImplementsDurableMap == Durable!Spec

\* A change reaches the file, if the node stays up, no shutdown begins and
\* the retries are not exhausted: saveLoop does not forget a trigger.
EventuallySaved ==
  \A n \in 1 .. MaxChanges :
    (node = "up" /\ agents = n) ~>
      \/ file.form = "whole" /\ file.ver >= n
      \/ gaveUp \/ cancelled \/ node # "up"
=============================================================================
