------------------------------- MODULE Terminal -------------------------------
(***************************************************************************)
(* The terminal interface (internal/tui) and the process around it         *)
(* (runDaemonWithTUI in cmd/zion-node/main.go): the program's loop, which  *)
(* handles one message at a time, the goroutines that send it messages, the*)
(* wallet wizard, and the daemon that waits for the wizard. The Logs tab   *)
(* is LogView; the Dashboard and the Wallet tab keep no state worth        *)
(* following.                                                              *)
(***************************************************************************)
EXTENDS LogView

CONSTANTS
  Pages,       \* pages of rewards the hub has
  MaxFetches   \* bound: fetches of rewards at once

ASSUME TerminalAssumption == Pages \in Nat \ {0} /\ MaxFetches \in Nat \ {0}

VARIABLES
  program,     \* "on", "quit" (p.Run has returned) or "panicked"
  daemon,      \* the daemon's goroutine: "waiting" or "started"
  tab,         \* activeTab
  confirmQuit,
  showSetup,
  wizard,      \* setupModel.state
  doneMsgs,    \* setupDoneMsg on their way to the loop
  doneCh,      \* setupDone: "open" or "closed"
  doneHeld,    \* Model.setupDoneCh is not nil
  wallet,      \* the wallet file: "none", "broken" or "whole"
  page,        \* rewardModel.page
  totalPages,  \* what the last answer said, 0 before
  fetching,    \* rewardModel.fetching
  fetches,     \* fetches[p]: goroutines fetching page p
  pageShown    \* the page whose transactions are shown, 0 for none

setupVars == <<showSetup, wizard, doneMsgs, doneCh, doneHeld, wallet>>
rewardVars == <<page, totalPages, fetching, fetches, pageShown>>
vars == <<logVars, program, daemon, tab, confirmQuit, setupVars, rewardVars>>

Tabs == {"dashboard", "logs", "wallet", "rewards"}
WizardStates == {"choose", "created", "import", "imported", "error"}

TypeOK ==
  /\ LogTypeOK
  /\ program \in {"on", "quit", "panicked"}
  /\ daemon \in {"waiting", "started"}
  /\ tab \in Tabs
  /\ confirmQuit \in BOOLEAN /\ showSetup \in BOOLEAN
  /\ wizard \in WizardStates
  /\ doneMsgs \in 0 .. 2
  /\ doneCh \in {"open", "closed"} /\ doneHeld \in BOOLEAN
  /\ wallet \in {"none", "broken", "whole"}
  /\ page \in 1 .. Pages /\ totalPages \in {0, Pages}
  /\ fetching \in BOOLEAN
  /\ fetches \in [1 .. Pages -> 0 .. MaxFetches]
  /\ pageShown \in 0 .. Pages

\* NeedsSetup asks whether there is a file, not whether it can be read.
Init ==
  /\ LogInit
  /\ program = "on" /\ daemon = "waiting"
  /\ tab = "dashboard" /\ confirmQuit = FALSE
  /\ wallet \in {"none", "broken", "whole"}
  /\ showSetup = (wallet = "none")
  /\ doneCh = IF showSetup THEN "open" ELSE "closed"
  /\ doneHeld = TRUE
  /\ wizard = "choose" /\ doneMsgs = 0
  /\ page = 1 /\ totalPages = 0 /\ fetching = FALSE
  /\ fetches = [p \in 1 .. Pages |-> 0] /\ pageShown = 0

-----------------------------------------------------------------------------
(* setupModel: the wizard gets every key until it is done.                 *)

Wizard(from, to) ==
  /\ program = "on" /\ showSetup
  /\ wizard \in from /\ wizard' = to
  /\ UNCHANGED <<logVars, program, daemon, tab, confirmQuit, showSetup, doneCh, doneHeld, rewardVars>>

ChooseImport == Wizard({"choose"}, "import") /\ UNCHANGED <<doneMsgs, wallet>>

Back == Wizard({"import", "error"}, "choose") /\ UNCHANGED <<doneMsgs, wallet>>

\* doCreate ("choose") and doImport ("import"): the file is written last.
WriteWallet(from, to) ==
  Wizard({from}, to) /\ wallet' = "whole" /\ UNCHANGED doneMsgs

\* Mutant of WriteFails: the error of the write is not looked at.
WriteFailsUnseen(from) ==
  /\ Wizard({from}, IF from = "choose" THEN "created" ELSE "imported")
  /\ wallet' \in {wallet, "broken"}
  /\ UNCHANGED doneMsgs

\* The key is not valid, or a write fails: os.WriteFile has emptied the file
\* before it does. An attempt is not rolled back.
WriteFails(from) ==
  /\ Wizard({from}, "error")
  /\ wallet' \in {wallet, "broken"}
  /\ UNCHANGED doneMsgs

\* Enter on the last page sends a setupDoneMsg; a second Enter may come before
\* the loop has it.
Continue ==
  /\ doneMsgs < 2
  /\ Wizard({"created", "imported"}, wizard)
  /\ doneMsgs' = doneMsgs + 1
  /\ UNCHANGED wallet

\* Mutant of SetupDone: Model.setupDoneCh stays set.
SetupDoneAgain ==
  /\ program = "on" /\ doneMsgs > 0
  /\ doneMsgs' = doneMsgs - 1
  /\ showSetup' = FALSE
  /\ doneCh' = "closed"
  /\ program' = IF doneHeld /\ doneCh = "closed" THEN "panicked" ELSE program
  /\ UNCHANGED <<logVars, daemon, tab, confirmQuit, wizard, doneHeld, wallet, rewardVars>>

\* setupDoneMsg: the daemon may start. Closing a closed channel panics.
SetupDone ==
  /\ program = "on" /\ doneMsgs > 0
  /\ doneMsgs' = doneMsgs - 1
  /\ showSetup' = FALSE
  /\ doneCh' = IF doneHeld THEN "closed" ELSE doneCh
  /\ program' = IF doneHeld /\ doneCh = "closed" THEN "panicked" ELSE program
  /\ doneHeld' = FALSE
  /\ UNCHANGED <<logVars, daemon, tab, confirmQuit, wizard, wallet, rewardVars>>

\* "q", which is no digit of a key, or ctrl+c, on any page.
QuitSetup ==
  /\ program = "on" /\ showSetup
  /\ program' = "quit"
  /\ UNCHANGED <<logVars, daemon, tab, confirmQuit, setupVars, rewardVars>>

Setup ==
  \/ ChooseImport \/ Back \/ Continue \/ SetupDone \/ QuitSetup
  \/ WriteWallet("choose", "created") \/ WriteWallet("import", "imported")
  \/ WriteFails("choose") \/ WriteFails("import")

-----------------------------------------------------------------------------
(* Model.Update after the setup.                                           *)

Main == program = "on" /\ ~showSetup
Quiet == UNCHANGED <<program, daemon, setupVars>>

\* While the question is open "q", "y" and Enter answer it, and any other key
\* withdraws it. ctrl+c does not ask.
PressQuit ==
  /\ Main
  /\ \/ ~confirmQuit /\ confirmQuit' = TRUE /\ UNCHANGED program
     \/ program' = "quit" /\ UNCHANGED confirmQuit
  /\ UNCHANGED <<logVars, daemon, tab, setupVars, rewardVars>>

Withdraw ==
  /\ Main /\ confirmQuit
  /\ confirmQuit' = FALSE
  /\ UNCHANGED <<logVars, program, daemon, tab, setupVars, rewardVars>>

Key == Main /\ ~confirmQuit /\ UNCHANGED confirmQuit /\ Quiet

\* rewardModel.load, for the page that is current after the key.
Load ==
  IF fetching \/ fetches[page'] = MaxFetches
  THEN UNCHANGED <<fetching, fetches>>
  ELSE fetching' = TRUE /\ fetches' = [fetches EXCEPT ![page'] = @ + 1]

\* `return m, m.reward.load()`: Go does not say whether m is copied before or
\* after the call, so that the new model may not know that it is fetching.
LoadAndReturn ==
  IF fetching \/ fetches[page] = MaxFetches
  THEN UNCHANGED <<fetching, fetches>>
  ELSE fetching' \in BOOLEAN /\ fetches' = [fetches EXCEPT ![page] = @ + 1]

\* "1" to "4". The Logs tab is rebuilt, the Rewards tab fetched.
OpenTab(t) ==
  /\ Key
  /\ tab' = t
  /\ IF t = "logs" THEN OpenLogs ELSE UNCHANGED logVars
  /\ IF t = "rewards" THEN LoadAndReturn ELSE UNCHANGED <<fetching, fetches>>
  /\ UNCHANGED <<page, totalPages, pageShown>>

LogsKey == Key /\ tab = "logs" /\ CycleFilter /\ UNCHANGED <<tab, rewardVars>>

RewardsKey == Key /\ tab = "rewards" /\ Load /\ UNCHANGED <<logVars, tab, totalPages, pageShown>>

NextPage == page < totalPages /\ page' = page + 1 /\ RewardsKey
PreviousPage == page > 1 /\ page' = page - 1 /\ RewardsKey
Reload == UNCHANGED page /\ RewardsKey

\* Mutant of Tick: the Rewards tab is only fetched when it is opened or a key
\* asks for it.
TickNoRefresh == program = "on" /\ UNCHANGED vars

\* Every second. The daemon's status is read and, on the Rewards tab, a fetch
\* started.
Tick ==
  /\ program = "on" /\ tab = "rewards"
  /\ LoadAndReturn
  /\ UNCHANGED <<logVars, program, daemon, tab, confirmQuit, setupVars, page, totalPages, pageShown>>

\* rewardDataMsg: the answer to one fetch, good or not. It does not say which
\* page it is.
RewardData(p) ==
  /\ program = "on" /\ fetches[p] > 0
  /\ fetches' = [fetches EXCEPT ![p] = @ - 1]
  /\ fetching' = FALSE
  /\ \/ totalPages' = Pages /\ pageShown' = p
     \/ UNCHANGED <<totalPages, pageShown>>
  /\ UNCHANGED <<logVars, program, daemon, tab, confirmQuit, setupVars, page>>

ShowLogLines ==
  /\ program = "on" /\ ShowLogs
  /\ UNCHANGED <<program, daemon, tab, confirmQuit, setupVars, rewardVars>>

-----------------------------------------------------------------------------
(* The process.                                                            *)

Logging ==
  /\ program = "on"
  /\ (\E w \in Writers : LogWriter(w)) \/ Receive
  /\ UNCHANGED <<program, daemon, tab, confirmQuit, setupVars, rewardVars>>

\* <-setupDone, then ReloadWallet and Daemon.Run. The program goes on when Run
\* fails or the hub shuts the daemon down.
StartDaemon ==
  /\ program \in {"on", "quit"} /\ daemon = "waiting" /\ doneCh = "closed"
  /\ daemon' = "started"
  /\ UNCHANGED <<logVars, program, tab, confirmQuit, setupVars, rewardVars>>

\* SIGINT or SIGTERM. When p.Run returns the daemon is shut down.
QuitBySignal ==
  /\ program = "on"
  /\ program' = "quit"
  /\ UNCHANGED <<logVars, daemon, tab, confirmQuit, setupVars, rewardVars>>

Keys ==
  \/ PressQuit \/ Withdraw \/ (\E t \in Tabs : OpenTab(t))
  \/ LogsKey \/ NextPage \/ PreviousPage \/ Reload

Next ==
  \/ Setup \/ Keys \/ Tick \/ (\E p \in 1 .. Pages : RewardData(p)) \/ ShowLogLines
  \/ Logging \/ StartDaemon \/ QuitBySignal

Spec == Init /\ [][Next]_vars

\* The ticker ticks, the loop takes its messages in turn and every fetch comes
\* back: it has a timeout.
Fairness ==
  /\ WF_vars(Tick)
  /\ \A p \in 1 .. Pages : WF_vars(RewardData(p))

FairSpec == Spec /\ Fairness

-----------------------------------------------------------------------------
(* Properties.                                                             *)

\* setup.go:135-194, main.go:745-757: a daemon that had to wait for the wizard
\* starts with the wallet the wizard wrote in full.
DaemonNeedsWallet == daemon # "waiting" /\ ~doneHeld => wallet = "whole"

\* app.go:138-147: however often Enter is pressed, setupDone is closed once.
ClosedOnce == program # "panicked"

\* reward.go:51-120, app.go:118-136: with answers that may overtake each other
\* and carry no page, the page on the screen becomes the one that is named
\* there, once the user stays on it and the hub answers.
Answered == \A p \in 1 .. Pages : fetches'[p] < fetches[p] => pageShown' = p
PageSettles ==
  <>[][Answered]_vars => \A p \in 1 .. Pages :
    <>[](program = "on" /\ tab = "rewards" /\ page = p) => <>[](pageShown = p)
=============================================================================
