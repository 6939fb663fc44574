---------------------------- MODULE TerminalProofs ----------------------------
(***************************************************************************)
(* Proofs about LogView and Terminal for any writers, levels, buffer size  *)
(* and number of pages.                                                    *)
(***************************************************************************)
EXTENDS Terminal, SequenceTheorems, WellFoundedInduction, TLAPS

USE DEF bufferVars, viewVars, logVars, setupVars, rewardVars

(* The log changes only in steps of LogView.                                *)
LEMMA LogSteps == [Next]_vars => [LogNext]_logVars
<1>. SUFFICES ASSUME [Next]_vars PROVE [LogNext]_logVars
  OBVIOUS
<1>1. CASE Setup
  BY <1>1 DEF Setup, ChooseImport, Back, WriteWallet, WriteFails, Continue, Wizard, SetupDone, QuitSetup
<1>2. CASE Keys
  BY <1>2 DEF Keys, PressQuit, Withdraw, OpenTab, LogsKey, NextPage, PreviousPage, Reload, RewardsKey,
              LogNext
<1>3. CASE Tick \/ (\E p \in 1 .. Pages : RewardData(p)) \/ StartDaemon \/ QuitBySignal
  BY <1>3 DEF Tick, RewardData, StartDaemon, QuitBySignal
<1>4. CASE ShowLogLines \/ Logging
  BY <1>4 DEF ShowLogLines, Logging, LogNext
<1>5. CASE UNCHANGED vars
  BY <1>5 DEF vars
<1>. QED BY <1>1, <1>2, <1>3, <1>4, <1>5 DEF Next

(* The terminal's log is a LogView, whatever else the terminal does.        *)
THEOREM TerminalImplementsLogView == Spec => LogSpec
<1>1. Init => LogInit
  BY DEF Init
<1>. QED BY <1>1, LogSteps, PTL DEF Spec, LogSpec

-----------------------------------------------------------------------------
(* The buffer.                                                              *)

BufferInv == lines \in Nat /\ entries \in Seq(Entry) /\ LatestLines

LEMMA StoredLatest ==
  ASSUME BufferInv, NEW entry \in Entry, entry.line = lines + 1,
         lines' = lines + 1, entries' = Stored(entry)
  PROVE  BufferInv'
<1>. /\ lines \in Nat /\ entries \in Seq(Entry) /\ Len(entries) \in Nat /\ MaxSize \in Nat \ {0}
     /\ Len(entries) = (IF lines < MaxSize THEN lines ELSE MaxSize)
     /\ \A i \in 1 .. Len(entries) : entries[i].line = lines - Len(entries) + i
  BY LogAssumption DEF BufferInv, LatestLines
<1>1. CASE Len(entries) >= MaxSize
  <2>1. entries' = Append(Tail(entries), entry) /\ entries # <<>>
    BY <1>1 DEF Stored
  <2>2. /\ Tail(entries) \in Seq(Entry) /\ Len(Tail(entries)) = Len(entries) - 1
        /\ \A i \in 1 .. Len(entries) - 1 : Tail(entries)[i] = entries[i + 1]
    BY <2>1
  <2>3. /\ entries' \in Seq(Entry) /\ Len(entries') = Len(entries)
        /\ \A i \in 1 .. Len(entries) - 1 : entries'[i] = entries[i + 1]
        /\ entries'[Len(entries)] = entry
    BY <2>1, <2>2
  <2>4. ASSUME NEW i \in 1 .. Len(entries)
        PROVE  entries'[i].line = lines' - Len(entries) + i
    <3>1. CASE i < Len(entries)
      <4>1. i + 1 \in 1 .. Len(entries) /\ i \in 1 .. Len(entries) - 1
        BY <3>1
      <4>2. entries'[i] = entries[i + 1] /\ entries[i + 1].line = lines - Len(entries) + (i + 1)
        BY <2>3, <4>1
      <4>. QED BY <4>2
    <3>2. CASE i = Len(entries)
      BY <2>3, <3>2
    <3>. QED BY <3>1, <3>2
  <2>. QED BY <1>1, <2>3, <2>4 DEF BufferInv, LatestLines
<1>2. CASE ~(Len(entries) >= MaxSize)
  <2>1. entries' = Append(entries, entry)
    BY <1>2 DEF Stored
  <2>2. /\ entries' \in Seq(Entry) /\ Len(entries') = Len(entries) + 1
        /\ \A i \in 1 .. Len(entries) : entries'[i] = entries[i]
        /\ entries'[Len(entries) + 1] = entry
    BY <2>1
  <2>3. \A i \in 1 .. Len(entries) + 1 : entries'[i].line = lines' - (Len(entries) + 1) + i
    BY <1>2, <2>2
  <2>. QED BY <1>2, <2>2, <2>3 DEF BufferInv, LatestLines
<1>. QED BY <1>1, <1>2

LEMMA StepBuffer == BufferInv /\ [LogNext]_logVars => BufferInv'
<1>. SUFFICES ASSUME BufferInv, [LogNext]_logVars PROVE BufferInv'
  OBVIOUS
<1>1. ASSUME NEW w \in Writers, Fire(w) PROVE BufferInv'
  <2>1. PICK level \in Levels : entries' = Stored([line |-> lines', level |-> level])
    BY <1>1 DEF Fire
  <2>2. lines' = lines + 1 /\ lines < MaxLines /\ lines \in Nat
    BY <1>1 DEF Fire, BufferInv
  <2>3. [line |-> lines', level |-> level] \in Entry
    BY <2>2, LogAssumption DEF Entry
  <2>. QED BY <2>1, <2>2, <2>3, StoredLatest
<1>2. CASE UNCHANGED <<lines, entries>>
  BY <1>2 DEF BufferInv, LatestLines
<1>. QED BY <1>1, <1>2 DEF LogNext, LogWriter, Notify, Receive, ShowLogs, CycleFilter, OpenLogs

(* logwriter.go:83-91: the buffer holds the latest lines, in their order.   *)
THEOREM BufferLatestLines == Spec => []LatestLines
<1>1. LogInit => BufferInv
  BY LogAssumption DEF LogInit, BufferInv, LatestLines
<1>2. BufferInv => LatestLines
  BY DEF BufferInv
<1>. QED BY <1>1, <1>2, StepBuffer, TerminalImplementsLogView, PTL DEF LogSpec

-----------------------------------------------------------------------------
(* What Filtered computes. Its loop is a recursive function of how many     *)
(* entries it has seen. The facts about it are proved by induction, which   *)
(* needs no more than that a set of numbers has a smallest one.             *)

LEMMA Smallest ==
  ASSUME NEW T \in SUBSET Nat, T # {}
  PROVE  \E n \in T : \A m \in T : ~(m < n)
<1>1. PICK n \in T : \A m \in T : <<m, n>> \notin OpToRel(<, Nat)
  BY NatLessThanWellFounded, WFMin, Zenon
<1>2. \A m \in T : <<m, n>> \notin {pair \in Nat \X Nat : pair[1] < pair[2]}
  BY <1>1, Zenon DEF OpToRel
<1>. QED BY <1>2

\* Induction for the members of a set, up to a bound.
LEMMA InductUpTo ==
  ASSUME NEW L \in Nat, NEW S, 0 \in S, \A n \in 1 .. L : n - 1 \in S => n \in S
  PROVE  0 .. L \subseteq S
<1>. SUFFICES ASSUME ~(0 .. L \subseteq S) PROVE FALSE
  OBVIOUS
<1>. DEFINE T == {n \in 0 .. L : n \notin S}
<1>1. T \in SUBSET Nat /\ T # {}
  OBVIOUS
<1>2. PICK n \in T : \A m \in T : ~(m < n)
  <2>. HIDE DEF T
  <2>. QED BY <1>1, Smallest
<1>3. n \in 1 .. L /\ n - 1 \in 0 .. L /\ n - 1 < n
  BY <1>2
<1>. QED BY <1>2, <1>3

\* What the loop's next round does with what it has.
Take(out, entry, filter) == IF Shown(entry, filter) THEN Append(out, entry) ELSE out

\* out is what the first m rounds of the loop over the buffer yield.
IsLoop(out, buffer, filter, m) ==
  out = [n \in 0 .. m |-> IF n = 0 THEN <<>> ELSE Take(out[n - 1], buffer[n], filter)]

LEMMA LoopRounds ==
  ASSUME NEW buffer, NEW filter, NEW m \in Nat, NEW out, IsLoop(out, buffer, filter, m)
  PROVE  out[0] = <<>> /\ \A n \in 1 .. m : out[n] = Take(out[n - 1], buffer[n], filter)
<1>. DEFINE round(n) == IF n = 0 THEN <<>> ELSE Take(out[n - 1], buffer[n], filter)
<1>1. out = [n \in 0 .. m |-> round(n)]
  BY DEF IsLoop
<1>. HIDE DEF round
<1>2. \A n \in 0 .. m : out[n] = round(n)
  BY <1>1, Zenon
<1>3. round(0) = <<>> /\ \A n \in 1 .. m : round(n) = Take(out[n - 1], buffer[n], filter)
  BY DEF round
<1>. QED BY <1>2, <1>3

\* There is such a function: it is built round by round.
LEMMA LoopExists ==
  ASSUME NEW buffer, NEW filter, NEW L \in Nat
  PROVE  \E out : IsLoop(out, buffer, filter, L)
<1>. DEFINE S == {m \in Nat : \E out : IsLoop(out, buffer, filter, m)}
<1>1. 0 \in S
  <2>. DEFINE first == [n \in 0 .. 0 |-> <<>>]
  <2>1. IsLoop(first, buffer, filter, 0)
    BY DEF IsLoop
  <2>. QED BY <2>1
<1>2. ASSUME NEW m \in 1 .. L, m - 1 \in S
      PROVE  m \in S
  <2>1. PICK out : IsLoop(out, buffer, filter, m - 1)
    BY <1>2
  <2>2. /\ m - 1 \in Nat /\ out[0] = <<>>
        /\ \A n \in 1 .. m - 1 : out[n] = Take(out[n - 1], buffer[n], filter)
    BY <2>1, LoopRounds
  <2>. DEFINE longer == [n \in 0 .. m |-> IF n = m THEN Take(out[m - 1], buffer[m], filter) ELSE out[n]]
              round(n) == IF n = 0 THEN <<>> ELSE Take(longer[n - 1], buffer[n], filter)
  <2>3. \A n \in 0 .. m : longer[n] = IF n = m THEN Take(out[m - 1], buffer[m], filter) ELSE out[n]
    BY Zenon
  <2>4. \A n \in 0 .. m : longer[n] = round(n)
    <3>1. ASSUME NEW n \in 0 .. m PROVE longer[n] = round(n)
      <4>. HIDE DEF longer
      <4>1. CASE n = 0
        BY <2>2, <2>3, <4>1
      <4>2. CASE n # 0
        <5>1. n - 1 \in 0 .. m /\ n - 1 # m
          BY <4>2
        <5>2. longer[n - 1] = out[n - 1]
          BY <2>3, <5>1
        <5>. QED BY <2>2, <2>3, <4>2, <5>2
      <4>. QED BY <4>1, <4>2
    <3>. QED BY <3>1, Zenon
  <2>5. longer = [n \in 0 .. m |-> round(n)]
    <3>1. longer = [n \in 0 .. m |-> longer[n]]
      OBVIOUS
    <3>. HIDE DEF longer, round
    <3>. QED BY <2>4, <3>1
  <2>6. IsLoop(longer, buffer, filter, m)
    BY <2>5, Zenon DEF IsLoop
  <2>. QED BY <2>6
<1>3. 0 .. L \subseteq S
  <2>. HIDE DEF S
  <2>. QED BY <1>1, <1>2, InductUpTo
<1>. QED BY <1>3

\* The lines of a sequence come in the order they were written.
Ascending(s) == \A i, j \in 1 .. Len(s) : i < j => s[i].line < s[j].line

\* out holds the lines of the filter's level among the buffer's first n.
Copies(out, buffer, filter, n) ==
  /\ out \in Seq(Entry) /\ Len(out) <= n
  /\ \A i \in 1 .. Len(out) : \E k \in 1 .. n : out[i] = buffer[k] /\ Shown(buffer[k], filter)
  /\ \A k \in 1 .. n : Shown(buffer[k], filter) => \E i \in 1 .. Len(out) : out[i] = buffer[k]
  /\ Ascending(out)

LEMMA TakeCopies ==
  ASSUME NEW buffer \in Seq(Entry), Ascending(buffer), NEW filter, NEW n \in 1 .. Len(buffer),
         NEW out, Copies(out, buffer, filter, n - 1)
  PROVE  Copies(Take(out, buffer[n], filter), buffer, filter, n)
<1>. /\ out \in Seq(Entry) /\ Len(out) \in Nat /\ Len(out) <= n - 1
     /\ n \in Nat \ {0} /\ buffer[n] \in Entry
  BY DEF Copies
<1>1. CASE ~Shown(buffer[n], filter)
  <2>1. Take(out, buffer[n], filter) = out
    BY <1>1 DEF Take
  <2>2. \A k \in 1 .. n : k \in 1 .. n - 1 \/ k = n
    OBVIOUS
  <2>3. \A k \in 1 .. n - 1 : k \in 1 .. n
    OBVIOUS
  <2>. QED BY <1>1, <2>1, <2>2, <2>3 DEF Copies
<1>2. CASE Shown(buffer[n], filter)
  <2>. DEFINE more == Append(out, buffer[n])
  <2>1. Take(out, buffer[n], filter) = more
    BY <1>2 DEF Take
  <2>2. /\ more \in Seq(Entry) /\ Len(more) = Len(out) + 1
        /\ \A i \in 1 .. Len(out) : more[i] = out[i]
        /\ more[Len(out) + 1] = buffer[n]
    OBVIOUS
  <2>. HIDE DEF more
  <2>3. ASSUME NEW i \in 1 .. Len(more)
        PROVE  \E k \in 1 .. n : more[i] = buffer[k] /\ Shown(buffer[k], filter)
    <3>1. CASE i \in 1 .. Len(out)
      <4>1. PICK k \in 1 .. n - 1 : out[i] = buffer[k] /\ Shown(buffer[k], filter)
        BY <3>1 DEF Copies
      <4>. QED BY <2>2, <3>1, <4>1
    <3>2. CASE i = Len(out) + 1
      BY <1>2, <2>2, <3>2
    <3>. QED BY <2>2, <3>1, <3>2
  <2>4. ASSUME NEW k \in 1 .. n, Shown(buffer[k], filter)
        PROVE  \E i \in 1 .. Len(more) : more[i] = buffer[k]
    <3>1. CASE k = n
      BY <2>2, <3>1
    <3>2. CASE k # n
      <4>1. k \in 1 .. n - 1
        BY <3>2
      <4>2. PICK i \in 1 .. Len(out) : out[i] = buffer[k]
        BY <2>4, <4>1 DEF Copies
      <4>. QED BY <2>2, <4>2
    <3>. QED BY <3>1, <3>2
  <2>5. Ascending(more)
    <3>1. ASSUME NEW i \in 1 .. Len(more), NEW j \in 1 .. Len(more), i < j
          PROVE  more[i].line < more[j].line
      <4>1. i \in 1 .. Len(out) /\ more[i] = out[i]
        BY <2>2, <3>1
      <4>2. CASE j \in 1 .. Len(out)
        <5>1. out[i].line < out[j].line
          BY <3>1, <4>1, <4>2 DEF Copies, Ascending
        <5>. QED BY <2>2, <4>1, <4>2, <5>1
      <4>3. CASE j = Len(out) + 1
        <5>1. PICK k \in 1 .. n - 1 : out[i] = buffer[k]
          BY <4>1 DEF Copies
        <5>2. k \in 1 .. Len(buffer) /\ k < n
          OBVIOUS
        <5>3. buffer[k].line < buffer[n].line
          BY <5>2 DEF Ascending
        <5>. QED BY <2>2, <4>1, <4>3, <5>1, <5>3
      <4>. QED BY <2>2, <4>2, <4>3
    <3>. QED BY <3>1 DEF Ascending
  <2>. QED BY <2>1, <2>2, <2>3, <2>4, <2>5 DEF Copies
<1>. QED BY <1>1, <1>2

(* logwriter.go:106-124: Entries returns, in their order, all the lines of  *)
(* the level it is asked for, and no other.                                 *)
THEOREM FilteredCopies ==
  ASSUME NEW buffer \in Seq(Entry), Ascending(buffer), NEW filter
  PROVE  Copies(Filtered(buffer, filter), buffer, filter, Len(buffer))
<1>. DEFINE L == Len(buffer)
            loop == CHOOSE out : IsLoop(out, buffer, filter, L)
            S == {n \in 0 .. L : Copies(loop[n], buffer, filter, n)}
<1>1. L \in Nat
  OBVIOUS
<1>2. Filtered(buffer, filter) = loop[L]
  BY DEF Filtered, IsLoop, Take
<1>3. IsLoop(loop, buffer, filter, L)
  BY <1>1, LoopExists
<1>4. loop[0] = <<>> /\ \A n \in 1 .. L : loop[n] = Take(loop[n - 1], buffer[n], filter)
  <2>. HIDE DEF loop, L
  <2>. QED BY <1>1, <1>3, LoopRounds
<1>. HIDE DEF loop
<1>5. 0 \in S
  <2>1. <<>> \in Seq(Entry) /\ Len(<<>>) = 0 /\ 1 .. 0 = {}
    OBVIOUS
  <2>2. Copies(<<>>, buffer, filter, 0)
    BY <2>1 DEF Copies, Ascending
  <2>. QED BY <1>1, <1>4, <2>2
<1>6. ASSUME NEW n \in 1 .. L, n - 1 \in S
      PROVE  n \in S
  <2>1. Copies(loop[n - 1], buffer, filter, n - 1)
    BY <1>6
  <2>2. Copies(Take(loop[n - 1], buffer[n], filter), buffer, filter, n)
    BY <2>1, TakeCopies
  <2>. QED BY <1>4, <2>2
<1>7. 0 .. L \subseteq S
  <2>. HIDE DEF S, L
  <2>. QED BY <1>1, <1>5, <1>6, InductUpTo
<1>. QED BY <1>1, <1>2, <1>7

-----------------------------------------------------------------------------
(* The view.                                                                *)

LEMMA StepWakeup == NoLostWakeup /\ [LogNext]_logVars => NoLostWakeup'
<1>. SUFFICES ASSUME NoLostWakeup, [LogNext]_logVars PROVE NoLostWakeup'
  OBVIOUS
<1>1. ASSUME NEW w \in Writers, Fire(w) \/ Notify(w) PROVE NoLostWakeup'
  BY <1>1 DEF Fire, Notify, NoLostWakeup
<1>2. CASE Receive
  BY <1>2 DEF Receive, NoLostWakeup
<1>3. CASE ShowLogs \/ CycleFilter \/ OpenLogs
  BY <1>3 DEF ShowLogs, CycleFilter, OpenLogs, Refresh, NoLostWakeup
<1>4. CASE UNCHANGED logVars
  BY <1>4 DEF NoLostWakeup
<1>. QED BY <1>1, <1>2, <1>3, <1>4 DEF LogNext, LogWriter

(* logwriter.go:93-97, app.go:105-110, 143-146: no line waits for the next  *)
(* one to be shown.                                                         *)
THEOREM ViewNoLostWakeup == Spec => []NoLostWakeup
<1>1. LogInit => NoLostWakeup
  BY DEF LogInit, NoLostWakeup
<1>. QED BY <1>1, StepWakeup, TerminalImplementsLogView, PTL DEF LogSpec

-----------------------------------------------------------------------------
(* The types, of the log and of the rest, and the order of the view. The    *)
(* buffer is in order because its lines are numbered one after the other.   *)

LogInv == LogTypeOK /\ LatestLines /\ ViewInOrder

LEMMA EntriesAscend ==
  ASSUME LogInv
  PROVE  /\ entries \in Seq(Entry) /\ Ascending(entries)
         /\ \A i \in 1 .. Len(entries) : entries[i].line <= lines
BY DEF LogInv, LogTypeOK, LatestLines, Ascending

LEMMA RefreshInOrder ==
  ASSUME LogInv, filterIdx' \in 0 .. Len(FilterLevels) - 1, Refresh, UNCHANGED lines
  PROVE  view' \in Seq(Entry) /\ ViewInOrder'
<1>. DEFINE filter == FilterLevels[filterIdx' + 1]
<1>1. Copies(view', entries, filter, Len(entries))
  BY EntriesAscend, FilteredCopies DEF Refresh
<1>2. view' \in Seq(Entry) /\ Ascending(view')
  BY <1>1 DEF Copies
<1>3. ASSUME NEW i \in 1 .. Len(view')
      PROVE  Shown(view'[i], filter) /\ view'[i].line <= lines
  <2>1. PICK k \in 1 .. Len(entries) : view'[i] = entries[k] /\ Shown(entries[k], filter)
    BY <1>1 DEF Copies
  <2>. QED BY <2>1, EntriesAscend
<1>. QED BY <1>2, <1>3 DEF ViewInOrder, Ascending

LEMMA StepLog == LogInv /\ [LogNext]_logVars => LogInv'
<1>. SUFFICES ASSUME LogInv, [LogNext]_logVars PROVE LogInv'
  OBVIOUS
<1>. USE DEF LogInv
<1>1. BufferInv /\ BufferInv'
  <2>1. BufferInv
    BY DEF LogTypeOK, BufferInv
  <2>. QED BY <2>1, StepBuffer
<1>2. LatestLines' /\ entries' \in Seq(Entry) /\ Len(entries') <= MaxSize
  BY <1>1, LogAssumption DEF BufferInv, LatestLines
<1>3. ASSUME NEW w \in Writers, Fire(w) PROVE LogInv'
  <2>1. lines' \in 0 .. MaxLines /\ lines' = lines + 1 /\ lines \in Nat /\ writing' \subseteq Writers
    BY <1>3, LogAssumption DEF Fire, LogTypeOK
  <2>2. UNCHANGED <<ch, waiter, filterIdx, view>>
    BY <1>3 DEF Fire
  <2>3. LogTypeOK'
    BY <1>2, <2>1, <2>2 DEF LogTypeOK
  <2>4. \A i \in 1 .. Len(view) : view[i].line <= lines /\ view[i].line \in Nat
    <3>1. ASSUME NEW i \in 1 .. Len(view) PROVE view[i].line <= lines /\ view[i].line \in Nat
      <4>1. view[i] \in Entry
        BY DEF LogTypeOK
      <4>2. view[i].line \in Nat
        BY <4>1, LogAssumption DEF Entry
      <4>. QED BY <4>2 DEF ViewInOrder
    <3>. QED BY <3>1
  <2>5. ViewInOrder'
    BY <2>1, <2>2, <2>4 DEF ViewInOrder
  <2>. QED BY <1>2, <2>3, <2>5
<1>4. ASSUME NEW w \in Writers, Notify(w) PROVE LogInv'
  BY <1>2, <1>4 DEF Notify, LogTypeOK, ViewInOrder
<1>5. CASE Receive
  BY <1>2, <1>5 DEF Receive, LogTypeOK, ViewInOrder
<1>6. CASE ShowLogs \/ CycleFilter \/ OpenLogs
  <2>1. /\ Refresh /\ UNCHANGED <<lines, entries, writing>>
        /\ ch' \in BOOLEAN /\ waiter' \in {"waiting", "sent"}
    BY <1>6 DEF ShowLogs, CycleFilter, OpenLogs, LogTypeOK
  <2>2. filterIdx' \in 0 .. Len(FilterLevels) - 1
    BY <1>6 DEF ShowLogs, CycleFilter, OpenLogs, LogTypeOK, FilterLevels
  <2>3. view' \in Seq(Entry) /\ ViewInOrder'
    BY <2>1, <2>2, RefreshInOrder
  <2>. QED BY <1>2, <2>1, <2>2, <2>3 DEF LogTypeOK
<1>7. CASE UNCHANGED logVars
  BY <1>7 DEF LogTypeOK, LatestLines, ViewInOrder
<1>. QED BY <1>3, <1>4, <1>5, <1>6, <1>7 DEF LogNext, LogWriter

LEMMA InitLog == LogInit => LogInv
<1>. SUFFICES ASSUME LogInit PROVE LogInv
  OBVIOUS
<1>1. <<>> \in Seq(Entry) /\ Len(<<>>) = 0 /\ 1 .. 0 = {} /\ Len(FilterLevels) = 5
  BY DEF FilterLevels
<1>2. ch \in BOOLEAN /\ waiter \in {"waiting", "sent"}
  BY Zenon DEF LogInit
<1>3. LogTypeOK
  BY <1>1, <1>2, LogAssumption DEF LogInit, LogTypeOK
<1>. QED BY <1>1, <1>3, LogAssumption DEF LogInit, LogInv, LatestLines, ViewInOrder

(* logwriter.go:106-124, logs.go:56-92: the Logs tab shows lines of the     *)
(* level its header names and no other, each once and in the order they     *)
(* were written, whatever is written meanwhile.                             *)
THEOREM TerminalViewInOrder == Spec => []ViewInOrder
<1>1. LogInv => ViewInOrder
  BY DEF LogInv
<1>. QED BY <1>1, InitLog, StepLog, TerminalImplementsLogView, PTL DEF LogSpec

(* logs.go:13, logwriter.go:75: no line is ever shown under the filter      *)
(* "WARN", since logrus names that level "WARNING".                         *)
THEOREM TerminalWarnShowsNothing ==
  ASSUME "WARN" \notin Levels
  PROVE  Spec => [](FilterLevels[filterIdx + 1] = "WARN" => view = <<>>)
<1>1. LogInv => (FilterLevels[filterIdx + 1] = "WARN" => view = <<>>)
  <2>. SUFFICES ASSUME LogInv, FilterLevels[filterIdx + 1] = "WARN" PROVE view = <<>>
    OBVIOUS
  <2>1. view \in Seq(Entry) /\ \A i \in 1 .. Len(view) : Shown(view[i], "WARN")
    BY DEF LogInv, LogTypeOK, ViewInOrder
  <2>2. ASSUME NEW i \in 1 .. Len(view) PROVE FALSE
    <3>1. view[i] \in Entry /\ view[i].level = "WARN"
      BY <2>1 DEF Shown
    <3>. QED BY <3>1 DEF Entry
  <2>3. Len(view) = 0
    BY <2>1, <2>2
  <2>. QED BY <2>1, <2>3
<1>. QED BY <1>1, InitLog, StepLog, TerminalImplementsLogView, PTL DEF LogSpec

-----------------------------------------------------------------------------
(* The wizard.                                                              *)

\* What stands between the wizard and the channel it closes.
SetupInv ==
  /\ program # "panicked"
  /\ doneMsgs \in Nat
  /\ doneHeld \in BOOLEAN
  /\ (showSetup \/ doneMsgs > 0) /\ doneHeld => doneCh = "open"
  /\ ~doneHeld => wallet = "whole" /\ ~showSetup
  /\ wizard \in {"created", "imported"} /\ (showSetup \/ doneMsgs > 0) => wallet = "whole"
  /\ doneMsgs > 0 => wizard \in {"created", "imported"}

LEMMA StepSetup == SetupInv /\ [Next]_vars => SetupInv'
<1>. SUFFICES ASSUME SetupInv, [Next]_vars PROVE SetupInv'
  OBVIOUS
<1>1. CASE ChooseImport \/ Back
  BY <1>1 DEF ChooseImport, Back, Wizard, SetupInv
<1>2. CASE WriteWallet("choose", "created") \/ WriteWallet("import", "imported")
  BY <1>2 DEF WriteWallet, Wizard, SetupInv
<1>3. CASE WriteFails("choose") \/ WriteFails("import")
  BY <1>3 DEF WriteFails, Wizard, SetupInv
<1>4. CASE Continue
  BY <1>4 DEF Continue, Wizard, SetupInv
<1>5. CASE SetupDone
  <2>1. ~doneHeld' /\ ~showSetup' /\ doneHeld' \in BOOLEAN
    BY <1>5, Zenon DEF SetupDone
  <2>2. doneMsgs' = doneMsgs - 1 /\ doneMsgs > 0 /\ UNCHANGED <<wizard, wallet>>
    BY <1>5, Zenon DEF SetupDone
  <2>3. program' # "panicked"
    BY <1>5 DEF SetupDone, SetupInv
  <2>. QED BY <2>1, <2>2, <2>3 DEF SetupInv
<1>6. CASE QuitSetup
  BY <1>6 DEF QuitSetup, SetupInv
<1>7. CASE Keys
  <2>1. UNCHANGED setupVars /\ program' \in {program, "quit"}
    BY <1>7 DEF Keys, PressQuit, Withdraw, OpenTab, LogsKey, NextPage, PreviousPage, Reload, RewardsKey,
                Key, Quiet
  <2>. QED BY <2>1 DEF SetupInv
<1>8. CASE Tick \/ (\E p \in 1 .. Pages : RewardData(p)) \/ StartDaemon \/ QuitBySignal
           \/ ShowLogLines \/ Logging
  <2>1. UNCHANGED setupVars /\ program' \in {program, "quit"}
    BY <1>8 DEF Tick, RewardData, StartDaemon, QuitBySignal, ShowLogLines, Logging
  <2>. QED BY <2>1 DEF SetupInv
<1>9. CASE UNCHANGED vars
  BY <1>9 DEF vars, SetupInv
<1>. QED BY <1>1, <1>2, <1>3, <1>4, <1>5, <1>6, <1>7, <1>8, <1>9 DEF Next, Setup

LEMMA InitSetup == Init => SetupInv
BY DEF Init, SetupInv

(* setup.go:139-205, main.go:741-757: a daemon that waited for the wizard   *)
(* starts with a whole wallet.                                              *)
THEOREM TerminalNeedsWallet == Spec => []DaemonNeedsWallet
<1>1. SetupInv => DaemonNeedsWallet
  BY DEF SetupInv, DaemonNeedsWallet
<1>. QED BY <1>1, InitSetup, StepSetup, PTL DEF Spec

(* app.go:152-161: setupDone is closed once.                                *)
THEOREM TerminalClosedOnce == Spec => []ClosedOnce
<1>1. SetupInv => ClosedOnce
  BY DEF SetupInv, ClosedOnce
<1>. QED BY <1>1, InitSetup, StepSetup, PTL DEF Spec
-----------------------------------------------------------------------------
(* The types of the rest.                                                   *)

SetupTypes ==
  /\ program \in {"on", "quit", "panicked"}
  /\ daemon \in {"waiting", "started"}
  /\ confirmQuit \in BOOLEAN /\ showSetup \in BOOLEAN
  /\ wizard \in WizardStates
  /\ doneMsgs \in 0 .. 2
  /\ doneCh \in {"open", "closed"} /\ doneHeld \in BOOLEAN
  /\ wallet \in {"none", "broken", "whole"}

RewardTypes ==
  /\ tab \in Tabs
  /\ page \in 1 .. Pages /\ totalPages \in {0, Pages}
  /\ fetching \in BOOLEAN
  /\ fetches \in [1 .. Pages -> 0 .. MaxFetches]
  /\ pageShown \in 0 .. Pages

LEMMA StepSetupTypes == SetupTypes /\ [Next]_vars => SetupTypes'
<1>. SUFFICES ASSUME SetupTypes, [Next]_vars PROVE SetupTypes'
  OBVIOUS
<1>. USE DEF SetupTypes
<1>1. CASE ChooseImport \/ Back
  BY <1>1 DEF ChooseImport, Back, Wizard, WizardStates
<1>2. CASE WriteWallet("choose", "created") \/ WriteWallet("import", "imported")
  BY <1>2 DEF WriteWallet, Wizard, WizardStates
<1>3. CASE WriteFails("choose") \/ WriteFails("import")
  BY <1>3 DEF WriteFails, Wizard, WizardStates
<1>4. CASE Continue
  BY <1>4 DEF Continue, Wizard
<1>5. CASE SetupDone
  <2>1. doneMsgs' \in 0 .. 2 /\ doneCh' \in {"open", "closed"} /\ program' \in {"on", "quit", "panicked"}
    BY <1>5 DEF SetupDone
  <2>2. ~doneHeld' /\ ~showSetup' /\ doneHeld' \in BOOLEAN /\ showSetup' \in BOOLEAN
    BY <1>5, Zenon DEF SetupDone
  <2>3. UNCHANGED <<daemon, confirmQuit, wizard, wallet>>
    BY <1>5, Zenon DEF SetupDone
  <2>. QED BY <2>1, <2>2, <2>3
<1>6. CASE Keys
  <2>1. UNCHANGED <<daemon, setupVars>> /\ program' \in {program, "quit"} /\ confirmQuit' \in BOOLEAN
    BY <1>6 DEF Keys, PressQuit, Withdraw, OpenTab, LogsKey, NextPage, PreviousPage, Reload, RewardsKey,
                Key, Quiet
  <2>. QED BY <2>1
<1>7. CASE QuitSetup \/ Tick \/ (\E p \in 1 .. Pages : RewardData(p)) \/ StartDaemon \/ QuitBySignal
           \/ ShowLogLines \/ Logging
  <2>1. /\ UNCHANGED <<confirmQuit, setupVars>> /\ program' \in {program, "quit"}
        /\ daemon' \in {daemon, "started"}
    BY <1>7 DEF QuitSetup, Tick, RewardData, StartDaemon, QuitBySignal, ShowLogLines, Logging
  <2>. QED BY <2>1
<1>8. CASE UNCHANGED vars
  BY <1>8 DEF vars
<1>. QED BY <1>1, <1>2, <1>3, <1>4, <1>5, <1>6, <1>7, <1>8 DEF Next, Setup

\* A fetch that starts, for any page that exists.
LEMMA OneFetchMore ==
  ASSUME RewardTypes, NEW p \in 1 .. Pages, fetches[p] # MaxFetches
  PROVE  [fetches EXCEPT ![p] = @ + 1] \in [1 .. Pages -> 0 .. MaxFetches]
<1>1. fetches[p] + 1 \in 0 .. MaxFetches
  BY TerminalAssumption DEF RewardTypes
<1>. QED BY <1>1 DEF RewardTypes

LEMMA StepRewardTypes == RewardTypes /\ [Next]_vars => RewardTypes'
<1>. SUFFICES ASSUME RewardTypes, [Next]_vars PROVE RewardTypes'
  OBVIOUS
<1>. USE TerminalAssumption
<1>1. CASE UNCHANGED <<tab, rewardVars>>
  BY <1>1 DEF RewardTypes
<1>2. ASSUME NEW t \in Tabs, OpenTab(t) PROVE RewardTypes'
  <2>1. tab' \in Tabs /\ UNCHANGED <<page, totalPages, pageShown>>
    BY <1>2 DEF OpenTab
  <2>2. LoadAndReturn \/ UNCHANGED <<fetching, fetches>>
    BY <1>2 DEF OpenTab
  <2>3. fetching' \in BOOLEAN /\ fetches' \in [1 .. Pages -> 0 .. MaxFetches]
    BY <2>2, OneFetchMore DEF LoadAndReturn, RewardTypes
  <2>. QED BY <2>1, <2>3 DEF RewardTypes
<1>3. CASE NextPage \/ PreviousPage \/ Reload
  <2>1. page' \in 1 .. Pages
    BY <1>3 DEF NextPage, PreviousPage, Reload, RewardTypes
  <2>2. Load /\ UNCHANGED <<tab, totalPages, pageShown>>
    BY <1>3 DEF NextPage, PreviousPage, Reload, RewardsKey
  <2>3. fetching' \in BOOLEAN /\ fetches' \in [1 .. Pages -> 0 .. MaxFetches]
    BY <2>1, <2>2, OneFetchMore DEF Load, RewardTypes
  <2>. QED BY <2>1, <2>2, <2>3 DEF RewardTypes
<1>4. CASE Tick
  <2>1. LoadAndReturn /\ UNCHANGED <<tab, page, totalPages, pageShown>>
    BY <1>4 DEF Tick
  <2>2. fetching' \in BOOLEAN /\ fetches' \in [1 .. Pages -> 0 .. MaxFetches]
    BY <2>1, OneFetchMore DEF LoadAndReturn, RewardTypes
  <2>. QED BY <2>1, <2>2 DEF RewardTypes
<1>5. ASSUME NEW p \in 1 .. Pages, RewardData(p) PROVE RewardTypes'
  <2>1. fetches[p] - 1 \in 0 .. MaxFetches
    BY <1>5 DEF RewardData, RewardTypes
  <2>2. fetches' \in [1 .. Pages -> 0 .. MaxFetches]
    BY <1>5, <2>1 DEF RewardData, RewardTypes
  <2>3. totalPages' \in {0, Pages} /\ pageShown' \in 0 .. Pages /\ UNCHANGED <<tab, page>>
    BY <1>5 DEF RewardData, RewardTypes
  <2>4. fetching' \in BOOLEAN
    BY <1>5, Zenon DEF RewardData
  <2>. QED BY <2>2, <2>3, <2>4 DEF RewardTypes
<1>6. CASE Setup \/ PressQuit \/ Withdraw \/ LogsKey \/ ShowLogLines \/ Logging \/ StartDaemon
           \/ QuitBySignal
  <2>1. UNCHANGED <<tab, rewardVars>>
    BY <1>6 DEF Setup, ChooseImport, Back, WriteWallet, WriteFails, Continue, Wizard, SetupDone, QuitSetup,
                PressQuit, Withdraw, LogsKey, ShowLogLines, Logging, StartDaemon, QuitBySignal
  <2>. QED BY <1>1, <2>1
<1>7. CASE UNCHANGED vars
  BY <1>1, <1>7 DEF vars
<1>. QED BY <1>2, <1>3, <1>4, <1>5, <1>6, <1>7 DEF Next, Keys

(* The variables of the terminal interface keep their types.                *)
THEOREM TerminalTypeOK == Spec => []TypeOK
<1>1. Init => LogInv /\ SetupTypes /\ RewardTypes
  <2>1. Init => LogInv
    BY InitLog DEF Init
  <2>2. Init => confirmQuit \in BOOLEAN /\ showSetup \in BOOLEAN /\ doneHeld \in BOOLEAN /\ fetching \in BOOLEAN
    BY Zenon DEF Init
  <2>3. Init => SetupTypes
    BY <2>2 DEF Init, SetupTypes, WizardStates
  <2>4. Init => RewardTypes
    BY <2>2, TerminalAssumption DEF Init, RewardTypes, Tabs
  <2>. QED BY <2>1, <2>3, <2>4
<1>2. LogInv /\ [Next]_vars => LogInv'
  BY LogSteps, StepLog
<1>3. LogInv /\ SetupTypes /\ RewardTypes => TypeOK
  BY DEF LogInv, SetupTypes, RewardTypes, TypeOK
<1>. QED BY <1>1, <1>2, <1>3, StepSetupTypes, StepRewardTypes, PTL DEF Spec
=============================================================================
