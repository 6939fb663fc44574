------------------------------- MODULE LogView -------------------------------
(***************************************************************************)
(* The log lines of the terminal interface: the ring buffer that goroutines*)
(* write to (internal/tui/logwriter.go), its notification channel, and the *)
(* view of the Logs tab (internal/tui/logs.go) that the program's loop     *)
(* rebuilds when waitForLog (internal/tui/app.go) has read from the        *)
(* channel. A line is its number and its level; layout is left out.        *)
(***************************************************************************)
EXTENDS Integers, Sequences

CONSTANTS
  Writers,    \* goroutines that log
  Levels,     \* levels as logrus prints them: "INFO", "WARNING", ...
  MaxSize,    \* LogBuffer.maxSize
  MaxLines    \* bound: lines written

ASSUME LogAssumption == MaxSize \in Nat \ {0} /\ MaxLines \in Nat

VARIABLES
  lines,      \* how many lines were written
  entries,    \* LogBuffer.entries
  ch,         \* is there a notification in LogBuffer.ch (capacity 1)?
  writing,    \* the writers between the buffer and the channel
  waiter,     \* waitForLog: "waiting", or "sent" its message to the loop
  filterIdx,  \* logsModel.filterIdx
  view        \* the lines the viewport shows

bufferVars == <<lines, entries, writing>>
viewVars == <<filterIdx, view>>
logVars == <<bufferVars, ch, waiter, viewVars>>

FilterLevels == <<"ALL", "DEBUG", "INFO", "WARN", "ERROR">>
Entry == [line : 1 .. MaxLines, level : Levels]

LogTypeOK ==
  /\ lines \in 0 .. MaxLines
  /\ entries \in Seq(Entry) /\ Len(entries) <= MaxSize
  /\ ch \in BOOLEAN
  /\ writing \subseteq Writers
  /\ waiter \in {"waiting", "sent"}
  /\ filterIdx \in 0 .. Len(FilterLevels) - 1
  /\ view \in Seq(Entry)

LogInit ==
  /\ lines = 0 /\ entries = <<>>
  /\ ch = FALSE
  /\ writing = {}
  /\ waiter = "waiting"
  /\ filterIdx = 0 /\ view = <<>>

-----------------------------------------------------------------------------
(* LogBuffer.Fire: the line is stored under the lock ...                   *)

\* Mutant of Stored: the buffer is not cut.
StoredUncut(entry) == Append(entries, entry)

\* A full buffer drops its oldest line.
Stored(entry) ==
  IF Len(entries) >= MaxSize THEN Append(Tail(entries), entry) ELSE Append(entries, entry)

Fire(w) ==
  /\ w \notin writing /\ lines < MaxLines
  /\ lines' = lines + 1
  /\ \E level \in Levels : entries' = Stored([line |-> lines', level |-> level])
  /\ writing' = writing \cup {w}
  /\ UNCHANGED <<ch, waiter, viewVars>>

\* ... and the channel is told without the lock, unless it holds a
\* notification already.
Notify(w) ==
  /\ w \in writing
  /\ writing' = writing \ {w}
  /\ ch' = TRUE
  /\ UNCHANGED <<lines, entries, waiter, viewVars>>

\* waitForLog reads the channel and sends a logNotifyMsg.
Receive ==
  /\ waiter = "waiting" /\ ch
  /\ ch' = FALSE
  /\ waiter' = "sent"
  /\ UNCHANGED <<bufferVars, viewVars>>

-----------------------------------------------------------------------------
(* The program's loop.                                                     *)

\* No line has the level "WARN": logrus prints "WARNING".
Shown(entry, filter) == filter = "ALL" \/ entry.level = filter

\* LogBuffer.Entries: the lines of exactly this level; out[n] are those among
\* the first n.
Filtered(buffer, filter) ==
  LET out[n \in 0 .. Len(buffer)] ==
        IF n = 0 THEN <<>>
        ELSE IF Shown(buffer[n], filter) THEN Append(out[n - 1], buffer[n]) ELSE out[n - 1]
  IN  out[Len(buffer)]

Refresh == view' = Filtered(entries, FilterLevels[filterIdx' + 1])

\* logNotifyMsg: the view is rebuilt, whatever tab is active, and waitForLog
\* called again.
ShowLogs ==
  /\ waiter = "sent"
  /\ waiter' = "waiting"
  /\ UNCHANGED filterIdx
  /\ Refresh
  /\ UNCHANGED <<bufferVars, ch>>

\* Mutant of CycleFilter: the view is left to the next line.
CycleFilterOnly ==
  /\ filterIdx' = (filterIdx + 1) % Len(FilterLevels)
  /\ UNCHANGED <<bufferVars, ch, waiter, view>>

\* "f" on the Logs tab.
CycleFilter ==
  /\ filterIdx' = (filterIdx + 1) % Len(FilterLevels)
  /\ Refresh
  /\ UNCHANGED <<bufferVars, ch, waiter>>

\* The Logs tab is opened.
OpenLogs ==
  /\ UNCHANGED filterIdx
  /\ Refresh
  /\ UNCHANGED <<bufferVars, ch, waiter>>

LogWriter(w) == Fire(w) \/ Notify(w)

LogNext == (\E w \in Writers : LogWriter(w)) \/ Receive \/ ShowLogs \/ CycleFilter \/ OpenLogs

LogSpec == LogInit /\ [][LogNext]_logVars

-----------------------------------------------------------------------------
(* Properties.                                                             *)

\* logwriter.go:86-94: the buffer holds the latest lines, in their order.
LatestLines ==
  /\ Len(entries) = (IF lines < MaxSize THEN lines ELSE MaxSize)
  /\ \A i \in 1 .. Len(entries) : entries[i].line = lines - Len(entries) + i

\* logwriter.go:106-126, logs.go: the view shows lines of the filter's level
\* only, each once and in the order they were written.
ViewInOrder ==
  /\ \A i \in 1 .. Len(view) : Shown(view[i], FilterLevels[filterIdx + 1]) /\ view[i].line <= lines
  /\ \A i, j \in 1 .. Len(view) : i < j => view[i].line < view[j].line

\* logwriter.go:96-100, app.go:97-102, 129-132: the view shows what the buffer
\* holds of the filter's level, or the loop is about to be told.
NoLostWakeup ==
  \/ entries = <<>>
  \/ view = Filtered(entries, FilterLevels[filterIdx + 1])
  \/ ch \/ waiter = "sent" \/ writing # {}
=============================================================================
