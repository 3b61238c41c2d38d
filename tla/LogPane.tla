------------------------------- MODULE LogPane -------------------------------
(***************************************************************************)
(* The runtime log on the Global tab: entries that any thread appends, and *)
(* the list of the newest ones, which the user reads while they come in.   *)
(*                                                                         *)
(* Entries wait under a mutex of their own and are taken when a frame is   *)
(* drawn, whichever tab it shows.  The list is drawn, and given events,    *)
(* only while the Global tab is shown.                                     *)
(***************************************************************************)
EXTENDS TailList

CONSTANTS
  LogLimit,    \* MAX_VISIBLE_LOGS
  LogHeights,  \* heights the terminal may have
  MaxEntries   \* bound: entries that are ever logged

ASSUME LogPaneAssumption ==
  /\ {LogLimit, MaxEntries} \subseteq Nat /\ LogLimit > 0
  /\ LogHeights \subseteq Nat \ {0}

VARIABLES
  appended,  \* how many entries are in pending_logs
  entries,   \* the list over GlobalData::log_entries
  hidden,    \* whether another tab is shown
  fresh      \* whether the last step was a frame that drew the list

lpvars == <<appended, entries, hidden, fresh>>

\* appendLog, on any thread.
AppendLog ==
  /\ entries.hi + appended < MaxEntries
  /\ appended' = appended + 1 /\ fresh' = FALSE
  /\ UNCHANGED <<entries, hidden>>

\* drainLogs
Drained == Extended(entries, appended, LogLimit)

\* A frame: the entries are taken, and the list is drawn if its tab is shown.
LogFrame(h) ==
  /\ entries' = IF hidden THEN Drained ELSE Drawn(Drained, h)
  /\ appended' = 0 /\ fresh' = ~hidden
  /\ UNCHANGED hidden

\* Another tab is selected, or this one again.
LogTab == hidden' = ~hidden /\ fresh' = FALSE /\ UNCHANGED <<appended, entries>>

Changed(l) == entries' = l /\ fresh' = FALSE /\ UNCHANGED <<appended, hidden>>

LogKey(key) == ~hidden /\ Changed(Pressed(entries, key))
LogWheel(key) == ~hidden /\ Changed(Wheeled(entries, key))
LogClick(i) == ~hidden /\ Changed(Clicked(entries, i))

LPInit ==
  /\ appended = 0 /\ entries = NewList(None, TRUE) /\ hidden = FALSE /\ fresh = FALSE

LPNext ==
  \/ AppendLog \/ LogTab
  \/ \E h \in LogHeights : LogFrame(h)
  \/ \E key \in Keys : LogKey(key)
  \/ \E key \in {"up", "down"} : LogWheel(key)
  \/ \E i \in entries.rows : LogClick(i)

LPSpec == LPInit /\ [][LPNext]_lpvars

-----------------------------------------------------------------------------
(* Properties *)

ListOf(max) ==
  [lo : 0 .. max, hi : 0 .. max, sel : None .. max, follow : BOOLEAN, top : 0 .. max,
   height : {1} \cup LogHeights, rows : SUBSET (0 .. max)]

LPTypeOK ==
  /\ appended \in 0 .. MaxEntries /\ {hidden, fresh} \subseteq BOOLEAN
  /\ entries \in ListOf(MaxEntries)
  /\ entries.lo <= entries.hi /\ entries.hi - entries.lo <= LogLimit

\* Whatever was trimmed, resized or clicked on in between, a frame that shows
\* the list shows its selected entry, or the last one if the tail is followed,
\* and only entries that are retained.
FrameShowsCursor ==
  fresh => /\ entries.rows \subseteq entries.lo .. entries.hi - 1
           /\ entries.sel # None => entries.sel \in entries.rows /\ ~entries.follow
           /\ entries.lo < entries.hi /\ entries.follow => entries.hi - 1 \in entries.rows

Lost(l) == ~NoItems(l) /\ l.sel = None /\ ~l.follow

\* "-1 means no selected item; follow the tail": a list comes to neither follow
\* the tail nor have a selected entry only where the entry the cursor was on,
\* or would have started from, was trimmed.
CursorLost ==
  [][~Lost(entries) /\ Lost(entries') =>
       (IF entries.sel = None THEN entries.top ELSE entries.sel) < entries'.lo]_lpvars
=============================================================================
