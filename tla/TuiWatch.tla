------------------------------ MODULE TuiWatch ------------------------------
(***************************************************************************)
(* How the terminal UI follows the tracker (internal/tui/watcher.go,       *)
(* app.go, cmd/tk/cmd/tui.go).  It lists the ticks, starts to watch their  *)
(* directory, and then, again and again, waits for an event, sleeps 50 ms, *)
(* throws away the events that have come meanwhile and lists the ticks     *)
(* anew.  Its own edits it shows at once.  Other commands write and delete *)
(* files at any moment.                                                    *)
(*                                                                         *)
(* A tick is what was written last to its file: the number of that write.  *)
(*                                                                         *)
(* Names that every specification has are prefixed here, so that they do   *)
(* not clash with those of Screen, the other half of the terminal UI.      *)
(*                                                                         *)
(* A definition named Def_Change is a faulty variant of the Def below it.  *)
(***************************************************************************)
EXTENDS Naturals

CONSTANTS
  Ticks,
  Kept,        \* the ticks that are there at the start and never deleted
  QuietStart,  \* whether other commands leave the tracker alone while tk tui starts
  MaxWrites    \* bound: writes and deletions

ASSUME TuiWatchAssumption ==
  /\ Kept \subseteq Ticks
  /\ QuietStart \in BOOLEAN /\ MaxWrites \in Nat

VARIABLES
  disk,      \* disk[t]: the write that .tick/issues/<t>.json holds; 0: no such file
  events,    \* file events the watcher has not taken yet
  at,        \* where the watching goroutine is
  left,      \* the files List has yet to read
  listed,    \* what List has read, and then the message it sends
  failed,    \* List met a file that was gone
  shown,     \* App.allTicks
  writes

watchVars == <<disk, events, at, left, listed, failed, shown, writes>>

There(d) == {t \in Ticks : d[t] # 0}
Nothing  == [t \in Ticks |-> 0]

TypeOK ==
  /\ disk \in [Ticks -> 0 .. MaxWrites + 1]
  /\ shown \in [Ticks -> 0 .. MaxWrites + 1] /\ listed \in [Ticks -> 0 .. MaxWrites + 1]
  /\ events \in 0 .. writes   \* one event at most per write
  /\ at \in {"start", "startRead", "watch", "exit", "wait", "sleep", "list", "read", "message"}
  /\ left \subseteq Ticks /\ failed \in BOOLEAN /\ (failed => left = {})
  /\ writes \in 0 .. MaxWrites

\* The files there are at the start hold write 1.
WatchInit ==
  /\ disk \in {[t \in Ticks |-> IF t \in S THEN 1 ELSE 0] : S \in SUBSET Ticks}
  /\ Kept \subseteq There(disk)
  /\ events = 0 /\ at = "start" /\ left = {} /\ listed = Nothing /\ failed = FALSE
  /\ shown = Nothing /\ writes = 0

-----------------------------------------------------------------------------
(***************************************************************************)
(* Other commands                                                          *)
(***************************************************************************)

\* tk tui lists the ticks before it creates the watcher.
Starting == at \in {"start", "startRead", "watch"}

Notice == events' = IF Starting \/ at = "exit" THEN 0 ELSE events + 1

\* A file is written, or deleted.
Command(t) ==
  /\ writes < MaxWrites
  /\ Starting => ~QuietStart
  /\ writes' = writes + 1
  /\ \/ disk' = [disk EXCEPT ![t] = writes + 2]
     \/ /\ t \in There(disk) \ Kept
        /\ disk' = [disk EXCEPT ![t] = 0]
  /\ Notice
  /\ UNCHANGED <<at, left, listed, failed, shown>>

-----------------------------------------------------------------------------
(***************************************************************************)
(* Store.List: the directory, then each file; the first that is gone ends  *)
(* it with an error.                                                       *)
(***************************************************************************)
List ==
  /\ at \in {"start", "list"}
  /\ at' = IF at = "start" THEN "startRead" ELSE "read"
  /\ left' = There(disk) /\ listed' = Nothing /\ failed' = FALSE
  /\ UNCHANGED <<disk, events, shown, writes>>

Unread(t) == IF t \in There(disk) THEN left \ {t} ELSE {}

ReadFile ==
  /\ at \in {"startRead", "read"}
  /\ \E t \in left :
       /\ IF t \in There(disk)
          THEN listed' = [listed EXCEPT ![t] = disk[t]] /\ UNCHANGED failed
          ELSE failed' = TRUE /\ UNCHANGED listed
       /\ left' = Unread(t)
  /\ UNCHANGED <<disk, events, at, shown, writes>>

\* The events that are pending when the list has been read.
Pending_None == 0
Pending == events

ListEnds ==
  /\ at \in {"startRead", "read"}
  /\ left = {}
  /\ IF at = "read" THEN at' = "message" /\ UNCHANGED shown
     ELSE IF failed THEN at' = "exit" /\ UNCHANGED shown
     ELSE at' = "watch" /\ shown' = listed
  /\ events' = Pending
  /\ UNCHANGED <<disk, left, listed, failed, writes>>

-----------------------------------------------------------------------------
(***************************************************************************)
(* The watcher                                                             *)
(***************************************************************************)
AddWatch ==
  /\ at = "watch"
  /\ at' = "wait"
  /\ UNCHANGED <<disk, events, left, listed, failed, shown, writes>>

\* wait: an event ends the wait, ...
Wake ==
  /\ at = "wait"
  /\ events > 0
  /\ events' = events - 1
  /\ at' = "sleep"
  /\ UNCHANGED <<disk, left, listed, failed, shown, writes>>

\* ... and those that are found 50 ms later, all or some, are thrown away.
Drain ==
  /\ at = "sleep"
  /\ events' \in 0 .. events
  /\ at' = "list"
  /\ UNCHANGED <<disk, left, listed, failed, shown, writes>>

\* App.Update shows the list, unless it failed or is nil, and waits again.
Accepted == ~failed /\ There(listed) # {}

Reloaded ==
  /\ at = "message"
  /\ shown' = IF Accepted THEN listed ELSE shown
  /\ at' = "wait"
  /\ UNCHANGED <<disk, events, left, listed, failed, writes>>

\* App.Update writes an edit through the store, and mirrors it at once.
Edit(t) ==
  /\ ~Starting /\ at # "exit"
  /\ writes < MaxWrites
  /\ t \in There(shown) \cap There(disk)
  /\ disk' = [disk EXCEPT ![t] = writes + 2]
  /\ shown' = [shown EXCEPT ![t] = writes + 2]
  /\ writes' = writes + 1
  /\ Notice
  /\ UNCHANGED <<at, left, listed, failed>>

Tui == List \/ ReadFile \/ ListEnds \/ AddWatch \/ Wake \/ Drain \/ Reloaded

WatchNext == Tui \/ \E t \in Ticks : Command(t) \/ Edit(t)

WatchSpec == WatchInit /\ [][WatchNext]_watchVars

\* The goroutine that watches goes on when it can.
FairWatchSpec == WatchSpec /\ WF_watchVars(Tui)

-----------------------------------------------------------------------------
(***************************************************************************)
(* Properties                                                              *)
(***************************************************************************)

\* A screen that is out of date has a reason to be redrawn: a TUI that waits
\* with no event pending shows what is on disk.
StaleIsNoticed == at = "wait" /\ events = 0 => shown = disk

\* When the commands stop, the screen shows their outcome, and for good.
Follows == <>[](at = "exit" \/ shown = disk)
=============================================================================
