-------------------------------- MODULE Tick --------------------------------
(***************************************************************************)
(* The tick record and the pure functions of internal/tick that change it: *)
(* the workflow fields of tick.go, the verdict state machine of verdict.go *)
(* and the close routing of close.go.  Each operator takes a tick and      *)
(* returns the tick the Go function leaves behind its pointer.             *)
(*                                                                         *)
(* Texts, labels, owners and the like are left out; a timestamp is         *)
(* present (TRUE) or absent (FALSE); a note line is whatever value the     *)
(* module that writes it chooses.                                          *)
(***************************************************************************)
EXTENDS Sequences

None == "none"      \* a nil pointer, an empty string

Status   == {"open", "in_progress", "closed"}
Requires == {"approval", "review", "content"}
Awaiting == Requires \cup {"work", "input", "escalation", "checkpoint"}
Verdict  == {"approved", "rejected"}

\* Every tick whose note lines are in Lines and that passes Validate.
TickRecord(Lines) ==
  [status   : Status,
   requires : Requires \cup {None},
   awaiting : Awaiting \cup {None},
   manual   : BOOLEAN,                 \* the deprecated forerunner of awaiting
   verdict  : Verdict \cup {None},
   started  : BOOLEAN,
   closedAt : BOOLEAN,
   reason   : BOOLEAN,
   notes    : Seq(Lines)]

\* A tick as "tk create" leaves it, with the gate the caller declared.
NewTick(requires) ==
  [status |-> "open", requires |-> requires, awaiting |-> None, manual |-> FALSE,
   verdict |-> None, started |-> FALSE, closedAt |-> FALSE, reason |-> FALSE,
   notes |-> <<>>]

-----------------------------------------------------------------------------
IsAwaitingHuman(t) == t.awaiting # None \/ t.manual

GetAwaitingType(t) ==
  IF t.awaiting # None THEN t.awaiting ELSE IF t.manual THEN "work" ELSE None

HasRequiredGate(t) == t.requires # None

SetAwaiting(t, value) == [t EXCEPT !.awaiting = value, !.manual = FALSE]

ClearAwaiting(t) == SetAwaiting(t, None)

AddNote(t, line) == [t EXCEPT !.notes = Append(@, line)]

Start(t)   == [t EXCEPT !.status = "in_progress", !.started = TRUE]
Release(t) == [t EXCEPT !.status = "open", !.started = FALSE]

\* The legacy flag is turned into awaiting=work before a verdict is processed.
NormalizeManual(t) ==
  IF t.awaiting = None /\ t.manual THEN SetAwaiting(t, "work") ELSE t

-----------------------------------------------------------------------------
\* Whether this verdict ends a tick parked in this state: an approval ends the
\* terminal states, a rejection ends the ones that ask for a way forward, and
\* nothing ends a checkpoint.
Closes(awaiting, verdict) ==
  \/ awaiting \in Requires \cup {"work"} /\ verdict = "approved"
  \/ awaiting \in {"input", "escalation"} /\ verdict = "rejected"

\* ProcessVerdict: a no-op unless both a verdict and an awaiting state are set.
\* The verdict stays on a tick it closes, as the audit trail; started is not
\* touched, and no close reason is written.
ProcessVerdict(t) ==
  LET closing == Closes(t.awaiting, t.verdict) IN
  IF t.verdict = None \/ t.awaiting = None THEN t
  ELSE [ClearAwaiting(t) EXCEPT
          !.verdict  = IF closing THEN @ ELSE None,
          !.status   = IF closing THEN "closed" ELSE @,
          !.closedAt = @ \/ closing]

\* Approve and reject: normalise the legacy flag, set the verdict, process it.
Decide(t, verdict) ==
  ProcessVerdict([NormalizeManual(t) EXCEPT !.verdict = verdict])

RoutedLine == <<"routed", "requires">>   \* "Work complete, awaiting <gate>"

\* HandleClose: a tick with a declared gate is parked on it instead of closed.
\* Closing writes the reason, which may be empty, and clears neither awaiting
\* nor verdict.
HandleClose(t, reason) ==
  IF HasRequiredGate(t)
  THEN AddNote(SetAwaiting(t, t.requires), RoutedLine)
  ELSE [t EXCEPT !.status = "closed", !.closedAt = TRUE, !.reason = reason,
                 !.started = FALSE]
=============================================================================
