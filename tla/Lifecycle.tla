------------------------------ MODULE Lifecycle ------------------------------
(***************************************************************************)
(* The lifecycle of ticks under every command that moves one: tk update,   *)
(* close, reopen, approve and reject (cmd/tk/cmd), the edits of the        *)
(* terminal UI (internal/tui/edit.go) and the handlers of the board server *)
(* (internal/tickboard/server/server.go), with the guard that keeps a      *)
(* runner from clearing a human's gate (verdictguard.go) and the line that *)
(* each write leaves in the activity log (store.go).                       *)
(*                                                                         *)
(* One command is one step: the races of two commands on one file are the  *)
(* subject of TickStore.  The exception is tk close --force on an epic     *)
(* with open children, which writes one file per child, and then its own:  *)
(* its steps are separate, and it can die between them.                    *)
(*                                                                         *)
(* Note lines are dropped: a write only says whether it adds one.  An      *)
(* actor is "runner" when isAgentActor says so and "human" otherwise, an   *)
(* empty TK_ACTOR included; the terminal UI and the board act for a human. *)
(*                                                                         *)
(* A definition named Def_Change is a faulty variant of the Def below it.  *)
(* No specification uses it; it is there to show that a property can fail. *)
(***************************************************************************)
EXTENDS Tick

CONSTANTS
  Ticks,
  Epics,       \* the ticks of type epic
  Parent,      \* Parent[t]: the epic t is a child of, or None
  Gates,       \* the gates ticks are created with, None included
  Parks,       \* the awaiting states ticks are created in, None included
  Legacy,      \* whether files may hold the deprecated manual flag
  Updates,     \* the flag combinations tk update is called with
  Surfaces,    \* which of "cli", "tui" and "board" are in use
  Isolated     \* no other command runs during a forced close of an epic

Unset == "unset"    \* a flag of tk update that is not given

\* The flags of tk update that touch the lifecycle; None clears the field.
Flags == [status   : Status \cup {Unset},
          manual   : {"true", "false", Unset},
          requires : Requires \cup {None, Unset},
          awaiting : Awaiting \cup {None, Unset},
          verdict  : Verdict \cup {Unset}]

ASSUME LifecycleAssumption ==
  /\ Epics \subseteq Ticks
  /\ Parent \in [Ticks -> Epics \cup {None}]
  /\ None \notin Ticks
  /\ Gates \subseteq Requires \cup {None}
  /\ Parks \subseteq Awaiting \cup {None}
  /\ Legacy \in BOOLEAN
  /\ Updates \subseteq Flags
  /\ Surfaces \subseteq {"cli", "tui", "board"}
  /\ Isolated \in BOOLEAN

Actors == {"human", "runner"}
From   == {"", "human"}         \* --from; "agent" is always refused

VARIABLES
  ticks,      \* ticks[t]: the tick file
  cascade,    \* the forced close of an epic under way, or NoCascade
  by,         \* the actor the last command acted for
  logged,     \* the lines the last command appended to the activity log
  via         \* how the last command came: see Ways

vars == <<ticks, cascade, by, logged, via>>

TickFile == TickRecord({})

Actions == {"close", "reopen", "start", "update", "approve", "reject", "awaiting", "note"}
Line    == [tick : Ticks, action : Actions, actor : Actors]

\* A command of tk, tk update --verdict, the terminal UI or the board.
Ways    == {"tk", "flag", "tui", "board"}

NoCascade == [epic |-> None]
\* epic, copy: the epic and the file read for it; left: the children still to
\* close, as they were listed; closed: those closed so far; who, from: the
\* caller; actor: whom the children's log lines name.
Cascade(left) ==
  [epic : Epics, copy : TickFile, left : [left -> TickFile],
   closed : SUBSET Ticks, who : Actors, from : From, actor : Actors]

TypeOK ==
  /\ ticks \in [Ticks -> TickFile]
  /\ cascade = NoCascade \/ \E left \in SUBSET Ticks : cascade \in Cascade(left)
  /\ by \in Actors
  /\ logged \subseteq Line
  /\ via \in Ways

\* tk create, or an old file.
Fresh(c) == [NewTick(c.requires) EXCEPT !.awaiting = c.awaiting, !.manual = c.manual]
Created ==
  {Fresh(c) : c \in [requires : Gates, awaiting : Parks, manual : {FALSE, Legacy}]}

Init ==
  /\ ticks \in [Ticks -> Created]
  /\ cascade = NoCascade
  /\ by = "human"
  /\ logged = {}
  /\ via = "tk"

-----------------------------------------------------------------------------
\* detectChange: the action a write is logged as, or None.  noted: it adds a note.
DetectChange(old, new, noted) ==
  CASE old.status # new.status ->
         (CASE new.status = "closed"      -> "close"
            [] new.status = "in_progress" -> "start"
            [] old.status = "closed" /\ new.status = "open" -> "reopen"
            [] OTHER                      -> "update")
    [] old.status = new.status /\ new.verdict \notin {None, old.verdict} ->
         IF new.verdict = "approved" THEN "approve" ELSE "reject"
    [] OTHER ->
         IF GetAwaitingType(new) \notin {None, GetAwaitingType(old)} THEN "awaiting"
         ELSE IF noted THEN "note" ELSE None

LogLine(t, action, actor) ==
  IF action = None THEN {} ELSE {[tick |-> t, action |-> action, actor |-> actor]}

Bare(t) == [t EXCEPT !.notes = <<>>]

Write(t, new, actor, lines) ==
  /\ ticks'  = [ticks EXCEPT ![t] = Bare(new)]
  /\ by'     = actor
  /\ logged' = lines

\* WriteAs: the file is replaced, and what changed is logged.
WriteAs(t, new, noted, actor) ==
  Write(t, new, actor, LogLine(t, DetectChange(ticks[t], new, noted), actor))

\* os.WriteFile, as the board does it: nothing is logged.
WriteSilently(t, new) == Write(t, new, "human", {})

\* resolveVerdictActor: who may clear a gate, and whom the log then names.
MayDecide(who, from) == from = "human" \/ who = "human"
Stamp_Caller(who, from) == who

Stamp(who, from) == IF from = "human" THEN "human" ELSE who

Free(surface) == surface \in Surfaces /\ (Isolated => cascade = NoCascade)

-----------------------------------------------------------------------------
\* tk update.  The flags are applied in this order, whatever theirs was.

WithStatus(t, status) ==
  CASE status = Unset         -> t
    [] status = "in_progress" ->
         [IF t.status = "in_progress" THEN t ELSE Start(t)
            EXCEPT !.closedAt = FALSE, !.reason = FALSE]
    [] status = "open"        -> [Release(t) EXCEPT !.closedAt = FALSE, !.reason = FALSE]
    [] status = "closed"      -> [t EXCEPT !.status = "closed", !.closedAt = TRUE]

WithManual(t, f) ==
  CASE f.manual = "true" /\ f.awaiting = Unset -> SetAwaiting(t, "work")
    [] f.manual = "false"                      -> ClearAwaiting(t)
    [] OTHER                                   -> t

WithRequires(t, f) ==
  IF f.requires = Unset THEN t ELSE [t EXCEPT !.requires = f.requires]

WithAwaiting(t, f) ==
  IF f.awaiting = Unset THEN t ELSE SetAwaiting(t, f.awaiting)

WithVerdict(t, f) ==
  IF f.verdict = Unset THEN t ELSE ProcessVerdict([t EXCEPT !.verdict = f.verdict])

Updated(t, f) ==
  WithVerdict(WithAwaiting(WithRequires(WithManual(WithStatus(t, f.status), f), f), f), f)

Update(t, f, who, from) ==
  /\ Free("cli")
  /\ f.verdict # Unset => MayDecide(who, from)
  /\ WriteAs(t, Updated(ticks[t], f), FALSE,
             IF f.verdict = Unset THEN who ELSE Stamp(who, from))
  /\ UNCHANGED cascade

\* tk approve.  An approval that does not close the tick is logged explicitly.
Approve_Unlogged(t, who, from) ==
  /\ Free("cli")
  /\ IsAwaitingHuman(ticks[t])
  /\ MayDecide(who, from)
  /\ WriteAs(t, Decide(ticks[t], "approved"), FALSE, Stamp(who, from))
  /\ UNCHANGED cascade

Approve(t, who, from) ==
  LET new      == Decide(ticks[t], "approved")
      closes   == Closes(GetAwaitingType(ticks[t]), "approved")
      actor    == Stamp(who, from)
      inferred == LogLine(t, DetectChange(ticks[t], new, FALSE), actor)
      explicit == IF closes THEN {} ELSE LogLine(t, "approve", actor) IN
  /\ Free("cli")
  /\ IsAwaitingHuman(ticks[t])
  /\ MayDecide(who, from)
  /\ Write(t, new, actor, inferred \cup explicit)
  /\ UNCHANGED cascade

\* tk reject, with its feedback note.
Reject(t, who, from) ==
  /\ Free("cli")
  /\ IsAwaitingHuman(ticks[t])
  /\ MayDecide(who, from)
  /\ WriteAs(t, Decide(ticks[t], "rejected"), TRUE, Stamp(who, from))
  /\ UNCHANGED cascade

\* tk reopen: of any tick, and neither awaiting nor verdict is reset.
Reopen(t, who) ==
  /\ Free("cli")
  /\ WriteAs(t, [Release(ticks[t]) EXCEPT !.closedAt = FALSE, !.reason = FALSE], FALSE, who)
  /\ UNCHANGED cascade

-----------------------------------------------------------------------------
\* tk close.
OpenChildren(e) == {c \in Ticks : Parent[c] = e /\ ticks[c].status # "closed"}

\* A close past a gate, and of the children of a forced close.
ForceClosed(t, reason) ==
  [ClearAwaiting(t) EXCEPT !.status = "closed", !.closedAt = TRUE,
                           !.reason = reason, !.verdict = None]

\* closeClearsGate: this close is a decision only a human takes.
ClearsGate_OnlyForced(t, force) == force /\ (HasRequiredGate(t) \/ IsAwaitingHuman(t))

ClearsGate(t, force) ==
  \/ force /\ (HasRequiredGate(t) \/ IsAwaitingHuman(t))
  \/ IsAwaitingHuman(t) /\ ~HasRequiredGate(t)

MayClose(t, who, from, force) == ClearsGate(t, force) => MayDecide(who, from)

\* The last part of the command, on the copy it read: past the gate, or routed
\* to the human the gate names, or closed.
CloseOwn(t, copy, who, from, force, reason) ==
  LET bypass == force /\ HasRequiredGate(copy)
      routed == ~bypass /\ HasRequiredGate(copy) IN
  WriteAs(t, IF bypass THEN ForceClosed(copy, reason) ELSE HandleClose(copy, reason),
          routed, IF ClearsGate(copy, force) THEN Stamp(who, from) ELSE who)

Close(t, who, from, force, reason) ==
  /\ Free("cli")
  /\ t \in Epics => OpenChildren(t) = {}
  /\ MayClose(ticks[t], who, from, force)
  /\ CloseOwn(t, ticks[t], who, from, force, reason)
  /\ UNCHANGED cascade

\* tk close --force on an epic with open children: read and check them all ...
Gated_Awaiting(t) == IsAwaitingHuman(t)
Gated(t) == IsAwaitingHuman(t) \/ HasRequiredGate(t)

StartCascade(e, who, from) ==
  LET open  == OpenChildren(e)
      gated == \E c \in open : Gated(ticks[c]) IN
  /\ Free("cli")
  /\ cascade = NoCascade
  /\ open # {}
  /\ gated => MayDecide(who, from)
  /\ cascade' = [epic |-> e, copy |-> ticks[e], left |-> [c \in open |-> ticks[c]],
                 closed |-> {}, who |-> who, from |-> from,
                 actor |-> IF gated THEN Stamp(who, from) ELSE who]
  /\ UNCHANGED <<ticks, by, logged>>

\* ... close them one by one, as they were when listed ...
CascadeChild(c) ==
  /\ cascade # NoCascade
  /\ c \in DOMAIN cascade.left
  /\ WriteAs(c, ForceClosed(cascade.left[c], TRUE), FALSE, cascade.actor)
  /\ cascade' = [cascade EXCEPT !.closed = @ \cup {c},
                   !.left = [d \in DOMAIN cascade.left \ {c} |-> cascade.left[d]]]

\* ... then the epic, if its own gate lets the caller; ...
CascadeEpic_Early(reason) ==
  /\ cascade # NoCascade
  /\ MayClose(cascade.copy, cascade.who, cascade.from, TRUE)
  /\ CloseOwn(cascade.epic, cascade.copy, cascade.who, cascade.from, TRUE, reason)
  /\ cascade' = NoCascade

CascadeEpic(reason) ==
  /\ cascade # NoCascade
  /\ DOMAIN cascade.left = {}
  /\ MayClose(cascade.copy, cascade.who, cascade.from, TRUE)
  /\ CloseOwn(cascade.epic, cascade.copy, cascade.who, cascade.from, TRUE, reason)
  /\ cascade' = NoCascade

\* ... otherwise the command is refused here.
CascadeRefused ==
  /\ cascade # NoCascade
  /\ DOMAIN cascade.left = {}
  /\ ~MayClose(cascade.copy, cascade.who, cascade.from, TRUE)
  /\ cascade' = NoCascade
  /\ UNCHANGED <<ticks, by, logged>>

\* A write fails, or the command is killed.
CascadeStops ==
  /\ cascade # NoCascade
  /\ cascade' = NoCascade
  /\ UNCHANGED <<ticks, by, logged>>

-----------------------------------------------------------------------------
\* The terminal UI.  Approving leaves no explicit line; rejecting may leave no note.
TuiSetStatus(t, status) ==
  /\ Free("tui")
  /\ WriteAs(t, [ticks[t] EXCEPT !.status = status, !.closedAt = (status = "closed"),
                                 !.reason = @ /\ status = "closed"], FALSE, "human")
  /\ UNCHANGED cascade

TuiClose(t, reason) ==
  /\ Free("tui")
  /\ WriteAs(t, [ticks[t] EXCEPT !.status = "closed", !.closedAt = TRUE,
                                 !.reason = @ \/ reason], FALSE, "human")
  /\ UNCHANGED cascade

TuiReopen(t) ==
  /\ Free("tui")
  /\ WriteAs(t, [ticks[t] EXCEPT !.status = "open", !.closedAt = FALSE,
                                 !.reason = FALSE], FALSE, "human")
  /\ UNCHANGED cascade

TuiDecide(t, verdict, noted) ==
  /\ Free("tui")
  /\ IsAwaitingHuman(ticks[t])
  /\ noted => verdict = "rejected"
  /\ WriteAs(t, Decide(ticks[t], verdict), noted, "human")
  /\ UNCHANGED cascade

\* The board server.
BoardDecide(t, verdict) ==
  /\ Free("board")
  /\ IsAwaitingHuman(ticks[t])
  /\ WriteSilently(t, Decide(ticks[t], verdict))
  /\ UNCHANGED cascade

BoardUpdate(t, requires) ==
  /\ Free("board")
  /\ ticks[t].status = "open"
  /\ WriteSilently(t, [ticks[t] EXCEPT !.requires = requires])
  /\ UNCHANGED cascade

BoardClose(t, reason) ==
  /\ Free("board")
  /\ ticks[t].status = "open"
  /\ ~HasRequiredGate(ticks[t])
  /\ WriteSilently(t, [ticks[t] EXCEPT !.status = "closed", !.closedAt = TRUE,
                                       !.reason = @ \/ reason])
  /\ UNCHANGED cascade

BoardReopen_KeepStamp(t) ==
  /\ Free("board")
  /\ ticks[t].status = "closed"
  /\ WriteSilently(t, [ticks[t] EXCEPT !.status = "open", !.reason = FALSE,
                                       !.awaiting = None, !.verdict = None])
  /\ UNCHANGED cascade

BoardReopen(t) ==
  /\ Free("board")
  /\ ticks[t].status = "closed"
  /\ WriteSilently(t, [ticks[t] EXCEPT !.status = "open", !.closedAt = FALSE,
                          !.reason = FALSE, !.awaiting = None, !.verdict = None])
  /\ UNCHANGED cascade

-----------------------------------------------------------------------------
Cli ==
  \E who \in Actors, from \in From :
    \/ \E t \in Ticks :
         \/ \E f \in Updates : f.verdict = Unset /\ Update(t, f, who, from)
         \/ Approve(t, who, from)
         \/ Reject(t, who, from)
         \/ Reopen(t, who)
         \/ \E force, reason \in BOOLEAN : Close(t, who, from, force, reason)
    \/ \E e \in Epics : StartCascade(e, who, from)

VerdictFlag ==
  \E who \in Actors, from \in From, t \in Ticks, f \in Updates :
    f.verdict # Unset /\ Update(t, f, who, from)

CascadeStep ==
  \/ \E c \in Ticks : CascadeChild(c)
  \/ \E reason \in BOOLEAN : CascadeEpic(reason)
  \/ CascadeRefused
  \/ CascadeStops

Tui ==
  \E t \in Ticks :
    \/ \E status \in Status : TuiSetStatus(t, status)
    \/ \E reason \in BOOLEAN : TuiClose(t, reason)
    \/ TuiReopen(t)
    \/ \E verdict \in Verdict, noted \in BOOLEAN : TuiDecide(t, verdict, noted)

Board ==
  \E t \in Ticks :
    \/ \E verdict \in Verdict : BoardDecide(t, verdict)
    \/ \E requires \in Gates : BoardUpdate(t, requires)
    \/ \E reason \in BOOLEAN : BoardClose(t, reason)
    \/ BoardReopen(t)

Next ==
  \/ (Cli \/ CascadeStep) /\ via' = "tk"
  \/ VerdictFlag /\ via' = "flag"
  \/ Tui /\ via' = "tui"
  \/ Board /\ via' = "board"

Spec == Init /\ [][Next]_vars

-----------------------------------------------------------------------------
\* Who a tick is with.
Holder(t) ==
  IF t.status = "closed" THEN "done"
  ELSE IF IsAwaitingHuman(t) THEN "human" ELSE "agent"

Promise == INSTANCE Handoff WITH
  holder <- [t \in Ticks |-> Holder(ticks[t])],
  gated  <- {t \in Ticks : HasRequiredGate(ticks[t])}

(***************************************************************************)
(* Properties.                                                             *)
(***************************************************************************)

\* A tick carries a closing time exactly while it is closed, and a closing
\* reason only then: a dozen writers on three surfaces keep them together.
ClosedStamp ==
  \A t \in Ticks : /\ ticks[t].closedAt <=> ticks[t].status = "closed"
                   /\ ticks[t].reason => ticks[t].status = "closed"

\* started_at is what tells a live claim from a stale one: a tick in progress
\* has it, and an open tick has none left over from an earlier claim.
StartedStamp ==
  \A t \in Ticks : /\ ticks[t].status = "in_progress" => ticks[t].started
                   /\ ticks[t].status = "open" => ~ticks[t].started

\* Whatever commands are run, in whatever order, a runner neither takes a tick
\* from the human it waits for, nor finishes a gated tick, nor drops a gate.
ImplementsHandoff == Promise!Spec

\* Every step that takes an unfinished tick from a human leaves a line of a
\* human on that tick in the activity log, where an audit looks for it, with two
\* exceptions: the board logs nothing, and tk update --verdict and the terminal
\* UI log nothing of a decision that leaves the status as it is, when nothing in
\* the file tells it from no change (the UI's rejection can leave its note).
DecisionLogged ==
  [][\A t \in Ticks : Holder(ticks[t]) = "human" /\ Holder(ticks'[t]) # "human"
       => \/ \E line \in logged' : line.tick = t /\ line.actor = "human"
          \/ via' = "board"
          \/ via' \in {"flag", "tui"} /\ ticks'[t].status = ticks[t].status]_vars

\* A runner closes the epic it names only when no child of it is left open.  (An
\* epic that falls as a child of another one is closed above its own children.)
EpicLast ==
  [][\A e \in Epics :
       ticks[e].status # "closed" /\ ticks'[e].status = "closed"
         /\ cascade.epic \in {None, e} /\ by' = "runner"
       => OpenChildren(e) = {}]_vars
=============================================================================
