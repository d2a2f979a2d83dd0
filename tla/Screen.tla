------------------------------- MODULE Screen -------------------------------
(***************************************************************************)
(* The screen of tk tui (internal/tui, cmd/tk/cmd/tui.go): a sidebar of    *)
(* scopes, a content view of the ticks in scope, a detail pane that edits  *)
(* the highlighted tick, and a palette over them.  Keys, reloads of the    *)
(* tracker, and the messages that the palette and the roadmap send to the  *)
(* application interleave: a message arrives some time after the key that  *)
(* sent it, and meanwhile other keys are handled and the ticks change.     *)
(*                                                                         *)
(* "app" is the App value, and an action applies a function to it, as      *)
(* Update does.  How the reload comes about is in module TuiWatch; what a  *)
(* verdict does to a tick is in module Tick.  Texts, owners, labels and    *)
(* dates are left out: no row comes or goes with them.                     *)
(*                                                                         *)
(* A definition named Def_Change is a faulty variant of the Def below it.  *)
(***************************************************************************)
EXTENDS Naturals, SequencesExt

CONSTANTS
  Trackers,    \* the ticks a listing of the tracker may find: functions on ids
  Files,       \* the states a session of before may have left in .tui-state.json
  ByName, ByPriority, ByDate,   \* the ids in the orders the views sort them by
  Widths,      \* the terminal's widths: three panes, two, or one
  Views,       \* the content views, in the order of their keys
  MaxKeys,     \* bound: keys pressed
  MaxMail      \* bound: messages on their way

None    == "none"      \* no tick; no parent
Heading == "PROJECTS"
Ids     == Range(ByName)

ASSUME ScreenAssumption ==
  /\ \A order \in {ByName, ByPriority, ByDate} : order \in Seq(Ids) /\ Range(order) = Ids
  /\ None \notin Ids
  /\ \A T \in Trackers : DOMAIN T # {} /\ DOMAIN T \subseteq Ids
  /\ \A f \in Files : /\ f.view \in Range(Views) /\ f.detailVisible \in BOOLEAN
                      /\ f.focus = "detail" => f.detailVisible   \* as when it was written
  /\ Widths \subseteq {"three", "two", "one"}
  /\ Range(Views) \subseteq {"list", "board", "roadmap", "timeline"} /\ Views[1] = "list"
  /\ MaxKeys \in Nat /\ MaxMail \in Nat

VARIABLES
  app,     \* the application: see NewApp
  mail,    \* the messages on their way to it
  file,    \* .tui-state.json as the session that runs would leave it, but for the folds
  keys

vars == <<app, mail, file, keys>>

-----------------------------------------------------------------------------
(* What is in scope, and in which rows.                                    *)

Kids(ticks, i) == {k \in DOMAIN ticks : ticks[k].parent = i}
IsRoot(ticks, S, i) == ticks[i].parent \notin S

\* The parts of the members of S, one after the other in the given order.
Listed(order, S, part) ==
  LET sofar[n \in 0 .. Len(order)] ==
        IF n = 0 THEN <<>>
        ELSE sofar[n - 1] \o IF order[n] \in S THEN part[order[n]] ELSE <<>>
  IN sofar[Len(order)]
Sorted(order, S) == Listed(order, S, [i \in S |-> <<i>>])

IsReady(ticks, i) ==
  /\ ticks[i].status # "closed" /\ ~ticks[i].awaiting
  /\ \A b \in ticks[i].blockedBy \cap DOMAIN ticks : ticks[b].status = "closed"

\* No line of descent is longer than the number of ids.
Levels == 0 .. Len(ByName)

\* The tick and its descendants, which may lead back to it.
Below(ticks, i) ==
  LET below[n \in Levels] ==
        IF n = 0 THEN {i}
        ELSE LET S == below[n - 1] IN S \cup UNION {Kids(ticks, k) : k \in S}
  IN below[Len(ByName)]

Smart == <<"awaiting", "my", "roadmap", "active", "backlog">>

\* The views pass no owner, and without one nothing is mine.
FilterScope(ticks, scope) ==
  LET all == DOMAIN ticks IN
  CASE scope = "awaiting" -> {i \in all : ticks[i].awaiting}
    [] scope = "my"       -> {}
    [] scope = "roadmap"  -> all
    [] scope = "active"   -> {i \in all : IsReady(ticks, i)}
    [] scope = "backlog"  -> {i \in all : ticks[i].status # "closed" /\ ~IsReady(ticks, i)}
    [] OTHER              -> Below(ticks, scope) \cap all

\* A container with its unfolded containers under it, level by level.
Walks(ticks, shut) ==
  LET walk[n \in Levels] == [i \in DOMAIN ticks |->
        <<i>> \o IF n = 0 \/ i \in shut THEN <<>>
                 ELSE Listed(ByPriority, {k \in Kids(ticks, i) : Kids(ticks, k) # {}}, walk[n - 1])]
  IN walk[Len(ByName)]

Rows(ticks, shut) ==
  LET all   == DOMAIN ticks
      roots == {i \in all : Kids(ticks, i) # {} /\ IsRoot(ticks, all, i)}
  IN Smart \o IF roots = {} THEN <<>>
              ELSE <<Heading>> \o Listed(ByPriority, roots, Walks(ticks, shut))

Row(i, foldable) == [id |-> i, folds |-> foldable]

\* Two levels: the roots of the set, and their children unless folded away.
BuildListItems(ticks, S, folded) ==
  LET kids(i) == Kids(ticks, i) \cap S
      row(i)  == Row(i, ticks[i].epic /\ kids(i) # {})
      rows(i) == <<row(i)>> \o IF row(i).folds /\ i \in folded THEN <<>>
                               ELSE Listed(ByPriority, kids(i), [k \in S |-> <<row(k)>>])
  IN Listed(ByPriority, {i \in S : IsRoot(ticks, S, i)}, [i \in S |-> rows(i)])

Columns == <<"open", "in_progress", "awaiting", "closed">>
Column(t) == IF t.awaiting THEN "awaiting" ELSE t.status

BuildCards(ticks, S) ==
  Listed(Columns, Range(Columns),
         [c \in Range(Columns) |-> Sorted(ByName, {i \in S : Column(ticks[i]) = c})])

\* The order of the waves is in module Queries; a project is a node as an epic is.
EpicOrder(ticks, S) ==
  Sorted(ByPriority, {i \in S : ticks[i].epic
                         \/ \E k \in Kids(ticks, i) \cap S : Kids(ticks, k) \cap S # {}})

Items(ticks, scope, view, folded) ==
  LET S == FilterScope(ticks, scope)
      plain(order) == [n \in DOMAIN order |-> Row(order[n], FALSE)]
  IN CASE view = "list"     -> BuildListItems(ticks, S, folded)
       [] view = "board"    -> plain(BuildCards(ticks, S))
       [] view = "roadmap"  -> plain(EpicOrder(ticks, S))
       [] view = "timeline" -> plain(Sorted(ByDate, S))

-----------------------------------------------------------------------------
(* The parts of App that its handlers share.                               *)

At(items, id) == SelectInSeq(items, LAMBDA r : r.id = id)
IdAt(items, n) == IF n \in DOMAIN items THEN items[n].id ELSE None
Clamp(n, high) == IF n <= high THEN n ELSE IF high = 0 THEN 1 ELSE high

SelectedScope(a) ==
  LET rows == Rows(a.ticks, a.shut) IN IF rows[a.row] = Heading THEN "awaiting" ELSE rows[a.row]

\* The highlighted tick; the timeline alone remembers a place, not a tick.
SelectedTickID(a) ==
  IF a.view = "timeline" THEN IdAt(a.items, a.line) ELSE a.at[a.view]

\* The active view builds its items anew and keeps its selection if it can.
SetScope(a) ==
  LET items == Items(a.ticks, a.scope, a.view, a.folded) IN
  IF a.view = "timeline"
  THEN [a EXCEPT !.items = items, !.line = Clamp(@, Len(items))]
  ELSE [a EXCEPT !.items = items,
                 !.at[a.view] = IF At(items, @) # 0 THEN @ ELSE IdAt(items, 1)]

\* Another tick, or none, resets the pane and cancels what was being typed.
SetTick_KeepsEdit(a, id) == [a EXCEPT !.pane.tick = id]
SetTick(a, id) ==
  IF id = None \/ id # a.pane.tick
  THEN [a EXCEPT !.pane = [tick |-> id, field |-> "status", prompt |-> None, begun |-> None]]
  ELSE a

SyncDetail(a) == SetTick(a, SelectedTickID(a))

ApplyLayout(a) == [a EXCEPT !.detailVisible = @ \/ a.width = "three"]

ReScope_Unsynced(a) == ApplyLayout(SetScope(a))
ReScope(a) == SyncDetail(ApplyLayout(SetScope(a)))

\* In narrow layouts the detail pane takes the place of the content.
SyncDetailVisibility(a) ==
  ApplyLayout([a EXCEPT !.detailVisible = IF a.width = "three" THEN @ ELSE a.focus = "detail"])

\* The panes on screen.
Panes(a) ==
  CASE a.width = "three" -> {"sidebar", "main", "detail"}
    [] a.width = "two"   -> {"sidebar", IF a.detailVisible THEN "detail" ELSE "main"}
    [] a.width = "one"   -> {IF a.detailVisible THEN "detail" ELSE "main"}

\* The sidebar rebuilds its rows and looks for the row it was on.
Restore_ByIndex(a, scope) ==
  LET rows == Rows(a.ticks, a.shut)  n == Clamp(a.row, Len(rows)) IN
  [a EXCEPT !.row = IF rows[n] = Heading THEN n + 1 ELSE n]
Restore(a, scope) ==
  LET rows == Rows(a.ticks, a.shut)
      n    == Clamp(a.row, Len(rows))
      same == SelectInSeq(rows, LAMBDA r : r = scope /\ r # Heading)
  IN [a EXCEPT !.row = IF same # 0 THEN same ELSE IF rows[n] = Heading THEN n + 1 ELSE n]

SetTicks(a, ticks) == Restore([a EXCEPT !.ticks = ticks], SelectedScope(a))

\* New ticks, or an edited one: the sidebar, then the scope, then the rest.
Refresh(a, ticks) ==
  LET b == SetTicks(a, ticks) IN ReScope([b EXCEPT !.scope = SelectedScope(b)])

\* A key in the detail pane: the scope and the pane stay as they are.
AfterDetailEdit(a, ticks) == SetScope(SetTicks(a, ticks))

Focus(a, zone) == [a EXCEPT !.focus = zone]

-----------------------------------------------------------------------------
(* A session                                                               *)

DefaultState ==
  [view |-> "list", scope |-> "awaiting", focus |-> "sidebar", detailVisible |-> FALSE,
   shut |-> {}]

NewApp(ticks) ==
  ReScope([ticks |-> ticks, width |-> "one", focus |-> "sidebar", detailVisible |-> FALSE,
           scope |-> "awaiting", row |-> 1, shut |-> {},
           view |-> "list", items |-> <<>>, folded |-> {}, line |-> 1,
           at |-> [v \in {"list", "board", "roadmap"} |-> None],
           pane |-> [tick |-> None, field |-> "status", prompt |-> None, begun |-> None],
           offers |-> {}])

ApplyState(a, f) ==
  ReScope(Restore([a EXCEPT !.view = f.view, !.scope = f.scope, !.shut = f.shut,
                            !.focus = f.focus, !.detailVisible = f.detailVisible], f.scope))

ExtractState(a) ==
  [view |-> a.view, scope |-> a.scope, focus |-> a.focus,
   detailVisible |-> a.detailVisible, shut |-> a.shut]

\* Run returns the application as it is at the end, and runTUI drops it.  What
\* it saves is the one it started, which shares with the other only the folds.
SaveState(a) == [file EXCEPT !.shut = a.shut]

\* The terminal tells its width once the program runs.
Session(ticks, width, f) ==
  ApplyLayout([ApplyState(NewApp(ticks), f) EXCEPT !.width = width])

Begins(ticks, width, f) ==
  /\ app' = Session(ticks, width, f)
  /\ file' = ExtractState(ApplyState(NewApp(ticks), f))
  /\ mail' = EmptyBag

Init ==
  /\ \E T \in Trackers, w \in Widths, f \in Files :
       /\ app = Session(T, w, f)
       /\ file = ExtractState(ApplyState(NewApp(T), f))
  /\ mail = EmptyBag /\ keys = 0

\* In the palette and in a prompt every key is text, but for the few they know.
Typing == app.focus = "detail" /\ app.pane.prompt # None
Free   == app.focus # "palette" /\ ~Typing

Press(a) == keys < MaxKeys /\ keys' = keys + 1 /\ app' = a /\ UNCHANGED file
Key(a)   == Press(a) /\ UNCHANGED mail

Send(a, message) ==
  /\ BagCardinality(mail) < MaxMail
  /\ mail' = mail (+) SetToBag({message})
  /\ Press(a)

Quit(T) ==
  /\ Free
  /\ keys < MaxKeys /\ keys' = keys + 1
  /\ Begins(T, app.width, SaveState(app))

Kill(T) ==
  /\ keys < MaxKeys /\ keys' = keys + 1
  /\ Begins(T, app.width, file)

Resize ==
  \E w \in Widths \ {app.width} : Key(ApplyLayout([app EXCEPT !.width = w]))

\* A reload, unless it failed or found no tick (module TuiWatch).
Reload(T) ==
  /\ app' = Refresh(app, T)
  /\ UNCHANGED <<mail, file, keys>>

-----------------------------------------------------------------------------
(* Keys that work everywhere, and those of the sidebar                     *)

Zones == <<"sidebar", "main", "detail">>

Tab ==
  /\ Free
  /\ \E zone \in Range(Zones) \ {app.focus} : Key(SyncDetailVisibility(Focus(app, zone)))

ViewHotkey ==
  /\ Free
  /\ \E view \in Range(Views) : Key(ReScope([app EXCEPT !.view = view]))

\* A row up or down, past the heading; or the first or the last one.
MoveRow ==
  LET rows == Rows(app.ticks, app.shut)
      real == {n \in DOMAIN rows : rows[n] # Heading}
      near == {n \in real : \A m \in real : ~(app.row < m /\ m < n) /\ ~(n < m /\ m < app.row)}
  IN
  /\ Free /\ app.focus = "sidebar"
  /\ \E n \in (near \cup {1, Len(rows)}) \ {app.row} :
       LET b == [app EXCEPT !.row = n] IN Key(ReScope([b EXCEPT !.scope = SelectedScope(b)]))

Toggled(S, i) == IF i \in S THEN S \ {i} ELSE S \cup {i}

ToggleNode ==
  /\ Free /\ app.focus = "sidebar"
  /\ LET i == SelectedScope(app) IN
     /\ i \in DOMAIN app.ticks
     /\ Key(Restore([app EXCEPT !.shut = Toggled(@, i)], i))

-----------------------------------------------------------------------------
(* Keys of the content views                                               *)

MovedTo(a, n) ==
  SyncDetail(IF a.view = "timeline" THEN [a EXCEPT !.line = n]
             ELSE [a EXCEPT !.at[a.view] = a.items[n].id])

Here == IF app.view = "timeline" THEN app.line ELSE At(app.items, app.at[app.view])

\* The first card of the column to the left or to the right.
ColumnsAside ==
  LET column(n) == Column(app.ticks[app.items[n].id])
      aside == {c \in 1 .. Len(Columns) - 1 : column(Here) \in {Columns[c], Columns[c + 1]}}
      next  == {Columns[c] : c \in aside} \cup {Columns[c + 1] : c \in aside}
  IN {n \in DOMAIN app.items : /\ column(n) \in next \ {column(Here)}
                               /\ \A m \in 1 .. n - 1 : column(m) # column(n)}

Move ==
  /\ Free /\ app.focus = "main" /\ app.items # <<>>
  /\ \E n \in {Here - 1, Here + 1, 1, Len(app.items)}
              \cup (IF app.view = "board" THEN ColumnsAside ELSE {}) :
       n \in DOMAIN app.items \ {Here} /\ Key(MovedTo(app, n))

\* A key the view has no use for, or a move past an end.
OtherKey == Free /\ app.focus = "main" /\ Key(SyncDetail(app))

\* Enter shows the detail pane where there is no room for both.
EnterDetail ==
  /\ Free /\ app.focus = "main" /\ app.width # "three"
  /\ Key(SyncDetailVisibility(Focus(app, "detail")))

\* The rows are built anew from the rows there are, without the folded ones.
Rebuilt(a) ==
  [a EXCEPT !.items = BuildListItems(a.ticks, {@[n].id : n \in DOMAIN @}, a.folded)]

ToggleEpic ==
  /\ Free /\ app.focus = "main" /\ app.view = "list" /\ app.items # <<>>
  /\ app.items[Here].folds
  /\ Key(SyncDetail(Rebuilt([app EXCEPT !.folded = Toggled(@, app.at["list"])])))

\* Enter on the roadmap, where Enter is the view's.
EnterEpic ==
  /\ Free /\ app.focus = "main" /\ app.width = "three"
  /\ app.view = "roadmap" /\ app.items # <<>>
  /\ Send(SyncDetail(app), <<"epic", app.at["roadmap"]>>)

-----------------------------------------------------------------------------
(* Keys of the detail pane.  The file may have changed since it was shown, *)
(* or be gone: then the edit fails.                                        *)

OnDisk(i) == {app.ticks[i]} \cup {T[i] : T \in {T \in Trackers : i \in DOMAIN T}}

Fields == {"status", "owner", "parent"}   \* owner stands for what no view depends on

InDetail == app.focus = "detail" /\ app.pane.tick # None

\* A prompt for a blocker stays one when another prompt opens over it.
OpenInput(a, kind) ==
  [a EXCEPT !.pane.prompt = IF @ = "blocker" THEN @ ELSE kind, !.pane.begun = a.pane.tick]
Cancelled(a) == [a EXCEPT !.pane.prompt = None, !.pane.begun = None]

\* The edited tick is mirrored; a failed edit changes no tick.
DetailEdit(a, ticks) == Key(AfterDetailEdit(a, ticks))
With(i, t) == [app.ticks EXCEPT ![i] = t]

OtherField ==
  /\ InDetail /\ ~Typing
  /\ \E f \in Fields : DetailEdit([app EXCEPT !.pane.field = f], app.ticks)

NextStatus == [open |-> "in_progress", in_progress |-> "closed", closed |-> "open"]

CycleStatus ==
  /\ InDetail /\ ~Typing /\ app.pane.field = "status"
  /\ LET i == app.pane.tick IN
     \E now \in OnDisk(i) :
       DetailEdit(app, With(i, [now EXCEPT !.status = NextStatus[app.ticks[i].status]]))

BeginEdit ==
  /\ InDetail /\ ~Typing /\ app.pane.field # "status"
  /\ DetailEdit(OpenInput(app, "text"), app.ticks)

Edited(t, pane, text) ==
  IF pane.prompt = "blocker" THEN [t EXCEPT !.blockedBy = @ \cup ({text} \ {None})]
  ELSE IF pane.field = "parent" THEN [t EXCEPT !.parent = text]
  ELSE t

CommitEdit ==
  /\ InDetail /\ Typing
  /\ LET i == app.pane.tick IN
     \E text \in Ids \cup {None}, now \in OnDisk(i) :
       DetailEdit(Cancelled(app), With(i, Edited(now, app.pane, text)))

\* Escape, or an edit that finds the file gone.
CancelEdit == InDetail /\ Typing /\ DetailEdit(Cancelled(app), app.ticks)

\* With no tick to edit, or no prompt to cancel, Escape goes back.
LeaveDetail ==
  /\ Free /\ app.focus = "detail" /\ app.width # "three"
  /\ Key(SyncDetailVisibility(Focus(app, "main")))

-----------------------------------------------------------------------------
(* The palette.  Its keys send messages; it stays until one arrives.       *)

PaletteEdits == {"verdict", "open", "in_progress", "closed", "priority", "reassign", "blocker"}

\* Ctrl-K: the candidates are the ticks of this moment.
OpenPalette ==
  /\ Free
  /\ Key([Focus(app, "palette") EXCEPT !.offers = DOMAIN app.ticks])

Candidates ==
  ({"jump"} \X app.offers) \cup ({"view"} \X Range(Views)) \cup ({"edit"} \X PaletteEdits)

Confirm ==
  /\ app.focus = "palette"
  /\ \E candidate \in Candidates \cup {<<"close", None>>} : Send(app, candidate)

Delivered(kind, arg) ==
  /\ BagIn(<<kind, arg>>, mail)
  /\ mail' = mail (-) SetToBag({<<kind, arg>>})
  /\ UNCHANGED <<file, keys>>

Close == Delivered("close", None) /\ app' = Focus(app, "main")

\* jumpToEpicMsg: the sidebar's cursor moves only if the epic has a row there.
JumpToEpic(i) ==
  /\ Delivered("epic", i)
  /\ app' = Focus(ReScope([Restore(app, i) EXCEPT !.scope = i, !.view = "list"]), "main")

\* JumpTo unfolds all epics of the list and looks again among its rows.
JumpTo(a, i) ==
  IF At(a.items, i) # 0 THEN [a EXCEPT !.at["list"] = i]
  ELSE Rebuilt([a EXCEPT !.folded = {}])

PaletteJump(i) ==
  /\ Delivered("jump", i)
  /\ app' = Focus(SyncDetail(JumpTo(ReScope([app EXCEPT !.view = "list"]), i)), "main")

SwitchView(view) ==
  /\ Delivered("view", view)
  /\ app' = Focus(ReScope([app EXCEPT !.view = view]), "main")

\* What an edit may make of a tick; approve and reject fail without a gate.
Outcomes(t, edit) ==
  CASE edit = "priority" -> {t}
    [] edit = "verdict"  -> {[t EXCEPT !.awaiting = FALSE, !.status = s] :
                               s \in IF t.awaiting THEN {t.status, "closed"} ELSE {}}
    [] OTHER             -> {[t EXCEPT !.status = edit]}

\* openDetailEdit and the prompt for a blocker.
OpenDetailEdit_Hidden(a, i, edit) ==
  LET b == SyncDetailVisibility(SetTick(a, i)) IN
  OpenInput([Focus(b, "detail") EXCEPT !.pane.field = IF edit = "reassign" THEN "owner" ELSE @],
            IF edit = "reassign" THEN "text" ELSE "blocker")
OpenDetailEdit(a, i, edit) ==
  LET b == SyncDetailVisibility(Focus(SetTick(a, i), "detail")) IN
  OpenInput([b EXCEPT !.pane.field = IF edit = "reassign" THEN "owner" ELSE @],
            IF edit = "reassign" THEN "text" ELSE "blocker")

PaletteEdit(edit) ==
  LET i == SelectedTickID(app) IN
  /\ Delivered("edit", edit)
  /\ \/ app' = Focus(app, "main") /\ (i = None \/ edit \notin {"reassign", "blocker"})
     \/ i # None /\ edit \in {"reassign", "blocker"} /\ app' = OpenDetailEdit(app, i, edit)
     \/ /\ i # None /\ edit \notin {"reassign", "blocker"}
        /\ \E now \in OnDisk(i) : \E t \in Outcomes(now, edit) :
             app' = Focus(Refresh(app, With(i, t)), "main")

-----------------------------------------------------------------------------
Next ==
  \/ \E T \in Trackers : Reload(T) \/ Quit(T) \/ Kill(T)
  \/ Resize \/ Tab \/ ViewHotkey \/ MoveRow \/ ToggleNode
  \/ Move \/ OtherKey \/ EnterDetail \/ ToggleEpic \/ EnterEpic
  \/ OtherField \/ CycleStatus \/ BeginEdit \/ CommitEdit \/ CancelEdit \/ LeaveDetail
  \/ OpenPalette \/ Confirm \/ Close
  \/ \E i \in Ids : JumpToEpic(i) \/ PaletteJump(i)
  \/ \E view \in Range(Views) : SwitchView(view)
  \/ \E edit \in PaletteEdits : PaletteEdit(edit)

Spec == Init /\ [][Next]_vars

-----------------------------------------------------------------------------
(***************************************************************************)
(* Properties                                                              *)
(***************************************************************************)

Mirrors == app.pane.tick = SelectedTickID(app)

\* Text is saved to the tick it was begun for, or to none: whatever is reloaded,
\* moved or switched while a prompt is open.  (detail.SetTick, view_detail.go:115.)
TextGoesHome == app.pane.prompt # None => app.pane.tick = app.pane.begun

\* Keys that edit act on a tick that can be seen.  (syncDetailVisibility,
\* app.go:387.)
EditIsVisible == app.focus = "detail" => "detail" \in Panes(app)

\* The detail pane comes to show a tick only as the highlighted one, and parts
\* from it only by an edit made in the pane itself.  (syncDetail, app.go:412.)
DetailMirrors ==
  [][/\ app'.pane.tick # app.pane.tick => Mirrors'
     /\ Mirrors /\ ~Mirrors' => app.focus = "detail" /\ app'.ticks # app.ticks]_vars

\* A reload leaves the reader where he was: the scope if it still has its row, the
\* tick if it is still in scope, and with it the text being typed.  (SetTicks of
\* the sidebar, SetScope of the views.)
ReloadKeepsPlace ==
  [][\A T \in Trackers : Reload(T) =>
       LET tick == SelectedTickID(app) IN
       /\ app.scope = SelectedScope(app) /\ app.scope \in Range(Rows(T, app.shut))
            => app'.scope = app.scope
       /\ app.view # "timeline" /\ At(app'.items, tick) # 0
            => /\ SelectedTickID(app') = tick
               /\ Mirrors => app'.pane = app.pane]_vars

\* The state of the screen survives a session: tk tui, left and started again on
\* the same ticks, shows the same view of the same scope.  (state.go:17.)
RestartKeepsPlace ==
  [][\A T \in Trackers : Quit(T) /\ T = app.ticks =>
       /\ app'.view = app.view
       /\ app.scope \in Range(Rows(T, app.shut)) => app'.scope = app.scope]_vars
=============================================================================
