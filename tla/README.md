# ticks: a verification project

`tk` is an issue tracker that lives in a git repository: one JSON file per tick
under `.tick/issues`, one per pending operator question under `.tick/pending`, an
append-only activity log, and no daemon. Every command is a process of its own;
a board server and a terminal UI watch the same files. Nothing but the files
connects them, so what can go wrong is what happens between a read and a write.

This directory holds TLA+ models of that system, TLC configurations that check
them on small instances, and TLAPS proofs of the main results for every instance.

## 1. Inventory

| Component | State | Operations | Hard behaviour |
|---|---|---|---|
| Operator questions (`internal/operator`, `ask.go`, `answer.go`) | `.tick/pending/*.json`, `.apply.lock`, the tick asked about | register, resolve, apply, await, collect, withdraw, mark delivered | races of resolvers, crash between tick write and stamp, writers outside the lock, several questions on one tick |
| Tick record (`internal/tick/{tick,verdict,close}.go`) | status, requires, awaiting, manual, verdict, timestamps, notes | start, release, set/clear awaiting, process verdict, handle close | combinations of fields |
| Lifecycle commands (`close`, `approve`, `reject`, `reopen`, `update`, `next`) | one tick, and an epic's children | as named, guarded by `verdictguard.go` | gates bypassed, an epic closed half way |
| Tick store (`internal/tick/store.go`) | issue files, activity log | read, write (temp file + rename), log | read-modify-write without a lock |
| Ids and create (`id.go`, `create.go`) | issue files, `config.json` | generate, create | check-then-write |
| Dependencies, delete (`block`, `unblock`, `delete`) | `blocked_by` of other ticks | add, remove, cascade | cascade interrupted |
| Queries (`internal/query`, `internal/wave`, `next`, `frontier`, `ready`, `list`, `graph`, `roadmap`, `stats`) | none | ready, blocked, waves, frontier, roll-up, roadmap, planning, close-out, next | the same question answered in six places; cycles, missing references, filters |
| Parallel load, index (`load.go`, `index.go`) | goroutines, channels | load all ticks | errors while others still send |
| Merge drivers (`internal/merge`, `mergefile`, `mergeactivity`, `internal/github/git.go`) | three versions of a file; git's configuration | merge tick, merge activity, install | field-wise merge, order of the sides, an installation that stops half way |
| Garbage collection (`internal/gc`) | run records, activity log | remove old run records, trim the log | rewrite of a log others append to |
| Board server (`internal/tickboard/server`) | SSE clients, debounce timer, last event | HTTP handlers, watch, broadcast | coalesced events, full channels |
| Board client (`internal/tickboard/ui/src`) | tick store, connection | fetch, event, reconnect | reordered fetches, missed events |
| Terminal UI (`internal/tui`, `tui.go`) | ticks, focus, scope, view, selections, folds, detail pane, palette, watcher, `.tui-state.json` | keys, messages, reload, edit, save and restore of the state | a reload or a late message between two keys; narrow terminals |
| Notes, config, installation, import, contracts, test rig | | | formatting and I/O; see `PROJECT.json` for why each is left out |

How they interact: commands share files only. `tk ask` parks a tick (sets
`awaiting`) and saves a question; `tk answer` or `tk ask --collect` resolves it
and applies the answer to the tick, both under one flock; `tk approve` and
`tk reject` decide the same tick without that lock; the board server and the
terminal UI read and write the same files from watchers and handlers.

`PROJECT.json` lists under `hazards` what is hard to test, at its line, with the
properties that cover it or the module that is planned for it.

## 2. Plan

Done, in this order:

1. `Tick`, `Operator`, `Question`: the one concurrent protocol of the system.
2. `Lifecycle`, `Handoff`: what every command and surface may do to a tick with a
   gate, and to an epic with children.
3. `TickStore`: create, read-modify-write, block, delete and its cascade, the
   activity log and its trimming by `tk gc`, file operation by file operation.
4. `LoadTicks`: the worker pool, its error path and its termination.
5. `TuiWatch`: watching, draining, listing and mirroring in the terminal UI.
6. `Board`: watcher, debounce, broadcast, client channel, fetch, reconnect and the
   client's store.
7. `Merge`: the drivers, their installation, and two clones that merge each other.
8. `Queries`: what every listing and every advice computes, while commands change
   the tracker.
9. `Screen`: the terminal UI as one state machine of keys, messages and reloads.

Each of them has its proofs beside it (`M_proofs`), except that `Tui_proofs` is about
both `Screen` and `TuiWatch`. Every safety property of a passing run is a theorem, but
for `NoLostAnswer`.

Left:

- `tk ask --withdraw` and `--gate`, the activity events of the board, and the
  requests of the board's client that change a tick.

The modules are separate state machines over the same files, because the system
couples its parts by files only. `Operator` and `Lifecycle` share `Tick`;
`Operator` implements `Question` and `Lifecycle` implements `Handoff`. What one
module takes as a single step another takes apart: `Lifecycle` has a command in one
step, `TickStore` has its file operations; `Board` has the answer to a list in one
step, `LoadTicks` has the load.

## 3. What is modelled

**`Tick`** is the record and the pure functions of `internal/tick`: each operator
takes a tick and returns what the Go function leaves behind its pointer.

**`Operator`** is one state machine for all processes. `job[p].at` says between
which two file operations process `p` is; every action is one file operation with
the computation that follows it, so that any other process can run in between.

| Variable | In the code |
|---|---|
| `ticks` | the issue file of each tick |
| `store` | the pending file of each question, or `Missing` |
| `created` | the order of `CreatedAt`, by which `List` sorts |
| `lock` | who holds `.apply.lock` |
| `job` | local variables and position of each command |
| `faults` | how many commands died or failed, at most `MaxFaults` |
| `recorded`, `effects`, `moot` | history for the properties; no guard reads them |

| Actions | Code |
|---|---|
| `StartAsk`, `Park`, `Save` | `Engine.register`: read and park the tick, save the question |
| `StartAnswer` | `tk answer`: pick the oldest open question of a tick |
| `Resolve`, `Record` | `PendingStore.Resolve`: lock, read; write |
| `Apply`, `Check`, `Read`, `Siblings`, `Write`, `Mark`, `Stamp` | `Engine.Apply` from the lock to the release |
| `StartCollect`, `TakeNext`, `Watch`, `TimeOut`, `Drain`, `Finish` | `tk ask --collect`, with and without `--wait` |
| `StartVerdict`, `WriteVerdict` | `tk approve`, `tk reject` |
| `StartDeliver`, `Deliver` | `MarkDelivered` of a channel bridge |
| `Fail` | a command dies or a file operation fails; the lock is freed |

**`Question`** is the abstract promise: a question is settled once, and an answer
takes effect at most once. `Operator!Promise` is the refinement mapping.

**`Lifecycle`** has every command that moves a tick between agent, human and done,
one command per step, with its guard and the lines it leaves in the activity log.
`ticks` are the files; `by`, `via` and `logged` are the actor of the last command, the
way it came (`tk`, its flag `--verdict`, the terminal UI, the board) and its log lines,
for the properties. `cascade` is the one command that is taken apart: `tk close --force` on an
epic writes a file per child and then its own, and may be refused or die between.

| Actions | Code |
|---|---|
| `Update`, `VerdictFlag` | `tk update`, with any combination of the lifecycle flags, without and with `--verdict` |
| `Close`, `StartCascade`, `CascadeChild`, `CascadeEpic`, `CascadeRefused`, `CascadeStops` | `tk close`, and its forced form on an epic |
| `Reopen`, `Approve`, `Reject` | the commands of these names, with `verdictguard.go` |
| `TuiSetStatus`, `TuiClose`, `TuiReopen`, `TuiDecide` | `internal/tui/edit.go` |
| `BoardDecide`, `BoardUpdate`, `BoardClose`, `BoardReopen` | the handlers of `server.go` |

**`Handoff`** is what the lifecycle promises: a runner does not take a tick from the
human it waits for, does not finish a tick whose gate no human has passed, and does
not drop a gate. `Lifecycle!Promise` maps status, awaiting and gate to it.

**`TickStore`** has the commands file operation by file operation. `files` and `log`
are what is on disk, `tmp` the trimmed log before its rename, `job[p]` the position
and the local variables of a process. Four variables are history: `acked` are the
changes a command has reported, `alone` the commands no other has overlapped,
`unlogged` those whose log line could not be written, `aged` the last one too old for
some trim. `tk note` stands for every command that reads, changes and writes one tick.
`Read`, `Check`, `WriteAs`, `Rename`, `OpenLog`, `AppendLine` are a write through the
store, `Generate` and `SaveConfig` belong to `tk create`, `Remove`, `List`,
`ReadNext`, `Cascade` to `tk delete`, `Trim`, `TrimWrite`, `TrimRename` to `tk gc`,
whose cutoff may be beyond any line. `Fail` ends a command anywhere; `LogFails` is a
failed write of the log, which the store ignores, so that the command goes on and
reports success.

**`LoadTicks`** is `LoadTicksParallel`: the caller (`caller`) hands paths to workers
over an unbuffered channel (`Send`), a worker reads (`Load`) or leaves an error and
ends (`Fails`), and the caller sees the error (`SeeError`), closes (`Close`) and
returns (`Return`). `Vanish` deletes a file meanwhile.

**`TuiWatch`** is the goroutine of `watcher.go` with the list it makes, file by file
(`Wake`, `Drain`, `List`, `ReadFile`, `ListEnds`), the `App` that shows it
(`Reloaded`) and mirrors its own edits (`Edit`), and other commands (`Command`). A
tick is the number of the write its file holds. `Init` and the names after it are
`WatchInit`, `WatchNext` and so on, so that `Tui_proofs` can use this module and
`Screen` together.

**`Board`** is one browser: `WatchFiles` takes a file event and remembers the last,
`Broadcast` is the timer, `Connect` and `Disconnect` the stream, `Receive` a message,
`Serve`, `AnswerList`, `AnswerTick` and `Lose` a request and what becomes of it.
`shown` is the client's store, `error` the message that replaces the board.
Nothing is granted: the one timer takes the place of another tick's event, a full
channel drops a message, a stream breaks, answers arrive in any order. `missed` is
history: the ticks whose last event, message or answer was lost in one of these ways.
`newest`, also history, is the newest answer that was shown of each tick.

**`Merge`** is two clones (`Clones`) of one tick and its log. `Edit` is a command in
one of them, which takes a time and leaves a line; `CheckAndInstall` installs the two
drivers one after the other, and may stop between; `GitMerge` merges the other
clone's version from the fork they share, with the driver if git finds one. The pure
parts are operators: `MergeTick` is field by field `Merge`, `MergeActivity` the union
by `Key` in the order of times.

**`Queries`** is a tracker (`ticks`) that commands edit: `Create`, `Update`, `Block`,
`Unblock`, `Delete` and `Close`, one step each. `said` is what the last command printed
of the frontier: only `tk close` does, and `Close` prints a `Continuation` that names at
most `MaxNamed` items (`Named`; five in the code, in the order of a Go map) and counts
the rest. Everything else is a function of the ticks, named
after the Go function or the command: `Ready`, `Blocked`, `Compute` (waves), `Frontier`
with its `Action`, `Role`, `Slip`, `NeedsPlanning`, `NeedsCloseout`, `NextTick`,
`NextAwaiting`, `RoadmapWaves`, `EpicStatus`, `CloseScope`, the lints of `tk graph`, and
the marks and columns of each listing. The properties relate what different commands
say of the same ticks, or state what a printed advice promises.

**`Screen`** is `App` of the terminal UI. `app` is its value, `mail` the messages a
key has sent and Bubble Tea has not delivered yet, `file` the saved state.

| In `app` | In the code |
|---|---|
| `ticks`, `scope`, `focus`, `width`, `detailVisible` | the fields of these names, `width` as the number of panes |
| `row`, `shut` | cursor and folded rows of the sidebar, whose rows are `Rows` |
| `view`, `items`, `at`, `line`, `folded` | the active view, its rows, the tick each view has selected, the timeline's cursor, the list's folded epics |
| `pane` | the detail pane: its tick, field and open prompt; `begun` is history |
| `offers` | the ticks the palette offers |

| Actions | Code |
|---|---|
| `Reload`, `Resize`, `Close`, `JumpToEpic`, `PaletteJump`, `SwitchView`, `PaletteEdit` | the messages of `App.Update` |
| `Tab`, `ViewHotkey`, `OpenPalette`, `Quit` | the keys of `App.handleKey` |
| `MoveRow`, `ToggleNode` | `Sidebar.Update` |
| `Move`, `OtherKey`, `EnterDetail`, `ToggleEpic`, `EnterEpic` | the views' `Update` |
| `OtherField`, `CycleStatus`, `BeginEdit`, `CommitEdit`, `CancelEdit`, `LeaveDetail` | `detail.Update` |
| `Confirm` | `palette.Update` |
| `Quit`, `Kill` | the end of `runTUI`, or of the process, and the next session |

The modules `OperatorMC`, `LifecycleMC`, `TickStoreMC`, `QueriesMC` and `ScreenMC` hold
what a configuration cannot write down: instances, and the symmetry of processes.

A definition named `Def_Change` is a faulty variant of `Def` that no
specification uses: it shows, run in the place of `Def`, that a property fails
when the code has that bug.

## 4. What the runs show

| Run | Instance | Shows |
|---|---|---|
| `OperatorApart` | two questions on two ticks, one asker that also answers, a second answerer, a collector, one fault | notes are answers, a stamped answer is in them, an open question stays on disk, the refinement of `Question`, and every command ends |
| `OperatorOutside` | two questions on one tick and a gate that may be answered with a text on another, one process doing everything in turn, approve/reject and a bridge writing outside the lock | the last answer unparks a tick, an answer takes effect at most once, a collector deletes no answer that has not taken effect, a text given to a gate included |
| `LifecycleCli` | an epic and its child, humans and runners, all of `tk` | decisions are logged, epics close last, and the refinement of `Handoff` |
| `LifecycleAll` | one tick with every gate and awaiting state, the legacy flag, all flags of `tk update`, the terminal UI and the board | closing stamps, which decisions are logged, and the refinement of `Handoff` |
| `TickStoreRaces` | two processes, three ids, any three commands of which two may overlap at every file operation, one fault anywhere | what a command that was alone reported stays on the tick and in the log and a delete that was alone leaves no reference, whatever races and dies before and after |
| `LoadTicksPool` | four files, three workers, any of them failing | a load is complete or an error, and ends |
| `TuiWatchReload` | three ticks, four writes, deletions or edits | a screen out of date has an event pending; the screen ends up right |
| `BoardLive` | two ticks, one blocking the other, room for one message, two changes, one lost connection or request, answers in any order | when nothing is under way the board shows every tick but the missed ones as it is on disk, blocked marks agree with the cards, the board catches up |
| `MergeClones` | two clones, three edits of status, priority, blockers, labels, notes and log at equal or later times, a torn line, an unknown key, drivers installed or half installed | a merged closed tick has its time, both directions agree, a clone that looks installed is, and no change of one side is lost |
| `Queries` | two trackers of five ticks and any two commands on them | six commands agree on what is ready, a wave starts when the waves before it are done and no loop of blockers makes a tick look startable, what waits for a human is listed for one, rest is explained, the roadmap is whole, `tk close` names or counts what comes next |
| `Screen` | a project, an epic, its task and a gated task, which other commands turn into another tracker and back; four keys, two messages, two saved states, two widths | text goes to the tick it was begun for, the pane with the keys is seen, the detail follows the selection, a reload keeps the place |
| `ScreenRestart` | the same, two keys | violation: the state that is saved is the one the session was started with |

The violation refutes a sentence of the code's comments that `PROJECT.json` quotes
under `findings`.

**What delimits the passing runs.** Each of these was found by widening a run, and
is a limit of the code, not of the model:

- Operator. With an open sibling keeping the tick parked, a crash before the stamp
  repeats a note (`AtMostOnce`); a drained question is applied again from a copy
  another process still holds; a gate answered in an earlier round can decide the
  next one. `MarkDelivered` writes back an entry it read before a resolution
  (`FirstResolutionWins`). A command that read the tick before an answer was written,
  on the side or for a sibling, writes the answer's note away, stamp or no stamp
  (`NoLostAnswer`). A gate answered with a text stops every collector at it;
  `NoAnswerDropped` says that the answer is at least not thrown away, and
  `CommandsEnd` is checked without texts, because the collector is started for ever
  and never gets past the gate. `register` parks the tick and saves the question in
  two writes outside the lock: the answer of a sibling between them clears awaiting,
  although `engine.go:313` says that the last answer clears it, and the question is
  then on a tick that is not parked. So `OpenIsParked` holds of questions that share a
  tick in one process, and of any number of processes with a question per tick. A gate
  that shares its tick closes it whatever else is open there.
- Lifecycle. `tk update --requires=` or `--awaiting=` lets a runner take a gate away
  by hand, and `--status closed` closes over it, so the runs leave these combinations
  out (`NotByHand`, `HandingOver`); every `--verdict` is in both.
  The children a forced close of an epic has listed are written as they were read,
  so a command beside it is undone (`Isolated`). A forced close of a gated epic by a
  runner closes the children and is then refused. `StartedStamp` is for the command
  line: the board's reopen leaves `started_at` behind. The exceptions of
  `DecisionLogged` are decisions without a line: the board logs none, and
  `tk update --verdict` and the terminal UI none that leaves the status as it is, for
  instance a verdict on a tick that awaits input, where `tk approve` writes its line
  itself (`approve.go:119`). An approved tick that closes keeps its verdict, a tick
  awaiting work can be rejected, and the board's reopen keeps the legacy `manual`
  flag, so that the tick is with a human again.
- Store. Nothing is locked: commands that overlap lose updates (two edits each replace
  the whole file, although `edit.go:17` says that concurrent writes are not
  clobbered), overwrite a new tick of the same id, leave a reference to a tick that is
  deleted meanwhile, and lose log lines to a trim. So the properties are about what a
  command that was `alone` has reported; what overlaps comes before it or after it,
  and must not undo it. A line may also be missing because it could not be written,
  which the store ignores (`unlogged`, `store.go:90`), or because a trim's cutoff was
  later than it (`aged`, `gc.go:183`). `addBlocker`, the board's own form of
  `tk block`, is modelled and proved about but left out of the run.
- Terminal UI. A change between the first list and the watcher is not noticed
  (`QuietStart`); a list of no ticks is `nil` and is not shown, so the deletion of
  the last tick is not noticed (`Kept`).
- Board. What happens to a tick can be lost for good, and then it is in `missed`, and
  the board is wrong about it until it changes again. Two files changed within a tenth
  of a second: the timer has room for the last event only; a delete with its clean-up
  of references does that every time. A full channel drops the message. A change while
  the stream is down is never fetched. Answers overtake each other, and a fetch under
  way when its tick is deleted brings the tick back. A request fails, which at least
  shows an error. `StaleIsNoticed` and `Follows` say that these are the only ways: of
  every other tick the board has or gets the last word, whatever is lost of the rest.
- Merge. Fields are merged apart, so two legal versions can make a closed tick that is
  awaiting, or an open one that has a closing time; `Coherent` claims the converse
  only. It also needs times that differ: with clocks out of step, a tick closed,
  reopened and closed again in one clone and claimed in the other can get one clone's
  status and the other's empty closing time, so `Edit` gives every closing a new time.
  The comment of `MergeActivity` gives the key of a line without its data; the
  code, and `Key`, have it.
- Queries. A loop of blockers that leaves the epic, or passes through a tick with a
  human, is reported by nobody: `wave.go` takes a blocker outside for one of the first
  wave, so the ticks on it are planned as if it would be closed; they are never in the
  first wave, that is, never look startable now (`WavesSound`). A tick that waits for a
  human while in progress is passed over by `tk next --awaiting`, and a deferred one is
  marked as deferred by `tk graph`; the other listings have both (`HumansOwn`). Only
  `tk close` prints what comes next, not `approve`, `update`, the board or the terminal
  UI. `tk graph` on a loop prints its warning before the JSON, and leaves the
  loop's ticks out of the waves unless `--all` is given. The frontier is also at rest
  when an epic only needs closing, when everything is deferred, or in a loop, which its
  comment does not say; a child blocked by its own epic waits with no warning. `tk next`
  can return a container with the advice to implement it, takes direct children of a
  scope where the frontier takes descendants, and orders by soft order where `tk ready`
  orders by priority. The roadmap's "ready" looks
  at blockers of epics only and calls an epic without leaves ready though it cannot be
  planned; its tree hides projects in a loop. `tk graph` on an epic whose children are
  all closed, deferred or waiting says "blocked (open blockers: )". The board's column
  "ready" holds deferred ticks. A tick in progress is never marked as blocked.
  `tk delete` cleans blockers only: parent and after dangle, and a new tick with the
  same id adopts them. Each is why a property compares what it compares.
- Screen. "My ticks" is always empty, because every view passes an empty owner. The
  list shows two levels, so a project's scope hides the tasks of its epics, and an epic
  folded and unfolded in it has lost its children until the next change; a jump reaches
  neither folded children nor ticks out of scope, though its comment says it does. After
  an edit in the pane the selection may be another tick, which a palette edit then
  changes; `DetailMirrors` allows just that parting. A palette message acts on whatever
  is selected when it arrives, so Enter twice edits twice. A prompt for a blocker, then
  one for the owner, saves the owner's name as a blocker. A reload that cancels an edit
  turns the keys that follow into commands. Focus can be on the hidden main pane
  (`EditIsVisible` is about the pane that edits). The scope of an epic without a row in
  the sidebar lasts until the next reload, and the timeline keeps its line, not its
  tick; `ReloadKeepsPlace` excludes both. The roadmap's jump needs 120 columns. A parent
  may be set to a descendant, and both disappear.

**Bounds.** `MaxFaults`, `MaxCommands`, `MaxWrites`, `MaxChanges`, `MaxDrops` count what
the environment does; nothing else is bounded, except the room of a channel, which is
`Room`. Two questions and three processes are enough for every race the operator's code
has between a resolver, an applier and a collector: each conflict is between two
processes over one question, and the second question adds the sibling rule; three are
used where the order of rounds matters. One fault is a crash in any step followed by a
recovery by any other process. Three commands in `TickStoreRaces` are one that is alone
and two that race after or before it (`MaxOverlapping`), or a create, a failed trim and
another trim; two ids of the short length make the generator run out and go on to the
long one. In `LoadTicks` a file more than workers makes the caller wait for workers that
have ended. Three ticks in `TuiWatch` leave one to change before and one after the list
reads its file. A `Room` of one is filled by the two changes of `BoardLive`, so that the
second message is dropped; the code has ten. Three changes were run by hand. Three edits
in `MergeClones` are one in each clone and one after a merge. Five ticks in `Queries`
are the fewest that hold a project, two epics, a chain and a tick outside; two commands
make a loop of blockers or of parents from either tracker, inside an epic or through the
tick outside. A `MaxNamed` of one makes the line leave an item out; the code's limit is
five. Four keys in `Screen` open the palette, choose twice and commit what was typed,
with reloads anywhere between, and `MaxMail` lets the two choices wait together.

**Fairness.** `Operator!FairSpec` assumes only that a process that is running keeps
running (weak fairness of `Step(p)`). Users owe nothing: nobody has to ask, answer
or decide, and a wait may last for ever, so `CommandsEnd` excludes a collector that
waits for a question nobody has answered. The lock is polled every few milliseconds;
it is taken finitely often in a run, so weak fairness is enough. `LoadTicks`,
`TuiWatch` and `Board` assume weak fairness of their goroutines, the network and the
browser: the scheduler runs a goroutine that can go on, an unbuffered send meets a
waiting receiver, and an HTTP request ends in an answer or an error. Commands and
losses are owed nothing. `Lifecycle` and `TickStore` have no liveness to check: their
commands neither wait nor retry.

`Merge`, `Queries` and `Screen` have none either: a key or an edit is owed to nobody.

`CHECK_DEADLOCK FALSE` stands where the system may stop: commands and edits are bounded,
a load returns, a quiet screen waits.

## 5. What is proved

Every safety property that a passing run checks, except `NoLostAnswer`, is also a
theorem: TLAPS proves it for every value of the constants, where a run shows it on a
small instance. Some theorems need an assumption on the constants; it is named in the tables. What the
code does without it is said there or in section 4. A run and its theorem are then
complementary: the run may go where the assumption does not hold.

### Operator

`Operator_proofs`, for any sets of ticks, questions and processes and any number of
faults:

| Theorem | States | Assumes |
|---|---|---|
| `TypeCorrect` | `TypeOK` always holds | |
| `StampComesLast` | `StampedLast` always holds | |
| `FirstWins` | `FirstResolutionWins` | `NoBridges` |
| `OpenStays` | `OpenStaysOnDisk` | `NoBridges` |
| `NotesAreTrue` | `NotesAreAnswers` | `NoBridges` |
| `TakesEffectOnce` | `AtMostOnce` | `Isolated` |
| `ImplementsPromise` | `Operator` implements `Question` | `NoBridges`, `Isolated` |
| `OpenKeepsPark` | `OpenIsParked` | `NoBridges` and `Isolated`, or `OneEngine` and `Alike` |
| `ParkedIsAsked` | `ParkedHasQuestion` | `NoBridges`, `Isolated`, no faults |
| `AnswersAreNotDropped` | `NoAnswerDropped` | |

`NoBridges`: no channel bridge marks deliveries. `Isolated`: no agent relay, and no two
questions share a tick. `OneEngine`: one process asks, answers and collects, and may die
anywhere; `Alike`: questions that share a tick all ask for a text. "No faults" is needed
because a command that dies between parking a tick and saving its question leaves a tick
that waits for nothing.

`OpenKeepsPark` has two cases, because the code is right in two: any number of processes
with a tick per question, and any number of questions on a tick, siblings that come and
go, with one process. `OperatorOutside` is an instance of the second with a bridge and
people beside it; the other theorems with `Isolated` have any number of processes at
once, where that run has one.

The argument, invariant by invariant:

- `TypeInv` adds to `TypeOK` that a process at a step that needs a question has
  one; without it no action is known to write to an existing file.
- `BaseInv` adds that a question is saved once by the one asker that took its id,
  that everybody else works on saved questions, and that a process between lock
  and release holds the lock.
- `RecordedInv` adds that a stored entry carries what was recorded, that a
  resolver at its write knows nothing is recorded, and that every later copy
  carries what was recorded. It gives `FirstWins` and `OpenStays`.
- `StampInv` adds that a process about to stamp, and every copy that is stamped,
  has had its effect.
- `OnceInv` adds that an effect unparks its tick, that no unlocked writer holds a
  parked copy, and that a process past the out-of-band check comes before any
  effect. With `RecordedInv` it gives `ImplementsPromise`.
- `NoteInv` says of every copy of a tick, on disk and in the hands of a process that
  has yet to write it, that its notes are recorded answers of questions about it.
- `ParkInv` says of a question whose tick nobody decides on the side that the tick is
  parked for it before it is saved and until its answer takes effect, and then waits
  for nobody; so whoever gives a question up has seen its tick unparked. It gives the
  first case of `OpenKeepsPark`.
- `SibInv` gives the second: the file of a tick, and the copy the one process is about
  to write, suit every question that is open on the tick (`Suits`). An answer keeps that,
  since it unparks the tick only when it has looked and found no open sibling.
- `AskedInv` says that a parked tick has a question that was saved, or an asker at the
  step that saves it.
- `DropInv` says that a collector which is about to delete an answer has seen it take
  effect or found the question moot, and that moot is recorded of whatever the files and
  the entries say it of: a tick decided otherwise, an entry ruled cancelled. With
  `StampInv`, for the entries stamped before, it gives `AnswersAreNotDropped`.

### Lifecycle

`Lifecycle_proofs`, for any ticks, hierarchy and flags of `tk update`:

| Theorem | States | Assumes |
|---|---|---|
| `TypeCorrect` | `TypeOK` | |
| `ClosedStampHolds` | `ClosedStamp` | |
| `StartedStampHolds` | `StartedStamp` | `CliOnly` |
| `HandoffImplemented` | `ImplementsHandoff` | `Isolated`, `SafeUpdates` |
| `EpicsFallLast` | `EpicLast` | `Isolated`, `SafeUpdates`, `NoSelfParent` |
| `DecisionsAreLogged` | `DecisionLogged` | `Isolated`, `SafeUpdates` |

`Isolated` here: nothing runs beside a forced close. `SafeUpdates`: no update takes a
gate or an awaiting state away by hand; it may set any verdict.
`CliOnly`: only the command line is used. `NoSelfParent`: no epic is its own child.

One lemma per function of `Tick` says what it returns. The inductive invariant says
that every file, and every copy a forced close has listed, has its stamps right; that
the copies equal the files while nothing else runs; and that a runner's cascade holds
no child with a gate, because `StartCascade` looked. The step theorem then has one
case per command, each of which is a move of `Handoff` or a stutter. `EpicInv` adds
that the children a cascade has yet to close are the only open ones of its epic.

### Tick store

`TickStore_proofs`, for any ids, lines, commands and faults:

| Theorem | States |
|---|---|
| `TypeCorrect` | `TypeOK` |
| `UpdatesLast` | `NoLostUpdate` |
| `LogIsWhole` | `AllLogged` |
| `DeletesAreClean` | `DeleteIsClean` |

They assume nothing of the commands: any number of processes run them, overlap and die.
`Inv` says two things of a command under way. What any of them has read, and may yet
write, holds all that was promised (`Sane`): whatever the race, a copy was read after
every command that was alone had ended. And of one that is still alone, what it has in
memory is what is on disk, step by step (`Current`), and a delete knows every reference
it has yet to remove (`DeleteCurrent`). `Sole` says that commands under way at once are
not alone, so that a write of another command leaves `Current` as it was.

### Parallel load

`LoadTicks_proofs` proves, for any files and any non-empty set of workers,
`TypeCorrect` (no tick is in the list twice), `LoadsAllOrFails` (`AllOrError`),
`CallerIsLast` (`NoneLeftBehind`) and `CallerGoesOn` (`NotStuck`). The invariant says
where a file can be: in one place at most (`OnePlace`), and nowhere only if an error
is recorded (`Recorded`), which is also the only reason for a worker to end before
the channel is closed (`Ended`).

### Board

`Board_proofs` proves, for any ticks, room and number of changes:

| Theorem | States | Assumes |
|---|---|---|
| `TypeCorrect` | `TypeOK` | |
| `BlockedNeverLies` | `BlockedIsTrue` | |
| `StaleAlwaysNoticed` | `StaleIsNoticed` | |

`BlockedIsTrue` is inductive together with the types; the lemma `UpdateTickGood` is
the point: after an update that leaves a tick's status as it was, a card that names it
agrees with the cards as before, and after one that changes it, every such card is
computed anew.

For `StaleIsNoticed`, `NewsInv` says that a tick which is not in `missed` is announced by
an event or the timer, or has a message in the channel, or is being fetched, or is shown
as it is. The rest says why that will do. The last event of a tick, what the timer
remembers, and the last message each say whether the tick is there, unless a later one
follows (`EventsInv`, `TimerInv`, `ChannelInv`). Requests are told apart by when they
were served (`RequestsInv`), and among the answers that would still be taken for news
the one that was read last is what is on disk (`Served`, `Settled`).

### Merge drivers

`Merge_proofs` proves, for any labels and number of edits:

| Theorem | States |
|---|---|
| `MergeTickOrderFree`, `TicksAlwaysAgree` | for every three ticks, and so at any time, both directions agree on the tick (`TicksAgree`) |
| `AlwaysOrderFree` | `OrderFree`: and on the set of the log's lines |
| `MergeTickKeepsBoth`, `MergesKeepTicks` | for every three ticks, and so in every merge, nothing a side did to the tick is lost (`KeepsTicks`) |
| `MergesKeepBoth` | `KeepsBoth`: nor a line of a log that parses, and the merged log is in order and without repetition |
| `ClosedAlwaysHasTime` | `ClosedHasTime` |
| `AlwaysCoherent` | `Coherent`: and every version is one a merge accepts |
| `FoundAlwaysWhole` | `FoundIsWhole` |

What holds of the tick follows from lemmas on the rule of one field, what holds of a
merged log from `MergedLog`. Where git takes one side as it is, `Logs` is needed: logs
are in order without a merge too, and what was there at the last common version still
is. `ClosedHasTime` is not inductive, because a merge can leave an open tick the time
of a closing. `Times` adds that a closing which the common version does not have has a
time it does not have (`OwnTime`), and that such a leftover is earlier than any closing
of the other clone (`Leftover`); `MergeKeepsTimes` then shows that a merge keeps the
three together.

### Queries

`Queries_proofs` proves, for any ids and owners, and for every tracker that commands
can make of any start, with loops of parents and blockers and references to nothing:

| Theorem | States |
|---|---|
| `TypeCorrect` | every tick has the shape of a tick file (`Typed`) |
| `HumansKeepTheirs` | `HumansOwn` |
| `WavesAreSound` | `WavesSound` |
| `RestIsAlwaysExplained` | `RestIsExplained` |
| `RoadmapIsWhole` | `RoadmapWhole` |
| `ClosesNameNext` | `CloseNamesNext` |
| `AgentsAlwaysAgree` | `AgentsAgree` |

`Typed` is inductive, and so is `Said` for `ClosesNameNext`: what was last printed was
printed of the tracker as it is. The rest are facts about the queries, true of every
typed tracker. The model writes the code's loops as a function on sets applied as
often as there are ticks; the lemmas of "Iteration" show that nothing more can come by
then, so that `Reach` is closed and what `Peel` leaves over has no first tick to take.
That makes every wave the one after its last blocker, and whatever is in no wave a
cycle or behind one.

### Terminal UI

`Tui_proofs` proves, for any trackers, saved states, keys, messages and reloads of
`Screen`:

| Theorem | States |
|---|---|
| `TextAlwaysGoesHome` | `TextGoesHome` |
| `EditsAreVisible` | `EditIsVisible` |
| `DetailAlwaysMirrors` | `DetailMirrors` |
| `ReloadsKeepPlace` | `ReloadKeepsPlace` |

and of `TuiWatch`, for any ticks and writes, `WatchTypeCorrect` and, from the two
assumptions `NoGap` and `NoEmpty`, `StaleScreenIsNoticed` (`StaleIsNoticed`).

`GoodState` says of the screen that a prompt is open on the tick it was begun for
(`Home`) and that the pane with the keys is seen (`Seen`), and of the saved file that it
was written by such a screen (`IsFile`). `Placed` adds for `DetailMirrors` that the items
of the list are what the rows and the folds leave, and that the cursor is on a row;
`SelectionStays` is its point: items built anew leave the selection alone.
`ReloadKeepsPlace` needs that a row which is still there is found again: `WalksFacts`
and `RowsFacts` say what the walk of the tree returns, `RestoreFinds` that the search
stops at it. The order of the rows comes from recursive functions; `StepsExist` shows
that such a function exists, and `LeastNumber`, the least counterexample, takes the
place of an induction.

`Fresh`, of the watcher, says that a list under way with no event since it began has
read what is on disk and has not failed.

### Left to TLC

Liveness, which is out of the prover's reach: `CommandsEnd`, `LoadEnds`, and `Follows`
of the board and of the terminal UI. `RestartKeepsPlace`, which `ScreenRestart`
refutes. `NoLostAnswer`, which needs that nobody writes a tick on the side and no two
questions share one, and is checked where that is so. And what a run shows where the
assumption of its theorem does not hold: in `OperatorOutside` a bridge, and questions
that share a tick.

What is proved and adds nothing to a run is not run again: the type invariants of the
modules, except where a run has them as its own property; `FirstResolutionWins`, which
`ImplementsQuestion` contains; `StampedLast`, `StartedStamp`, `NoneLeftBehind` and
`NotStuck`.

## 6. What is not modelled

Formatting and texts; labels, owners and times where no property depends on them; the
lock's own implementation (`flock` on Unix, `LockFileEx` on Windows: a holder that dies
frees it); `tk ask --withdraw` and the blocking `tk ask --gate`; races between commands
of `Lifecycle` that write a single file, and of `Queries`, whose commands are one step
(`TickStore` has them); the filter of `tk tui`,
which its first reload forgets; the mouse, which `tk tui` does not turn on; an overflow of
the kernel's event queue; the index, which `tk rebuild` writes and nothing reads; and
the components that `PROJECT.json` lists as not modelled, with the reason.
