------------------------------ MODULE TickStore ------------------------------
(***************************************************************************)
(* The store of ticks as commands use it (internal/tick/store.go, id.go):  *)
(* one JSON file per tick, replaced by a rename, an activity log that is   *)
(* appended to, and no lock.  A command reads files, computes, and writes  *)
(* files one by one; every action here is one such file operation with the *)
(* computation that follows it, so that another command can run, or the    *)
(* command die, between any two.                                           *)
(*                                                                         *)
(* tk note stands for every command that reads a tick, changes it and      *)
(* writes it back (label, decide, update, the edits of the terminal UI).   *)
(* Commands are numbered as they start; what command n adds to a tick, and *)
(* the tick it creates, carry the mark n.                                  *)
(*                                                                         *)
(* Since nothing is locked, what two overlapping commands report may be    *)
(* lost.  The history variable alone tells which commands did not overlap, *)
(* and the properties say what those may rely on.                          *)
(*                                                                         *)
(* A definition named Def_Change is a faulty variant of the Def below it.  *)
(***************************************************************************)
EXTENDS Naturals, FiniteSetsExt

CONSTANTS
  Short, Long,    \* the ids of three and of four characters
  Existing,       \* the ids in use at the start
  Commands,       \* the commands given
  Procs,          \* processes, one command at a time each
  MaxCommands,    \* bound: commands started
  MaxOverlapping, \* bound: commands that overlap others
  MaxFaults       \* bound: commands that die, and lines that fail to be logged

None == "none"
Ids  == Short \cup Long
MaxAttempts == 3    \* at each length of an id

ASSUME TickStoreAssumption ==
  /\ Ids \subseteq Nat \ {0}
  /\ Short \cap Long = {}
  /\ Existing \subseteq Ids
  /\ MaxCommands \in Nat /\ MaxFaults \in Nat

Serial == 1 .. MaxCommands    \* 0 marks what was there at the start

VARIABLES
  files,      \* files[id]: .tick/issues/<id>.json
  wide,       \* config.json asks for ids of four characters
  log,        \* activity.jsonl: its lines, in no order, and how often it was replaced
  tmp,        \* activity.jsonl.tmp, or NoTmp
  job,        \* job[p]: where p is in its command
  started, faults,
  acked,      \* history: the marks whose command has reported success
  alone,      \* history: the commands during which no other has been under way
  unlogged,   \* history: the commands whose line could not be written
  aged        \* history: the commands up to this one were too old for some trim

history == <<alone, unlogged, aged>>
vars == <<files, wide, log, tmp, job, started, faults, acked, alone, unlogged, aged>>

Missing == [there |-> FALSE, marks |-> {}, blockedBy |-> {}]
File == [there : BOOLEAN, marks : SUBSET Serial, blockedBy : SUBSET Ids]

Action == {"create", "note", "block", "unblock"}
Line   == [tick : Ids, action : Action, n : 0 .. MaxCommands]
NoTmp  == [there |-> FALSE, lines |-> {}]

Command == {"create", "boardCreate", "note", "block", "addBlocker", "unblock", "delete", "gc"}
Step == {"idle", "generate", "read", "check", "writeAs", "rename", "openLog", "append",
         "saveConfig", "remove", "list", "readNext", "cascade", "trim", "trimWrite",
         "trimRename"}

\* id: the tick of the command; other: the blocker it names; on, copy: the file
\* it writes and what; old, action: what WriteAs read, and made of it; left,
\* listed: the files List has to read, and has read; seen: the log it opened;
\* kept: the lines a trim keeps.
Nothing == [t \in {} |-> Missing]

Idle == [at |-> "idle", cmd |-> "note", n |-> 0, id |-> 0, other |-> 0, on |-> 0,
         attempts |-> 0, config |-> FALSE, long |-> FALSE, copy |-> Missing, old |-> Missing,
         left |-> {}, listed |-> Nothing, seen |-> 0, kept |-> {}]

TypeOK ==
  /\ files \in [Ids -> File]
  /\ wide \in BOOLEAN
  /\ log \in [replaced : Nat, lines : SUBSET Line]
  /\ tmp \in [there : BOOLEAN, lines : SUBSET Line]
  /\ \A p \in Procs :
       /\ job[p].at \in Step /\ job[p].cmd \in Command /\ job[p].n \in 0 .. MaxCommands
       /\ {job[p].id, job[p].other, job[p].on} \subseteq Ids \cup {0}
       /\ job[p].attempts \in 0 .. MaxAttempts - 1
       /\ job[p].left \subseteq Ids /\ DOMAIN job[p].listed \subseteq Ids
       /\ {job[p].copy, job[p].old} \cup {job[p].listed[t] : t \in DOMAIN job[p].listed}
            \subseteq File
       /\ job[p].seen \in Nat /\ job[p].kept \subseteq Line
  /\ started \in 0 .. MaxCommands /\ faults \in 0 .. MaxFaults
  /\ acked \subseteq Ids \X Serial
  /\ alone \subseteq Serial /\ unlogged \subseteq Serial /\ aged \in 0 .. MaxCommands

Init ==
  /\ files \in {f \in [Ids -> {Missing} \cup [there : {TRUE}, marks : {{}},
                                              blockedBy : SUBSET Existing]] :
                  \A t \in Ids : /\ f[t].there <=> t \in Existing
                                  /\ t \notin f[t].blockedBy}
  /\ wide = FALSE
  /\ log = [replaced |-> 0,
            lines |-> {[tick |-> t, action |-> "create", n |-> 0] : t \in Existing}]
  /\ tmp = NoTmp
  /\ job = [p \in Procs |-> Idle]
  /\ started = 0 /\ faults = 0 /\ acked = {}
  /\ alone = {} /\ unlogged = {} /\ aged = 0

-----------------------------------------------------------------------------
Become(p, j) == job' = [job EXCEPT ![p] = j]
Goto(p, at)  == Become(p, [job[p] EXCEPT !.at = at])

\* A command ends, with an error; or with success, and then its mark is promised.
GiveUp(p) == Become(p, Idle) /\ UNCHANGED acked

Done(p) ==
  /\ Become(p, Idle)
  /\ acked' = IF job[p].cmd \in {"create", "boardCreate", "note"}
              THEN acked \cup {<<job[p].id, job[p].n>>} ELSE acked

UnderWay == {job[q].n : q \in {r \in Procs : job[r].at # "idle"}}

Begin(p, cmd, at, id, other) ==
  /\ cmd \in Commands
  /\ job[p].at = "idle"
  /\ alone' = IF UnderWay = {} THEN alone \cup {started + 1} ELSE alone \ UnderWay
  /\ started < MaxCommands
  /\ Cardinality((1 .. started + 1) \ alone') <= MaxOverlapping
  /\ started' = started + 1
  /\ Become(p, [Idle EXCEPT !.at = at, !.cmd = cmd, !.n = started + 1, !.id = id,
                            !.other = other, !.on = id,
                            !.config = wide, !.long = (cmd = "create") /\ wide])
  /\ UNCHANGED <<files, wide, log, tmp, faults, acked, unlogged, aged>>

Start(p) ==
  \/ \E b \in Ids \cup {0} : Begin(p, "create", "generate", 0, b)
  \/ Begin(p, "boardCreate", "list", 0, 0)
  \/ Begin(p, "gc", "trim", 0, 0)
  \/ \E t \in Ids : Begin(p, "note", "read", t, 0) \/ Begin(p, "delete", "remove", t, 0)
  \/ \E t, b \in Ids, cmd \in {"block", "addBlocker", "unblock"} : Begin(p, cmd, "read", t, b)

-----------------------------------------------------------------------------
(***************************************************************************)
(* Reading, and writing one file: Store.Read and Store.WriteAs.            *)
(***************************************************************************)
Changed(p, file) ==
  CASE job[p].cmd = "note"    -> [file EXCEPT !.marks = @ \cup {job[p].n}]
    [] job[p].cmd \in {"block", "addBlocker"} -> [file EXCEPT !.blockedBy = @ \cup {job[p].other}]
    [] job[p].cmd = "unblock" -> [file EXCEPT !.blockedBy = @ \ {job[p].other}]

Read(p) ==
  /\ job[p].at = "read"
  /\ IF files[job[p].id].there
     THEN /\ Become(p, [job[p] EXCEPT !.copy = Changed(p, files[job[p].id]),
                          !.at = IF job[p].cmd = "block" THEN "check" ELSE "writeAs"])
          /\ UNCHANGED acked
     ELSE GiveUp(p)
  /\ UNCHANGED <<files, wide, log, tmp, started, faults, history>>

\* The blocker that tk block names must exist; that of tk create and of the
\* terminal UI need not.
Check(p) ==
  /\ job[p].at = "check"
  /\ IF files[job[p].other].there THEN Goto(p, "writeAs") /\ UNCHANGED acked ELSE GiveUp(p)
  /\ UNCHANGED <<files, wide, log, tmp, started, faults, history>>

\* WriteAs reads the file once more, to tell afterwards what changed, ...
WriteAs(p) ==
  /\ job[p].at = "writeAs"
  /\ Become(p, [job[p] EXCEPT !.old = files[job[p].on], !.at = "rename"])
  /\ UNCHANGED <<files, wide, log, tmp, started, faults, acked, history>>

\* ... replaces it, whatever is there by now, ...
Rename(p) ==
  /\ job[p].at = "rename"
  /\ files' = [files EXCEPT ![job[p].on] = job[p].copy]
  /\ Goto(p, "openLog")
  /\ UNCHANGED <<wide, log, tmp, started, faults, acked, history>>

\* logTickChange: what changed, seen by the numbers of blockers and of notes.
DetectChange(old, new) ==
  CASE ~old.there -> "create"
    [] old.there /\ Cardinality(new.blockedBy) > Cardinality(old.blockedBy) -> "block"
    [] old.there /\ Cardinality(new.blockedBy) < Cardinality(old.blockedBy) -> "unblock"
    [] OTHER -> IF Cardinality(new.marks) > Cardinality(old.marks) THEN "note" ELSE None

\* After a write: delete has more to write, create may have a setting to save.
Proceed(p) ==
  IF job[p].cmd = "delete" THEN Goto(p, "cascade") /\ UNCHANGED acked
  ELSE IF job[p].cmd = "create" /\ job[p].long # job[p].config
       THEN Goto(p, "saveConfig") /\ UNCHANGED acked
       ELSE Done(p)

\* ... and logs it: opens the log ...
OpenLog(p) ==
  /\ job[p].at = "openLog"
  /\ IF DetectChange(job[p].old, job[p].copy) = None THEN Proceed(p)
     ELSE /\ Become(p, [job[p] EXCEPT !.seen = log.replaced, !.at = "append"])
          /\ UNCHANGED acked
  /\ UNCHANGED <<files, wide, log, tmp, started, faults, history>>

\* ... and appends to the file it opened, which may have been replaced; an
\* error, of the opening or of the writing, is ignored.
LineOf(p) ==
  [tick |-> job[p].on, action |-> DetectChange(job[p].old, job[p].copy), n |-> job[p].n]

AppendLine(p) ==
  /\ job[p].at = "append"
  /\ log' = IF job[p].seen = log.replaced THEN [log EXCEPT !.lines = @ \cup {LineOf(p)}]
                                          ELSE log
  /\ Proceed(p)
  /\ UNCHANGED <<files, wide, tmp, started, faults, history>>

LogFails(p) ==
  /\ job[p].at = "append"
  /\ faults < MaxFaults
  /\ faults' = faults + 1
  /\ unlogged' = unlogged \cup {job[p].n}
  /\ Proceed(p)
  /\ UNCHANGED <<files, wide, log, tmp, started, alone, aged>>

-----------------------------------------------------------------------------
(***************************************************************************)
(* tk create, and the create handler of the board.                         *)
(***************************************************************************)

\* Whether an id is taken: tk create looks for the file, the board in the list
\* it has read.
Exists_Never(p, c) == FALSE
Exists(p, c) ==
  IF job[p].cmd = "boardCreate" THEN c \in DOMAIN job[p].listed ELSE files[c].there

NewFile(p) == [there |-> TRUE, marks |-> {job[p].n}, blockedBy |-> {job[p].other} \ {0}]

\* IDGenerator.Generate: three random ids of one length, three of the next.
TriesLeft_OneMore(p) == job[p].attempts < MaxAttempts
TriesLeft(p) == job[p].attempts + 1 < MaxAttempts

Generate(p) ==
  /\ job[p].at = "generate"
  /\ \E c \in IF job[p].long THEN Long ELSE Short :
       IF ~Exists(p, c)
       THEN /\ Become(p, [job[p] EXCEPT !.at = "writeAs", !.id = c, !.on = c,
                            !.copy = NewFile(p)])
            /\ UNCHANGED acked
       ELSE IF TriesLeft(p)
       THEN Become(p, [job[p] EXCEPT !.attempts = @ + 1]) /\ UNCHANGED acked
       ELSE IF ~job[p].long
       THEN Become(p, [job[p] EXCEPT !.attempts = 0, !.long = TRUE]) /\ UNCHANGED acked
       ELSE GiveUp(p)
  /\ UNCHANGED <<files, wide, log, tmp, started, faults, history>>

SaveConfig(p) ==
  /\ job[p].at = "saveConfig"
  /\ wide' = job[p].long
  /\ Done(p)
  /\ UNCHANGED <<files, log, tmp, started, faults, history>>

-----------------------------------------------------------------------------
(***************************************************************************)
(* Store.List: the directory, then each file in the order of its names.    *)
(***************************************************************************)
List(p) ==
  /\ job[p].at = "list"
  /\ Become(p, [job[p] EXCEPT !.at = "readNext", !.left = {t \in Ids : files[t].there}])
  /\ UNCHANGED <<files, wide, log, tmp, started, faults, acked, history>>

ReadNext(p) ==
  LET next == Min(job[p].left) IN
  /\ job[p].at = "readNext"
  /\ IF job[p].left = {}
     THEN /\ Goto(p, IF job[p].cmd = "delete" THEN "cascade" ELSE "generate")
          /\ UNCHANGED acked
     ELSE IF files[next].there
     THEN /\ Become(p, [job[p] EXCEPT !.left = @ \ {next},
                          !.listed = [t \in DOMAIN @ \cup {next} |->
                                        IF t = next THEN files[t] ELSE @[t]]])
          /\ UNCHANGED acked
     ELSE GiveUp(p)
  /\ UNCHANGED <<files, wide, log, tmp, started, faults, history>>

-----------------------------------------------------------------------------
(***************************************************************************)
(* tk delete: the file, then the references to it, one write each, of the  *)
(* copies that List returned.                                              *)
(***************************************************************************)
Remove(p) ==
  /\ job[p].at = "remove"
  /\ IF files[job[p].id].there
     THEN /\ files' = [files EXCEPT ![job[p].id] = Missing]
          /\ acked' = {a \in acked : a[1] # job[p].id}
          /\ Goto(p, "list")
     ELSE GiveUp(p) /\ UNCHANGED files
  /\ UNCHANGED <<wide, log, tmp, started, faults, history>>

Cascade_First(p) ==
  LET id   == job[p].id
      refs == {t \in DOMAIN job[p].listed : id \in job[p].listed[t].blockedBy} IN
  /\ job[p].at = "cascade"
  /\ IF refs = {} THEN Done(p)
     ELSE LET t == Min(refs) IN
          /\ Become(p, [job[p] EXCEPT !.at = "writeAs", !.on = t, !.listed = Nothing,
                          !.copy = [job[p].listed[t] EXCEPT !.blockedBy = @ \ {id}]])
          /\ UNCHANGED acked
  /\ UNCHANGED <<files, wide, log, tmp, started, faults, history>>

Cascade(p) ==
  LET id   == job[p].id
      refs == {t \in DOMAIN job[p].listed : id \in job[p].listed[t].blockedBy} IN
  /\ job[p].at = "cascade"
  /\ IF refs = {} THEN Done(p)
     ELSE LET t == Min(refs) IN
          /\ Become(p, [job[p] EXCEPT !.at = "writeAs", !.on = t,
                          !.copy = [job[p].listed[t] EXCEPT !.blockedBy = @ \ {id}],
                          !.listed = [u \in DOMAIN @ \ {t} |-> @[u]]])
          /\ UNCHANGED acked
  /\ UNCHANGED <<files, wide, log, tmp, started, faults, history>>

-----------------------------------------------------------------------------
(***************************************************************************)
(* tk gc: the log without the lines older than a cutoff, whatever command  *)
(* that is, goes to a temporary file of a fixed name and from there over   *)
(* the log.                                                                *)
(***************************************************************************)
Recent_Older(line, cutoff) == line.n <= cutoff
Recent(line, cutoff) == line.n > cutoff

Trim(p) ==
  /\ job[p].at = "trim"
  /\ \E cutoff \in 0 .. started :
       LET kept == {line \in log.lines : Recent(line, cutoff)} IN
       /\ IF kept = log.lines THEN Become(p, Idle)
          ELSE Become(p, [job[p] EXCEPT !.at = "trimWrite", !.kept = kept])
       /\ aged' = Max({aged, cutoff})
  /\ UNCHANGED <<files, wide, log, tmp, started, faults, acked, alone, unlogged>>

TrimWrite(p) ==
  /\ job[p].at = "trimWrite"
  /\ tmp' = [there |-> TRUE, lines |-> job[p].kept]
  /\ Goto(p, "trimRename")
  /\ UNCHANGED <<files, wide, log, started, faults, acked, history>>

TrimRename(p) ==
  /\ job[p].at = "trimRename"
  /\ log' = IF tmp.there THEN [replaced |-> log.replaced + 1, lines |-> tmp.lines] ELSE log
  /\ tmp' = NoTmp
  /\ Become(p, Idle)
  /\ UNCHANGED <<files, wide, started, faults, acked, history>>

-----------------------------------------------------------------------------
\* A command dies, or one of its file operations, other than on the log, fails.
Fail(p) ==
  /\ job[p].at # "idle"
  /\ faults < MaxFaults
  /\ faults' = faults + 1
  /\ Become(p, Idle)
  /\ UNCHANGED <<files, wide, log, tmp, started, acked, history>>

Continue(p) ==
  \/ Read(p) \/ Check(p)
  \/ WriteAs(p) \/ Rename(p) \/ OpenLog(p) \/ AppendLine(p) \/ LogFails(p)
  \/ Generate(p) \/ SaveConfig(p)
  \/ List(p) \/ ReadNext(p)
  \/ Remove(p) \/ Cascade(p)
  \/ Trim(p) \/ TrimWrite(p) \/ TrimRename(p)

Next == \E p \in Procs : Start(p) \/ Continue(p) \/ Fail(p)

Spec == Init /\ [][Next]_vars

-----------------------------------------------------------------------------
(***************************************************************************)
(* Properties.                                                             *)
(***************************************************************************)

\* What a command that was alone has reported written stays on its tick until
\* the tick is deleted: no later command writes it away, whether it edits the
\* tick, creates one of the same id or deletes a blocker of it, and however
\* many of them race one another.
NoLostUpdate == \A a \in acked : a[2] \in alone => a[2] \in files[a[1]].marks

\* A delete that was alone and reports success has left no tick that names the
\* deleted one as a blocker, however many named it, whatever else blocked them
\* and whatever racing or dying commands left behind before.
DeleteIsClean ==
  [][\A p \in Procs :
       job[p].cmd = "delete" /\ job[p].at = "cascade" /\ job'[p].at = "idle"
         /\ faults' = faults /\ job[p].n \in alone =>
       \A t \in Ids : job[p].id \notin files[t].blockedBy]_vars

\* Every note and every tick that a command which was alone has reported written
\* is in the activity log, unless its own line could not be written or a trim
\* had a cutoff beyond it: no trim takes a newer line away, whether it races
\* other commands or dies and leaves its temporary file to the next.
AllLogged ==
  \A a \in acked : a[2] \in alone =>
    \/ \E line \in log.lines : line.tick = a[1] /\ line.n = a[2]
    \/ a[2] \in unlogged
    \/ a[2] <= aged
=============================================================================
