--------------------------- MODULE TickStore_proofs ---------------------------
(***************************************************************************)
(* For any ids, commands and processes, of which any number may die at     *)
(* any file operation: the store keeps its types, and what a command that  *)
(* was alone reported written stays on its tick and in the log, however    *)
(* later commands race; a delete that was alone leaves no reference.       *)
(*                                                                         *)
(* None of the three is inductive.  A command that is alone knows what is  *)
(* on disk: Current says what that is at each of its steps, and is false   *)
(* as soon as another command begins.  What it leaves behind is in every   *)
(* copy that any later command holds: Sane says so, of every process.      *)
(***************************************************************************)
EXTENDS TickStore, FiniteSetTheorems, WellFoundedInduction, TLAPS

-----------------------------------------------------------------------------
(* The invariants.                                                         *)

Listings == UNION {[S -> File] : S \in SUBSET Ids}

Job ==
  [at : Step, cmd : Command, n : 0 .. MaxCommands, id : Ids \cup {0}, other : Ids \cup {0},
   on : Ids \cup {0}, attempts : 0 .. MaxAttempts - 1, config : BOOLEAN, long : BOOLEAN,
   copy : File, old : File, left : SUBSET Ids, listed : Listings,
   seen : Nat, kept : SUBSET Line]

Marking == {"create", "boardCreate", "note"}
Blocking == {"block", "addBlocker", "unblock"}
Before == {"writeAs", "rename"}
After == {"openLog", "append"}

\* The steps of a command.
StepsOf(cmd) ==
  CASE cmd \in {"note", "addBlocker", "unblock"} -> {"read"} \cup Before \cup After
    [] cmd = "block"       -> {"read", "check"} \cup Before \cup After
    [] cmd = "create"      -> {"generate", "saveConfig"} \cup Before \cup After
    [] cmd = "boardCreate" -> {"list", "readNext", "generate"} \cup Before \cup After
    [] cmd = "delete"      -> {"remove", "list", "readNext", "cascade"} \cup Before \cup After
    [] cmd = "gc"          -> {"trim", "trimWrite", "trimRename"}

\* A process at a step has what the step needs.
Ready(j) ==
  /\ j.at # "idle" => j.at \in StepsOf(j.cmd) /\ j.n \in Serial
  /\ j.at # "idle" /\ j.cmd \in Blocking \cup {"note", "delete"} => j.id \in Ids
  /\ j.cmd \in Blocking => j.other \in Ids
  /\ j.at \in {"read", "check"} => j.on = j.id
  /\ j.at \in Before \cup After \cup {"saveConfig"} => j.id \in Ids /\ j.on \in Ids
  /\ j.at = "append" => DetectChange(j.old, j.copy) # None

TypeInv ==
  /\ files \in [Ids -> File]
  /\ wide \in BOOLEAN
  /\ log \in [replaced : Nat, lines : SUBSET Line]
  /\ tmp \in [there : BOOLEAN, lines : SUBSET Line]
  /\ job \in [Procs -> Job]
  /\ \A p \in Procs : Ready(job[p])
  /\ started \in 0 .. MaxCommands /\ faults \in 0 .. MaxFaults
  /\ acked \subseteq Ids \X Serial
  /\ alone \subseteq Serial /\ unlogged \subseteq Serial /\ aged \in 0 .. MaxCommands

Busy(p) == job[p].at # "idle"

\* Commands that have begun at once are not alone.
Sole == \A p, q \in Procs : p # q /\ Busy(p) /\ Busy(q) => job[p].n \notin alone

\* A mark is on a tick only once its command has started, a file that is gone
\* has nothing.
Settled ==
  /\ \A t \in Ids : ~files[t].there => files[t] = Missing
  /\ \A t \in Ids : \A m \in files[t].marks : m <= started
  /\ \A a \in acked : a[2] <= started
  /\ \A n \in alone : n <= started

\* What commands that were alone have reported, and what the log owes them.
Promised == {a \in acked : a[2] \in alone}

InLog(a, lines) ==
  \/ \E line \in lines : line.tick = a[1] /\ line.n = a[2]
  \/ a[2] \in unlogged
  \/ a[2] <= aged

\* A copy of tick t that some command is going to write.
SaneCopy(t, copy) ==
  /\ copy.there
  /\ \A m \in copy.marks : m <= started
  /\ \A a \in Promised : a[1] = t => a[2] \in copy.marks

\* What any command that is under way has read holds all that was promised.
Sane(j) ==
  j.at # "idle" =>
    /\ j.n <= started
    /\ j.at \in {"check"} \cup Before => SaneCopy(j.on, j.copy)
    /\ \A t \in DOMAIN j.listed : SaneCopy(t, j.listed[t])
    /\ j.at = "readNext" => \A a \in Promised : a[1] \in j.left \cup DOMAIN j.listed
    /\ j.at = "generate" /\ j.cmd = "boardCreate" =>
         \A a \in Promised : a[1] \in DOMAIN j.listed
    /\ j.at = "trimWrite" => \A a \in Promised : InLog(a, j.kept)
    /\ j.at = "trimRename" /\ tmp.there => \A a \in Promised : InLog(a, tmp.lines)

Logged(t, n) == n \in unlogged \/ \E line \in log.lines : line.tick = t /\ line.n = n

\* What a command that adds a mark knows: nobody has the mark yet, the write
\* adds it and takes none away, and the log can tell.
MarkCurrent(j) ==
  /\ j.at \notin After \cup {"saveConfig"} => \A t \in Ids : j.n \notin files[t].marks
  /\ j.at \in Before \cup After \cup {"saveConfig"} => j.on = j.id /\ j.n \in j.copy.marks
  /\ j.at \in Before => DetectChange(files[j.on], j.copy) # None
  /\ j.at = "openLog" => DetectChange(j.old, j.copy) # None
  /\ j.at = "saveConfig" => Logged(j.id, j.n)

\* What a delete knows: it holds every file, as it is, that names its tick, but
\* for the one that it is writing.
DeleteCurrent(j) ==
  /\ j.at \in {"cascade"} \cup Before \cup After =>
       \A t \in Ids : t \in DOMAIN j.listed => j.listed[t] = files[t] /\ files[t].there
  /\ j.at = "cascade" =>
       \A t \in Ids : j.id \in files[t].blockedBy => t \in DOMAIN j.listed
  /\ j.at \in Before \cup After =>
       /\ j.on \notin DOMAIN j.listed
       /\ \A t \in Ids \ {j.on} : j.id \in files[t].blockedBy => t \in DOMAIN j.listed
       /\ j.id \notin j.copy.blockedBy

Current(j) ==
  /\ j.n = started
  /\ j.cmd \in Marking => MarkCurrent(j)
  /\ j.cmd = "delete" => DeleteCurrent(j)
  /\ j.at = "rename" => j.old = files[j.on]
  /\ j.at \in After \cup {"saveConfig"} => files[j.on] = j.copy
  /\ j.at = "append" => j.seen = log.replaced
  /\ j.at \in {"remove", "list"} => DOMAIN j.listed = {}
  /\ j.at = "readNext" =>
       /\ \A t \in Ids : files[t].there =>
            t \in j.left \/ (t \in DOMAIN j.listed /\ j.listed[t] = files[t])
       /\ \A t \in j.left \cup DOMAIN j.listed : files[t].there
  /\ j.at = "generate" /\ j.cmd = "boardCreate" =>
       \A t \in Ids : files[t].there => t \in DOMAIN j.listed

World == Settled /\ NoLostUpdate /\ AllLogged

Inv ==
  /\ World /\ Sole
  /\ \A p \in Procs : Sane(job[p])
  /\ \A p \in Procs : Busy(p) /\ job[p].n \in alone => Current(job[p])

USE DEF history

-----------------------------------------------------------------------------
(* Operators.                                                              *)

\* A set of naturals has a least one, which Min is.
LEMMA LeastNumber ==
  ASSUME NEW S, S \subseteq Nat, S # {}
  PROVE  Min(S) \in S
<1> DEFINE R == {ss \in Nat \X Nat : ss[1] < ss[2]}
<1>1. IsWellFoundedOn(R, Nat)
  BY NatLessThanWellFounded, Zenon DEF OpToRel
<1>2. \A x, y \in Nat : <<x, y>> \in R <=> x < y
  OBVIOUS
<1> HIDE DEF R
<1>3. PICK x \in S : \A y \in S : ~ (<<y, x>> \in R)
  BY <1>1, WFMin
<1>4. \A y \in S : ~(y < x)
  BY <1>2, <1>3
<1>5. \A y \in S : x =< y
  BY <1>4
<1> QED
  BY <1>5 DEF Min

LEMMA LeastId ==
  ASSUME NEW S, S \subseteq Ids, S # {}
  PROVE  Min(S) \in S /\ Min(S) \in Ids
BY LeastNumber, TickStoreAssumption

\* The later of two cutoffs.
LEMMA LaterCutoff ==
  ASSUME NEW a \in Nat, NEW c \in Nat
  PROVE  /\ Max({a, c}) \in {a, c}
         /\ a <= Max({a, c}) /\ c <= Max({a, c})
<1>1. \E x \in {a, c} : \A y \in {a, c} : y <= x
  <2>1. CASE a <= c
    BY <2>1
  <2>2. CASE c <= a
    BY <2>2
  <2> QED
    BY <2>1, <2>2
<1> QED
  BY <1>1 DEF Max

LEMMA FileFacts ==
  /\ Missing \in File /\ ~Missing.there /\ Missing.marks = {} /\ Missing.blockedBy = {}
  /\ \A f \in File : f.there \in BOOLEAN /\ f.marks \subseteq Serial /\ f.blockedBy \subseteq Ids
BY DEF Missing, File

LEMMA ListingFacts ==
  /\ Nothing \in Listings /\ DOMAIN Nothing = {}
  /\ \A l \in Listings : DOMAIN l \subseteq Ids /\ \A t \in DOMAIN l : l[t] \in File
  /\ \A S \in SUBSET Ids : \A l \in [S -> File] : l \in Listings
BY DEF Nothing, Listings

LEMMA IdleFacts ==
  /\ Idle \in Job /\ Ready(Idle)
  /\ Idle.at = "idle" /\ Idle.cmd = "note"
<1>1. Idle.listed \in Listings
  BY ListingFacts DEF Idle
<1> QED
  BY <1>1, FileFacts, TickStoreAssumption
     DEF Idle, Job, Ready, Step, Command, MaxAttempts, Before, After, Blocking

LEMMA JobFacts ==
  ASSUME NEW j \in Job
  PROVE  /\ j.at \in Step /\ j.cmd \in Command /\ j.n \in 0 .. MaxCommands
         /\ j.id \in Ids \cup {0} /\ j.other \in Ids \cup {0} /\ j.on \in Ids \cup {0}
         /\ j.attempts \in 0 .. MaxAttempts - 1
         /\ j.config \in BOOLEAN /\ j.long \in BOOLEAN
         /\ j.copy \in File /\ j.old \in File
         /\ j.left \subseteq Ids /\ j.listed \in Listings
         /\ j.seen \in Nat /\ j.kept \subseteq Line
BY DEF Job

\* What a line says happened is an action, if something did.
LEMMA DetectChangeType ==
  \A old, new : DetectChange(old, new) \in Action \cup {None}
BY DEF DetectChange, Action

-----------------------------------------------------------------------------
(* Types.                                                                  *)

\* The process that takes a step is the only one whose job changes.
LEMMA BecomeReady ==
  ASSUME TypeInv, NEW p \in Procs, NEW j \in Job, Ready(j), Become(p, j)
  PROVE  job' \in [Procs -> Job] /\ \A q \in Procs : Ready(job'[q])
BY DEF TypeInv, Become

\* Steps that change no file, no log and no count, and end or promise nothing.
LEMMA MoveReady ==
  ASSUME TypeInv, NEW p \in Procs, NEW j \in Job, Ready(j), Become(p, j),
         UNCHANGED <<files, wide, log, tmp, started, faults, history>>,
         acked' \subseteq Ids \X Serial
  PROVE  TypeInv'
BY BecomeReady DEF TypeInv

LEMMA GiveUpReady ==
  ASSUME TypeInv, NEW p \in Procs, GiveUp(p)
  PROVE  /\ job' \in [Procs -> Job] /\ \A q \in Procs : Ready(job'[q])
         /\ acked' = acked
BY BecomeReady, IdleFacts DEF GiveUp

LEMMA DoneReady ==
  ASSUME TypeInv, NEW p \in Procs, Done(p),
         job[p].cmd \in Marking => job[p].id \in Ids /\ job[p].n \in Serial
  PROVE  /\ job' \in [Procs -> Job] /\ \A q \in Procs : Ready(job'[q])
         /\ acked' \subseteq Ids \X Serial
<1>1. Become(p, Idle)
  BY DEF Done
<1>2. acked' \subseteq Ids \X Serial
  BY DEF Done, TypeInv, Marking
<1> QED
  BY <1>1, <1>2, BecomeReady, IdleFacts

\* Going on with the next step of the command.
LEMMA GotoReady ==
  ASSUME TypeInv, NEW p \in Procs, NEW at \in Step, Goto(p, at),
         Ready([job[p] EXCEPT !.at = at])
  PROVE  job' \in [Procs -> Job] /\ \A q \in Procs : Ready(job'[q])
<1>1. job[p] \in Job
  BY DEF TypeInv
<1>2. [job[p] EXCEPT !.at = at] \in Job
  BY <1>1 DEF Job
<1> QED
  BY <1>2, BecomeReady DEF Goto

LEMMA ProceedReady ==
  ASSUME TypeInv, NEW p \in Procs, job[p].at \in After, Proceed(p)
  PROVE  /\ job' \in [Procs -> Job] /\ \A q \in Procs : Ready(job'[q])
         /\ acked' \subseteq Ids \X Serial
<1>1. /\ job[p] \in Job /\ Ready(job[p]) /\ acked \subseteq Ids \X Serial
      /\ job[p].at # "idle"
  BY DEF TypeInv, After
<1>2. job[p].id \in Ids /\ job[p].n \in Serial /\ job[p].on \in Ids
  BY <1>1 DEF Ready
<1>3. CASE job[p].cmd = "delete"
  <2>1. Goto(p, "cascade") /\ acked' = acked
    BY <1>3 DEF Proceed
  <2>2. Ready([job[p] EXCEPT !.at = "cascade"])
    BY <1>1, <1>2, <1>3 DEF Ready, Job, StepsOf, Before, After, Blocking
  <2> QED
    BY <1>1, <2>1, <2>2, GotoReady DEF Step
<1>4. CASE job[p].cmd = "create" /\ job[p].long # job[p].config
  <2>1. Goto(p, "saveConfig") /\ acked' = acked
    BY <1>4 DEF Proceed
  <2>2. Ready([job[p] EXCEPT !.at = "saveConfig"])
    BY <1>1, <1>2, <1>4 DEF Ready, Job, StepsOf, Before, After, Blocking
  <2> QED
    BY <1>1, <2>1, <2>2, GotoReady DEF Step
<1>5. CASE job[p].cmd # "delete" /\ ~(job[p].cmd = "create" /\ job[p].long # job[p].config)
  <2>1. Done(p)
    BY <1>5 DEF Proceed
  <2> QED
    BY <1>2, <2>1, DoneReady
<1> QED
  BY <1>3, <1>4, <1>5

LEMMA TypeInit == Init => TypeInv
<1> SUFFICES ASSUME Init PROVE TypeInv
  OBVIOUS
<1>1. files \in [Ids -> File]
  <2>1. \A f \in {Missing} \cup [there : {TRUE}, marks : {{}}, blockedBy : SUBSET Existing] :
          f \in File
    BY FileFacts, TickStoreAssumption DEF File
  <2> QED
    BY <2>1 DEF Init
<1>2. log \in [replaced : Nat, lines : SUBSET Line]
  <2>1. \A t \in Existing : [tick |-> t, action |-> "create", n |-> 0] \in Line
    BY TickStoreAssumption DEF Line, Action
  <2> QED
    BY <2>1 DEF Init
<1>3. tmp \in [there : BOOLEAN, lines : SUBSET Line]
  BY DEF Init, NoTmp
<1>4. job \in [Procs -> Job] /\ \A p \in Procs : Ready(job[p])
  BY IdleFacts DEF Init
<1>5. wide \in BOOLEAN /\ acked \subseteq Ids \X Serial
  BY DEF Init
<1>6. /\ started \in 0 .. MaxCommands /\ faults \in 0 .. MaxFaults
      /\ alone \subseteq Serial /\ unlogged \subseteq Serial /\ aged \in 0 .. MaxCommands
  BY TickStoreAssumption DEF Init
<1> QED
  BY <1>1, <1>2, <1>3, <1>4, <1>5, <1>6 DEF TypeInv

\* What holds of a job at any step, for the steps below.
LEMMA JobReady ==
  ASSUME TypeInv, NEW p \in Procs
  PROVE  /\ job[p] \in Job /\ Ready(job[p])
         /\ started \in Nat /\ started \in 0 .. MaxCommands
         /\ files \in [Ids -> File] /\ acked \subseteq Ids \X Serial
BY DEF TypeInv

LEMMA StartType ==
  ASSUME TypeInv, NEW p \in Procs, Start(p)
  PROVE  TypeInv'
<1> DEFINE J(cmd, at, id, other) ==
             [Idle EXCEPT !.at = at, !.cmd = cmd, !.n = started + 1, !.id = id,
                          !.other = other, !.on = id,
                          !.config = wide, !.long = (cmd = "create") /\ wide]
<1>1. ASSUME NEW cmd \in Command, NEW at \in StepsOf(cmd), at \in Step,
             at \notin {"check", "append", "saveConfig"} \cup Before \cup After,
             NEW id \in Ids \cup {0}, NEW other \in Ids \cup {0},
             cmd \in Blocking \cup {"note", "delete"} => id \in Ids,
             cmd \in Blocking => other \in Ids,
             Begin(p, cmd, at, id, other)
      PROVE  TypeInv'
  <2>1. started < MaxCommands /\ started' = started + 1 /\ Become(p, J(cmd, at, id, other))
        /\ UNCHANGED <<files, wide, log, tmp, faults, acked, unlogged, aged>>
        /\ alone' \subseteq alone \cup {started + 1}
    BY <1>1 DEF Begin
  <2>2. started + 1 \in Serial /\ started' \in 0 .. MaxCommands /\ wide \in BOOLEAN
        /\ started + 1 \in 0 .. MaxCommands
    BY <2>1, TickStoreAssumption DEF TypeInv, Serial
  <2>3. J(cmd, at, id, other) \in Job
    BY <1>1, <2>2, IdleFacts DEF Job
  <2>4. Ready(J(cmd, at, id, other))
    BY <1>1, <2>2, IdleFacts DEF Job, Ready, After
  <2> HIDE DEF J
  <2> QED
    BY <2>1, <2>2, <2>3, <2>4, BecomeReady DEF TypeInv
<1> USE DEF StepsOf, Step, Command, Before, After, Blocking
<1>2. ASSUME NEW b \in Ids \cup {0}, Begin(p, "create", "generate", 0, b)
      PROVE  TypeInv'
  BY <1>1, <1>2
<1>3. CASE Begin(p, "boardCreate", "list", 0, 0)
  BY <1>1, <1>3
<1>4. CASE Begin(p, "gc", "trim", 0, 0)
  BY <1>1, <1>4
<1>5. ASSUME NEW t \in Ids, Begin(p, "note", "read", t, 0) \/ Begin(p, "delete", "remove", t, 0)
      PROVE  TypeInv'
  <2>1. CASE Begin(p, "note", "read", t, 0)
    BY <1>1, <2>1
  <2>2. CASE Begin(p, "delete", "remove", t, 0)
    BY <1>1, <2>2
  <2> QED
    BY <1>5, <2>1, <2>2
<1>6. ASSUME NEW t \in Ids, NEW b \in Ids, NEW cmd \in {"block", "addBlocker", "unblock"},
             Begin(p, cmd, "read", t, b)
      PROVE  TypeInv'
  BY <1>1, <1>6
<1> QED
  BY <1>2, <1>3, <1>4, <1>5, <1>6 DEF Start

\* What a command makes of the file it has read.
LEMMA ChangedType ==
  ASSUME NEW p \in Procs, NEW f \in File, job[p] \in Job, f.there,
         job[p].cmd \in Blocking \cup {"note"},
         job[p].cmd = "note" => job[p].n \in Serial,
         job[p].cmd \in Blocking => job[p].other \in Ids
  PROVE  /\ Changed(p, f) \in File
         /\ f.marks \subseteq Changed(p, f).marks /\ Changed(p, f).there
         /\ Changed(p, f).marks \subseteq f.marks \cup {job[p].n}
         /\ job[p].cmd = "note" => Changed(p, f) = [f EXCEPT !.marks = @ \cup {job[p].n}]
<1>1. CASE job[p].cmd = "note"
  BY <1>1 DEF Changed, File
<1>2. CASE job[p].cmd \in {"block", "addBlocker"}
  <2>1. Changed(p, f) = [f EXCEPT !.blockedBy = @ \cup {job[p].other}]
    BY <1>2 DEF Changed
  <2> QED
    BY <1>2, <2>1 DEF File, Blocking
<1>3. CASE job[p].cmd = "unblock"
  <2>1. Changed(p, f) = [f EXCEPT !.blockedBy = @ \ {job[p].other}]
    BY <1>3 DEF Changed
  <2> QED
    BY <1>3, <2>1 DEF File, Blocking
<1> QED
  BY <1>1, <1>2, <1>3 DEF Blocking

LEMMA ReadJob ==
  ASSUME TypeInv, NEW p \in Procs, Read(p), files[job[p].id].there
  PROVE  LET j == [job[p] EXCEPT !.copy = Changed(p, files[job[p].id]),
                     !.at = IF job[p].cmd = "block" THEN "check" ELSE "writeAs"]
         IN  j \in Job /\ Ready(j) /\ Become(p, j) /\ acked' = acked
<1> DEFINE j == [job[p] EXCEPT !.copy = Changed(p, files[job[p].id]),
                   !.at = IF job[p].cmd = "block" THEN "check" ELSE "writeAs"]
<1>1. job[p].at = "read" /\ Become(p, j) /\ acked' = acked
  BY DEF Read
<1>2. /\ job[p] \in Job /\ job[p].cmd \in Blocking \cup {"note"} /\ job[p].n \in Serial
      /\ job[p].id \in Ids /\ job[p].on = job[p].id
      /\ job[p].cmd \in Blocking => job[p].other \in Ids
      /\ files[job[p].id] \in File
  BY <1>1, JobReady, JobFacts DEF Ready, StepsOf, Command, Blocking, Before, After
<1>3. Changed(p, files[job[p].id]) \in File
  BY <1>2, ChangedType
<1>4. j \in Job
  BY <1>2, <1>3 DEF Job, Step
<1>5. Ready(j)
  BY <1>1, <1>2, <1>3 DEF Ready, Job, StepsOf, Before, After, Blocking
<1> QED
  BY <1>1, <1>4, <1>5

LEMMA ReadType ==
  ASSUME TypeInv, NEW p \in Procs, Read(p)
  PROVE  TypeInv'
<1>1. UNCHANGED <<files, wide, log, tmp, started, faults, history>>
  BY DEF Read
<1>2. CASE files[job[p].id].there
  BY <1>1, <1>2, ReadJob, MoveReady, JobReady
<1>3. CASE ~files[job[p].id].there
  <2>1. GiveUp(p)
    BY <1>3 DEF Read
  <2> QED
    BY <1>1, <2>1, GiveUpReady DEF TypeInv
<1> QED
  BY <1>2, <1>3

LEMMA CheckType ==
  ASSUME TypeInv, NEW p \in Procs, Check(p)
  PROVE  TypeInv'
<1>1. UNCHANGED <<files, wide, log, tmp, started, faults, history>> /\ job[p].at = "check"
  BY DEF Check
<1>2. CASE files[job[p].other].there
  <2>1. Goto(p, "writeAs") /\ acked' = acked
    BY <1>2 DEF Check
  <2>2. Ready([job[p] EXCEPT !.at = "writeAs"])
    BY <1>1, JobReady, JobFacts
       DEF Ready, Job, StepsOf, Before, After, Blocking, Command
  <2> QED
    BY <1>1, <2>1, <2>2, GotoReady DEF TypeInv, Step
<1>3. CASE ~files[job[p].other].there
  <2>1. GiveUp(p)
    BY <1>3 DEF Check
  <2> QED
    BY <1>1, <2>1, GiveUpReady DEF TypeInv
<1> QED
  BY <1>2, <1>3

LEMMA WriteAsType ==
  ASSUME TypeInv, NEW p \in Procs, WriteAs(p)
  PROVE  TypeInv'
<1> DEFINE j == [job[p] EXCEPT !.old = files[job[p].on], !.at = "rename"]
<1>1. /\ job[p].at = "writeAs" /\ Become(p, j)
      /\ UNCHANGED <<files, wide, log, tmp, started, faults, acked, history>>
  BY DEF WriteAs
<1>2. /\ job[p] \in Job /\ Ready(job[p]) /\ job[p].on \in Ids /\ files[job[p].on] \in File
  BY <1>1, JobReady DEF Ready, Before
<1>3. j \in Job
  BY <1>2 DEF Job, Step
<1>4. Ready(j)
  BY <1>1, <1>2, JobFacts DEF Ready, Job, StepsOf, Before, After, Blocking, Command
<1> QED
  BY <1>1, <1>3, <1>4, MoveReady, JobReady

LEMMA RenameType ==
  ASSUME TypeInv, NEW p \in Procs, Rename(p)
  PROVE  TypeInv'
<1>1. /\ job[p].at = "rename" /\ Goto(p, "openLog")
      /\ files' = [files EXCEPT ![job[p].on] = job[p].copy]
      /\ UNCHANGED <<wide, log, tmp, started, faults, acked, history>>
  BY DEF Rename
<1>2. /\ job[p] \in Job /\ Ready(job[p]) /\ job[p].copy \in File
  BY JobReady, JobFacts
<1>3. files' \in [Ids -> File]
  BY <1>1, <1>2 DEF TypeInv
<1>4. Ready([job[p] EXCEPT !.at = "openLog"])
  BY <1>1, <1>2, JobFacts DEF Ready, Job, StepsOf, Before, After, Blocking, Command
<1> QED
  BY <1>1, <1>3, <1>4, GotoReady DEF TypeInv, Step

LEMMA OpenLogType ==
  ASSUME TypeInv, NEW p \in Procs, OpenLog(p)
  PROVE  TypeInv'
<1>1. job[p].at = "openLog" /\ UNCHANGED <<files, wide, log, tmp, started, faults, history>>
  BY DEF OpenLog
<1>2. CASE DetectChange(job[p].old, job[p].copy) = None
  <2>1. Proceed(p)
    BY <1>2 DEF OpenLog
  <2> QED
    BY <1>1, <2>1, ProceedReady DEF TypeInv, After
<1>3. CASE DetectChange(job[p].old, job[p].copy) # None
  <2> DEFINE j == [job[p] EXCEPT !.seen = log.replaced, !.at = "append"]
  <2>1. Become(p, j) /\ acked' = acked
    BY <1>3 DEF OpenLog
  <2>2. job[p] \in Job /\ Ready(job[p]) /\ log.replaced \in Nat
    BY DEF TypeInv
  <2>3. j \in Job
    BY <2>2 DEF Job, Step
  <2>4. Ready(j)
    BY <1>1, <1>3, <2>2, JobFacts DEF Ready, Job, StepsOf, Before, After, Blocking, Command
  <2> QED
    BY <1>1, <2>1, <2>3, <2>4, MoveReady, JobReady
<1> QED
  BY <1>2, <1>3

LEMMA LineType ==
  ASSUME TypeInv, NEW p \in Procs, job[p].at = "append"
  PROVE  LineOf(p) \in Line
<1>1. /\ job[p] \in Job /\ Ready(job[p])
  BY JobReady
<1>2. job[p].on \in Ids /\ job[p].n \in 0 .. MaxCommands
      /\ DetectChange(job[p].old, job[p].copy) # None
  BY <1>1, JobFacts DEF Ready, After
<1> QED
  BY <1>2, DetectChangeType DEF LineOf, Line

LEMMA AppendLineType ==
  ASSUME TypeInv, NEW p \in Procs, AppendLine(p)
  PROVE  TypeInv'
<1>1. /\ job[p].at = "append" /\ Proceed(p)
      /\ log' = IF job[p].seen = log.replaced THEN [log EXCEPT !.lines = @ \cup {LineOf(p)}]
                                              ELSE log
      /\ UNCHANGED <<files, wide, tmp, started, faults, history>>
  BY DEF AppendLine
<1>2. log' \in [replaced : Nat, lines : SUBSET Line]
  BY <1>1, LineType DEF TypeInv
<1> QED
  BY <1>1, <1>2, ProceedReady DEF TypeInv, After

LEMMA LogFailsType ==
  ASSUME TypeInv, NEW p \in Procs, LogFails(p)
  PROVE  TypeInv'
<1>1. /\ job[p].at = "append" /\ Proceed(p) /\ faults' \in 0 .. MaxFaults
      /\ unlogged' = unlogged \cup {job[p].n}
      /\ UNCHANGED <<files, wide, log, tmp, started, alone, aged>>
  BY TickStoreAssumption DEF LogFails, TypeInv
<1>2. job[p].n \in Serial
  BY <1>1, JobReady DEF Ready
<1> QED
  BY <1>1, <1>2, ProceedReady DEF TypeInv, After

\* The job with the id that it has found.
LEMMA FoundJob ==
  ASSUME TypeInv, NEW p \in Procs, job[p].at = "generate", NEW c \in Ids
  PROVE  LET j == [job[p] EXCEPT !.at = "writeAs", !.id = c, !.on = c, !.copy = NewFile(p)]
         IN  j \in Job /\ Ready(j) /\ NewFile(p) \in File
<1> DEFINE j == [job[p] EXCEPT !.at = "writeAs", !.id = c, !.on = c, !.copy = NewFile(p)]
<1>1. /\ job[p] \in Job /\ Ready(job[p]) /\ job[p].cmd \in {"create", "boardCreate"}
      /\ job[p].n \in Serial /\ job[p].other \in Ids \cup {0}
  BY JobReady, JobFacts DEF Ready, StepsOf, Before, After, Command
<1>2. NewFile(p) \in File
  BY <1>1, TickStoreAssumption DEF NewFile, File
<1>3. j \in Job
  BY <1>1, <1>2 DEF Job, Step
<1>4. Ready(j)
  BY <1>1, <1>2 DEF Ready, Job, StepsOf, Before, After, Blocking
<1> QED
  BY <1>2, <1>3, <1>4

LEMMA GenerateType ==
  ASSUME TypeInv, NEW p \in Procs, Generate(p)
  PROVE  TypeInv'
<1>1. job[p].at = "generate" /\ UNCHANGED <<files, wide, log, tmp, started, faults, history>>
  BY DEF Generate
<1>2. /\ job[p] \in Job /\ Ready(job[p]) /\ job[p].attempts \in 0 .. MaxAttempts - 1
  BY JobReady, JobFacts
<1>3. PICK c \in IF job[p].long THEN Long ELSE Short :
        IF ~Exists(p, c)
        THEN /\ Become(p, [job[p] EXCEPT !.at = "writeAs", !.id = c, !.on = c,
                             !.copy = NewFile(p)])
             /\ UNCHANGED acked
        ELSE IF TriesLeft(p)
        THEN Become(p, [job[p] EXCEPT !.attempts = @ + 1]) /\ UNCHANGED acked
        ELSE IF ~job[p].long
        THEN Become(p, [job[p] EXCEPT !.attempts = 0, !.long = TRUE]) /\ UNCHANGED acked
        ELSE GiveUp(p)
  BY DEF Generate
<1>4. CASE ~Exists(p, c)
  <2>1. c \in Ids
    BY <1>3 DEF Ids
  <2> QED
    BY <1>1, <1>3, <1>4, <2>1, FoundJob, MoveReady, JobReady
<1>5. CASE Exists(p, c) /\ TriesLeft(p)
  <2> DEFINE j == [job[p] EXCEPT !.attempts = @ + 1]
  <2>1. job[p].attempts + 1 \in 0 .. MaxAttempts - 1
    BY <1>2, <1>5 DEF TriesLeft, MaxAttempts
  <2>2. j \in Job
    BY <1>2, <2>1 DEF Job
  <2>3. Ready(j)
    BY <1>1, <1>2, <2>2 DEF Ready, Job
  <2> QED
    BY <1>1, <1>3, <1>5, <2>2, <2>3, MoveReady, JobReady
<1>6. CASE Exists(p, c) /\ ~TriesLeft(p) /\ ~job[p].long
  <2> DEFINE j == [job[p] EXCEPT !.attempts = 0, !.long = TRUE]
  <2>0. 0 \in 0 .. MaxAttempts - 1
    BY DEF MaxAttempts
  <2>1. j \in Job
    BY <1>2, <2>0 DEF Job
  <2>2. Ready(j)
    BY <1>1, <1>2, <2>1 DEF Ready, Job
  <2> QED
    BY <1>1, <1>3, <1>6, <2>1, <2>2, MoveReady, JobReady
<1>7. CASE Exists(p, c) /\ ~TriesLeft(p) /\ job[p].long
  BY <1>1, <1>3, <1>7, GiveUpReady DEF TypeInv
<1> QED
  BY <1>4, <1>5, <1>6, <1>7

LEMMA SaveConfigType ==
  ASSUME TypeInv, NEW p \in Procs, SaveConfig(p)
  PROVE  TypeInv'
<1>1. /\ job[p].at = "saveConfig" /\ wide' = job[p].long /\ Done(p)
      /\ UNCHANGED <<files, log, tmp, started, faults, history>>
  BY DEF SaveConfig
<1>2. job[p].long \in BOOLEAN /\ job[p].id \in Ids /\ job[p].n \in Serial
  BY <1>1, JobReady, JobFacts DEF Ready
<1> QED
  BY <1>1, <1>2, DoneReady DEF TypeInv

LEMMA ListType ==
  ASSUME TypeInv, NEW p \in Procs, List(p)
  PROVE  TypeInv'
<1> DEFINE j == [job[p] EXCEPT !.at = "readNext", !.left = {t \in Ids : files[t].there}]
<1>1. /\ job[p].at = "list" /\ Become(p, j)
      /\ UNCHANGED <<files, wide, log, tmp, started, faults, acked, history>>
  BY DEF List
<1>2. job[p] \in Job /\ Ready(job[p])
  BY JobReady
<1>3. j \in Job
  BY <1>2 DEF Job, Step
<1>4. Ready(j)
  BY <1>1, <1>2, JobFacts DEF Ready, Job, StepsOf, Before, After, Blocking, Command
<1> QED
  BY <1>1, <1>3, <1>4, MoveReady, JobReady

\* The job with one more file read.
LEMMA ReadNextJob ==
  ASSUME TypeInv, NEW p \in Procs, job[p].at = "readNext", job[p].left # {}
  PROVE  LET next == Min(job[p].left)
             j == [job[p] EXCEPT !.left = @ \ {next},
                     !.listed = [t \in DOMAIN @ \cup {next} |->
                                   IF t = next THEN files[t] ELSE @[t]]]
         IN  next \in job[p].left /\ next \in Ids /\ j \in Job /\ Ready(j)
<1> DEFINE next == Min(job[p].left)
           listed == [t \in DOMAIN job[p].listed \cup {next} |->
                        IF t = next THEN files[t] ELSE job[p].listed[t]]
           j == [job[p] EXCEPT !.left = @ \ {next},
                   !.listed = [t \in DOMAIN @ \cup {next} |->
                                 IF t = next THEN files[t] ELSE @[t]]]
<1>1. /\ job[p] \in Job /\ Ready(job[p]) /\ files \in [Ids -> File]
      /\ job[p].left \subseteq Ids /\ job[p].listed \in Listings
  BY JobReady, JobFacts
<1>2. next \in job[p].left /\ next \in Ids
  BY <1>1, LeastId
<1>3. listed \in Listings
  <2>1. DOMAIN job[p].listed \subseteq Ids /\ \A t \in DOMAIN job[p].listed : job[p].listed[t] \in File
    BY <1>1, ListingFacts
  <2>2. listed \in [DOMAIN job[p].listed \cup {next} -> File]
    BY <1>1, <1>2, <2>1
  <2> QED
    BY <1>2, <2>1, <2>2 DEF Listings
<1>4. j = [job[p] EXCEPT !.left = @ \ {next}, !.listed = listed]
  BY <1>1 DEF Job
<1> HIDE DEF next, listed
<1>5. [job[p] EXCEPT !.left = @ \ {next}, !.listed = listed] \in Job
  BY <1>1, <1>3 DEF Job
<1>6. Ready([job[p] EXCEPT !.left = @ \ {next}, !.listed = listed])
  BY <1>1 DEF Ready, Job
<1> QED
  BY <1>2, <1>4, <1>5, <1>6 DEF next

LEMMA ReadNextType ==
  ASSUME TypeInv, NEW p \in Procs, ReadNext(p)
  PROVE  TypeInv'
<1>1. job[p].at = "readNext" /\ UNCHANGED <<files, wide, log, tmp, started, faults, history>>
  BY DEF ReadNext
<1>2. CASE job[p].left = {}
  <2> DEFINE at == IF job[p].cmd = "delete" THEN "cascade" ELSE "generate"
  <2>1. Goto(p, at) /\ acked' = acked /\ at \in Step
    BY <1>2 DEF ReadNext, Step
  <2>2. Ready([job[p] EXCEPT !.at = at])
    BY <1>1, JobReady, JobFacts DEF Ready, Job, StepsOf, Before, After, Blocking, Command
  <2> QED
    BY <1>1, <2>1, <2>2, GotoReady DEF TypeInv
<1>3. CASE job[p].left # {} /\ files[Min(job[p].left)].there
  <2> DEFINE next == Min(job[p].left)
             j == [job[p] EXCEPT !.left = @ \ {next},
                     !.listed = [t \in DOMAIN @ \cup {next} |->
                                   IF t = next THEN files[t] ELSE @[t]]]
  <2>1. Become(p, j) /\ acked' = acked
    BY <1>3 DEF ReadNext
  <2>2. j \in Job /\ Ready(j)
    BY <1>1, <1>3, ReadNextJob
  <2> HIDE DEF j
  <2> QED
    BY <1>1, <2>1, <2>2, MoveReady, JobReady
<1>4. CASE job[p].left # {} /\ ~files[Min(job[p].left)].there
  <2>1. GiveUp(p)
    BY <1>4 DEF ReadNext
  <2> QED
    BY <1>1, <2>1, GiveUpReady DEF TypeInv
<1> QED
  BY <1>2, <1>3, <1>4

LEMMA RemoveType ==
  ASSUME TypeInv, NEW p \in Procs, Remove(p)
  PROVE  TypeInv'
<1>1. job[p].at = "remove" /\ UNCHANGED <<wide, log, tmp, started, faults, history>>
  BY DEF Remove
<1>2. CASE files[job[p].id].there
  <2>1. /\ files' = [files EXCEPT ![job[p].id] = Missing]
        /\ acked' = {a \in acked : a[1] # job[p].id}
        /\ Goto(p, "list")
    BY <1>2 DEF Remove
  <2>2. files' \in [Ids -> File] /\ acked' \subseteq Ids \X Serial
    BY <2>1, FileFacts DEF TypeInv
  <2>3. Ready([job[p] EXCEPT !.at = "list"])
    BY <1>1, JobReady, JobFacts DEF Ready, Job, StepsOf, Before, After, Blocking, Command
  <2> QED
    BY <1>1, <2>1, <2>2, <2>3, GotoReady DEF TypeInv, Step
<1>3. CASE ~files[job[p].id].there
  <2>1. GiveUp(p) /\ files' = files
    BY <1>3 DEF Remove
  <2> QED
    BY <1>1, <2>1, GiveUpReady DEF TypeInv
<1> QED
  BY <1>2, <1>3

\* The ticks that a delete has yet to write, and its job at one of them.
Refs(j) == {t \in DOMAIN j.listed : j.id \in j.listed[t].blockedBy}

CascadeJob(j) ==
  LET t == Min(Refs(j)) IN
  [j EXCEPT !.at = "writeAs", !.on = t,
            !.copy = [j.listed[t] EXCEPT !.blockedBy = @ \ {j.id}],
            !.listed = [u \in DOMAIN @ \ {t} |-> @[u]]]

LEMMA CascadeSteps ==
  ASSUME NEW p \in Procs, Cascade(p)
  PROVE  /\ job[p].at = "cascade" /\ UNCHANGED <<files, wide, log, tmp, started, faults, history>>
         /\ Refs(job[p]) = {} => Done(p)
         /\ Refs(job[p]) # {} => Become(p, CascadeJob(job[p])) /\ acked' = acked
BY DEF Cascade, Refs, CascadeJob

LEMMA CascadeJobType ==
  ASSUME TypeInv, NEW p \in Procs, job[p].at = "cascade", Refs(job[p]) # {}
  PROVE  LET j == job[p]
             t == Min(Refs(j))
             k == CascadeJob(j)
         IN  /\ t \in Refs(j) /\ t \in Ids /\ k \in Job /\ Ready(k)
             /\ k.at = "writeAs" /\ k.on = t /\ k.cmd = j.cmd /\ k.id = j.id /\ k.n = j.n
             /\ k.copy = [j.listed[t] EXCEPT !.blockedBy = @ \ {j.id}] /\ k.copy \in File
             /\ DOMAIN k.listed = DOMAIN j.listed \ {t}
             /\ \A u \in DOMAIN k.listed : k.listed[u] = j.listed[u]
<1> DEFINE j == job[p]
           t == Min(Refs(j))
           copy == [j.listed[t] EXCEPT !.blockedBy = @ \ {j.id}]
           listed == [u \in DOMAIN j.listed \ {t} |-> j.listed[u]]
           k == [j EXCEPT !.at = "writeAs", !.on = t, !.copy = copy, !.listed = listed]
<1>1. j \in Job /\ Ready(j) /\ j.listed \in Listings /\ j.cmd = "delete" /\ j.id \in Ids
  BY JobReady, JobFacts DEF Ready, StepsOf, Before, After, Command
<1>2. DOMAIN j.listed \subseteq Ids /\ \A u \in DOMAIN j.listed : j.listed[u] \in File
  BY <1>1, ListingFacts
<1>3. t \in Refs(j) /\ t \in Ids
  BY <1>2, LeastId DEF Refs
<1>4. copy \in File
  BY <1>2, <1>3 DEF File, Refs
<1>5. listed \in Listings
  <2>1. listed \in [DOMAIN j.listed \ {t} -> File]
    BY <1>2
  <2> QED
    BY <1>2, <2>1 DEF Listings
<1>6. DOMAIN listed = DOMAIN j.listed \ {t} /\ \A u \in DOMAIN listed : listed[u] = j.listed[u]
  OBVIOUS
<1>7. CascadeJob(j) = k
  BY <1>1 DEF CascadeJob, Job
<1> HIDE DEF t, copy, listed
<1>8. k \in Job
  BY <1>1, <1>3, <1>4, <1>5 DEF Job, Step
<1>9. Ready(k)
  BY <1>1, <1>3 DEF Ready, Job, StepsOf, Before, After, Blocking
<1>10. /\ k.at = "writeAs" /\ k.on = t /\ k.cmd = j.cmd /\ k.id = j.id /\ k.n = j.n
       /\ k.copy = copy /\ k.listed = listed
  BY <1>1 DEF Job
<1> HIDE DEF k
<1> QED
  BY <1>3, <1>4, <1>6, <1>7, <1>8, <1>9, <1>10 DEF t, copy

LEMMA CascadeType ==
  ASSUME TypeInv, NEW p \in Procs, Cascade(p)
  PROVE  TypeInv'
<1>1. job[p].at = "cascade" /\ UNCHANGED <<files, wide, log, tmp, started, faults, history>>
  BY CascadeSteps
<1>2. CASE Refs(job[p]) = {}
  <2>1. job[p].cmd = "delete"
    BY <1>1, JobReady, JobFacts DEF Ready, StepsOf, Before, After, Command
  <2>2. Done(p)
    BY <1>2, CascadeSteps
  <2> QED
    BY <1>1, <2>1, <2>2, DoneReady DEF TypeInv, Marking
<1>3. CASE Refs(job[p]) # {}
  BY <1>1, <1>3, CascadeSteps, CascadeJobType, MoveReady, JobReady
<1> QED
  BY <1>2, <1>3

LEMMA TrimType ==
  ASSUME TypeInv, NEW p \in Procs, Trim(p) \/ TrimWrite(p) \/ TrimRename(p)
  PROVE  TypeInv'
<1>1. job[p] \in Job /\ Ready(job[p]) /\ log.lines \subseteq Line /\ log.replaced \in Nat
      /\ tmp.lines \subseteq Line
  BY DEF TypeInv
<1>2. CASE Trim(p)
  <2>1. PICK cutoff \in 0 .. started :
          LET kept == {line \in log.lines : Recent(line, cutoff)} IN
          /\ Become(p, Idle) \/ Become(p, [job[p] EXCEPT !.at = "trimWrite", !.kept = kept])
          /\ aged' = Max({aged, cutoff})
    BY <1>2 DEF Trim
  <2> DEFINE kept == {line \in log.lines : Recent(line, cutoff)}
             j == [job[p] EXCEPT !.at = "trimWrite", !.kept = kept]
  <2>2. /\ job[p].at = "trim"
        /\ UNCHANGED <<files, wide, log, tmp, started, faults, acked, alone, unlogged>>
    BY <1>2 DEF Trim
  <2>3. j \in Job
    BY <1>1 DEF Job, Step
  <2>4. Ready(j)
    BY <1>1, <2>2, JobFacts DEF Ready, Job, StepsOf, Before, After, Blocking, Command
  <2>5. aged' \in 0 .. MaxCommands
    <3>1. started \in 0 .. MaxCommands /\ aged \in 0 .. MaxCommands /\ aged \in Nat
          /\ cutoff \in Nat /\ cutoff \in 0 .. MaxCommands
      BY TickStoreAssumption DEF TypeInv
    <3> QED
      BY <2>1, <3>1, LaterCutoff
  <2> HIDE DEF j
  <2> QED
    BY <2>1, <2>2, <2>3, <2>4, <2>5, BecomeReady, IdleFacts DEF TypeInv, j
<1>3. CASE TrimWrite(p)
  <2>1. /\ job[p].at = "trimWrite" /\ tmp' = [there |-> TRUE, lines |-> job[p].kept]
        /\ Goto(p, "trimRename")
        /\ UNCHANGED <<files, wide, log, started, faults, acked, history>>
    BY <1>3 DEF TrimWrite
  <2>2. Ready([job[p] EXCEPT !.at = "trimRename"])
    BY <1>1, <2>1, JobFacts DEF Ready, Job, StepsOf, Before, After, Blocking, Command
  <2>3. tmp' \in [there : BOOLEAN, lines : SUBSET Line]
    BY <1>1, <2>1, JobFacts
  <2> QED
    BY <2>1, <2>2, <2>3, GotoReady DEF TypeInv, Step
<1>4. CASE TrimRename(p)
  <2>1. /\ Become(p, Idle) /\ tmp' = NoTmp /\ UNCHANGED <<files, wide, started, faults, acked, history>>
        /\ log' = IF tmp.there THEN [replaced |-> log.replaced + 1, lines |-> tmp.lines] ELSE log
    BY <1>4 DEF TrimRename
  <2>2. log' \in [replaced : Nat, lines : SUBSET Line]
        /\ tmp' \in [there : BOOLEAN, lines : SUBSET Line]
    BY <1>1, <2>1 DEF NoTmp, TypeInv
  <2> QED
    BY <2>1, <2>2, BecomeReady, IdleFacts DEF TypeInv
<1> QED
  BY <1>2, <1>3, <1>4

LEMMA FailType ==
  ASSUME TypeInv, NEW p \in Procs, Fail(p)
  PROVE  TypeInv'
<1>1. /\ faults' \in 0 .. MaxFaults /\ Become(p, Idle)
      /\ UNCHANGED <<files, wide, log, tmp, started, acked, history>>
  BY TickStoreAssumption DEF Fail, TypeInv
<1> QED
  BY <1>1, BecomeReady, IdleFacts DEF TypeInv

LEMMA TypeStep == TypeInv /\ [Next]_vars => TypeInv'
<1> SUFFICES ASSUME TypeInv, [Next]_vars
             PROVE  TypeInv'
  OBVIOUS
<1>1. CASE UNCHANGED vars
  BY <1>1 DEF vars, TypeInv
<1>2. ASSUME NEW p \in Procs, Start(p) \/ Continue(p) \/ Fail(p)
      PROVE  TypeInv'
  BY <1>2, StartType, ReadType, CheckType, WriteAsType, RenameType, OpenLogType,
     AppendLineType, LogFailsType, GenerateType, SaveConfigType, ListType, ReadNextType, RemoveType,
     CascadeType, TrimType, FailType DEF Continue
<1> QED
  BY <1>1, <1>2 DEF Next

LEMMA TypeAlways == Spec => []TypeInv
BY TypeInit, TypeStep, PTL DEF Spec

\* The store, the log and every process keep their types, for any number of
\* processes and commands and however they overlap: a rename replaces a tick by
\* a tick, a line is about a tick and an action, a generator stops in time.
THEOREM TypeCorrect == Spec => []TypeOK
<1>1. TypeInv => TypeOK
  <2> SUFFICES ASSUME TypeInv PROVE TypeOK
    OBVIOUS
  <2>1. ASSUME NEW p \in Procs
        PROVE  /\ job[p].at \in Step /\ job[p].cmd \in Command /\ job[p].n \in 0 .. MaxCommands
               /\ {job[p].id, job[p].other, job[p].on} \subseteq Ids \cup {0}
               /\ job[p].attempts \in 0 .. MaxAttempts - 1
               /\ job[p].left \subseteq Ids /\ DOMAIN job[p].listed \subseteq Ids
               /\ {job[p].copy, job[p].old} \cup {job[p].listed[t] : t \in DOMAIN job[p].listed}
                    \subseteq File
               /\ job[p].seen \in Nat /\ job[p].kept \subseteq Line
    <3>1. job[p] \in Job
      BY JobReady
    <3>2. DOMAIN job[p].listed \subseteq Ids
          /\ \A t \in DOMAIN job[p].listed : job[p].listed[t] \in File
      BY <3>1, JobFacts, ListingFacts
    <3> QED
      BY <3>1, <3>2, JobFacts
  <2> QED
    BY <2>1 DEF TypeInv, TypeOK
<1> QED
  BY <1>1, TypeAlways, PTL

-----------------------------------------------------------------------------
(* What a command that is alone knows, and what every command has read.    *)

LEMMA MoreDetected ==
  ASSUME NEW f, NEW g, Cardinality(g.marks) > Cardinality(f.marks)
  PROVE  DetectChange(f, g) # None
<1> DEFINE added   == Cardinality(g.blockedBy) > Cardinality(f.blockedBy)
           removed == Cardinality(g.blockedBy) < Cardinality(f.blockedBy)
           marked  == Cardinality(g.marks) > Cardinality(f.marks)
<1>1. DetectChange(f, g) =
        CASE ~f.there -> "create"
          [] f.there /\ added -> "block"
          [] f.there /\ removed -> "unblock"
          [] OTHER -> IF marked THEN "note" ELSE None
  BY Zenon DEF DetectChange
<1>2. marked
  OBVIOUS
<1> HIDE DEF added, removed, marked
<1> QED
  BY <1>1, <1>2 DEF None

\* A write that adds a mark is seen by the log, whatever it does to blockers.
LEMMA MarkDetected ==
  ASSUME NEW f \in File, NEW n \in Serial, n \notin f.marks
  PROVE  DetectChange(f, [f EXCEPT !.marks = @ \cup {n}]) # None
<1> DEFINE g == [f EXCEPT !.marks = @ \cup {n}]
<1>1. IsFiniteSet(f.marks)
  <2>1. IsFiniteSet(1 .. MaxCommands)
    BY FS_Interval, TickStoreAssumption
  <2>2. f.marks \in SUBSET (1 .. MaxCommands)
    BY FileFacts DEF Serial
  <2> QED
    BY <2>1, <2>2, FS_Subset
<1>2. Cardinality(f.marks \cup {n}) = Cardinality(f.marks) + 1 /\ Cardinality(f.marks) \in Nat
  BY <1>1, FS_AddElement, FS_CardinalityType
<1>3. g.marks = f.marks \cup {n}
  BY DEF File
<1>4. Cardinality(g.marks) > Cardinality(f.marks)
  BY <1>2, <1>3
<1> QED
  BY <1>4, MoreDetected

LEMMA NewDetected ==
  ASSUME NEW f, NEW g, ~f.there
  PROVE  DetectChange(f, g) # None
BY DEF DetectChange, None

LEMMA InvParts ==
  /\ Inv <=> /\ World /\ Sole /\ \A p \in Procs : Sane(job[p])
             /\ \A p \in Procs : Busy(p) /\ job[p].n \in alone => Current(job[p])
  /\ Inv' <=> /\ World' /\ Sole' /\ \A p \in Procs : Sane(job[p])'
              /\ \A p \in Procs : Busy(p)' /\ job'[p].n \in alone' => Current(job[p])'
BY DEF Inv

\* What may change without a copy, a listing or a log that was read becoming
\* worse than it was.
Steady ==
  /\ started <= started' /\ Promised' \subseteq Promised
  /\ unlogged \subseteq unlogged' /\ aged <= aged'

LEMMA PromisedType ==
  ASSUME TypeInv
  PROVE  /\ \A a \in Promised : /\ a \in acked /\ a[1] \in Ids /\ a[2] \in Serial
                                /\ a[2] \in alone /\ a[2] \in Nat
         /\ aged \in Nat /\ started \in Nat
BY DEF TypeInv, Promised, Serial

LEMMA StillInLog ==
  ASSUME TypeInv, TypeInv', Steady, NEW a \in Promised, NEW lines, NEW more,
         lines \subseteq more, InLog(a, lines)
  PROVE  InLog(a, more)'
BY PromisedType DEF InLog, Steady, TypeInv

LEMMA StillSaneCopy ==
  ASSUME TypeInv, TypeInv', Steady
  PROVE  \A t, copy : copy \in File /\ SaneCopy(t, copy) => SaneCopy(t, copy)'
<1>1. \A copy \in File : copy.marks \subseteq Serial
  BY FileFacts
<1>2. started \in Nat /\ started' \in Nat
  BY DEF TypeInv
<1> QED
  BY <1>1, <1>2 DEF SaneCopy, Steady, Serial

\* A process that does not move keeps what it has read.
LEMMA StillSane ==
  ASSUME TypeInv, TypeInv', Steady, tmp' = tmp, NEW q \in Procs, job'[q] = job[q], Sane(job[q])
  PROVE  Sane(job[q])'
<1>1. Promised' \subseteq Promised
  BY DEF Steady
<1>2. \A a \in Promised : \A lines : InLog(a, lines) => InLog(a, lines)'
  BY PromisedType DEF InLog, Steady, TypeInv
<1>3. \A t, copy : copy \in File /\ SaneCopy(t, copy) => SaneCopy(t, copy)'
  BY StillSaneCopy
<1>4. /\ job[q].copy \in File /\ job[q].n \in Nat /\ started \in Nat /\ started' \in Nat
      /\ \A t \in DOMAIN job[q].listed : job[q].listed[t] \in File
  BY JobReady, JobFacts, ListingFacts DEF TypeInv
<1>5. job[q].n <= started => job[q].n <= started'
  BY <1>4 DEF Steady
<1> QED
  BY <1>1, <1>2, <1>3, <1>4, <1>5 DEF Sane

\* A process that goes on to a step that needs only its listing.
LEMMA StillListed ==
  ASSUME TypeInv, TypeInv', Steady, NEW p \in Procs, Busy(p), Sane(job[p]),
         job'[p].listed = job[p].listed, job'[p].n = job[p].n,
         job'[p].at \in {"cascade", "saveConfig", "remove", "list", "trim"} \cup After
  PROVE  Sane(job[p])'
<1>1. \A t, copy : copy \in File /\ SaneCopy(t, copy) => SaneCopy(t, copy)'
  BY StillSaneCopy
<1>2. /\ job[p].n \in Nat /\ started \in Nat /\ started' \in Nat
      /\ \A t \in DOMAIN job[p].listed : job[p].listed[t] \in File
  BY JobReady, JobFacts, ListingFacts DEF TypeInv
<1>3. /\ job[p].n <= started
      /\ \A t \in DOMAIN job[p].listed : SaneCopy(t, job[p].listed[t])
  BY DEF Sane, Busy
<1>4. job[p].n <= started'
  BY <1>2, <1>3 DEF Steady
<1> QED
  BY <1>1, <1>2, <1>3, <1>4 DEF Sane, Before, After

LEMMA WorldStays ==
  ASSUME TypeInv, TypeInv', World, files' = files, started' = started, acked' = acked,
         alone' = alone, log.lines \subseteq log'.lines, unlogged \subseteq unlogged', aged <= aged'
  PROVE  World' /\ Steady
<1>1. \A a \in acked : a[2] \in Nat
  BY DEF TypeInv, Serial
<1>2. AllLogged'
  BY <1>1 DEF World, AllLogged, TypeInv
<1>3. Settled' /\ NoLostUpdate'
  BY DEF World, Settled, NoLostUpdate
<1>4. Steady
  BY DEF Steady, Promised, TypeInv
<1> QED
  BY <1>2, <1>3, <1>4 DEF World

LEMMA OneJob ==
  ASSUME TypeInv, NEW p \in Procs, NEW k, Become(p, k)
  PROVE  job'[p] = k /\ \A q \in Procs \ {p} : job'[q] = job[q]
BY DEF TypeInv, Become

\* The step of one process is no step of another that is alone.
LEMMA OthersCurrent ==
  ASSUME TypeInv, Inv, NEW p \in Procs, Busy(p), NEW k, Become(p, k), alone' = alone,
         k.at = "idle" \/ k.n = job[p].n,
         k.at # "idle" /\ job[p].n \in alone => Current(job[p])'
  PROVE  /\ Sole'
         /\ \A q \in Procs : Busy(q)' /\ job'[q].n \in alone' => Current(job[q])'
<1>1. job'[p] = k /\ \A q \in Procs \ {p} : job'[q] = job[q]
  BY OneJob
<1>2. Sole'
  BY <1>1 DEF Inv, Sole, Busy
<1>3. ASSUME NEW q \in Procs, Busy(q)', job'[q].n \in alone'
      PROVE  Current(job[q])'
  <2>1. CASE q = p
    BY <1>1, <1>3, <2>1 DEF Busy
  <2>2. CASE q # p
    BY <1>1, <1>3, <2>2 DEF Inv, Sole, Busy
  <2> QED
    BY <2>1, <2>2
<1> QED
  BY <1>2, <1>3

\* A step that changes neither files nor log nor promises.
LEMMA MoveKeeps ==
  ASSUME TypeInv, TypeInv', Inv, NEW p \in Procs, Busy(p), NEW k, Become(p, k), k.n = job[p].n,
         UNCHANGED <<files, log, tmp, started, acked, history>>,
         Sane(job[p])',
         job[p].n \in alone => Current(job[p])'
  PROVE  Inv'
<1>1. World' /\ Steady
  BY InvParts, WorldStays DEF TypeInv
<1>2. \A q \in Procs \ {p} : Sane(job[q])'
  BY <1>1, OneJob, StillSane, InvParts
<1>3. /\ Sole'
      /\ \A q \in Procs : Busy(q)' /\ job'[q].n \in alone' => Current(job[q])'
  BY OthersCurrent
<1> QED
  BY <1>1, <1>2, <1>3, InvParts

\* A command that ends and promises nothing.
LEMMA StopKeeps ==
  ASSUME TypeInv, TypeInv', Inv, NEW p \in Procs, Busy(p), Become(p, Idle),
         UNCHANGED <<files, log, tmp, started, acked, alone>>,
         unlogged \subseteq unlogged', aged <= aged'
  PROVE  Inv'
<1>1. World' /\ Steady
  BY InvParts, WorldStays
<1>2. \A q \in Procs \ {p} : Sane(job[q])'
  BY <1>1, OneJob, StillSane, InvParts
<1>3. job'[p].at = "idle" /\ Idle.at = "idle"
  BY OneJob, IdleFacts
<1>4. Sane(job[p])'
  BY <1>3 DEF Sane
<1>5. /\ Sole'
      /\ \A q \in Procs : Busy(q)' /\ job'[q].n \in alone' => Current(job[q])'
  BY <1>3, OthersCurrent
<1> QED
  BY <1>1, <1>2, <1>4, <1>5, InvParts

\* A command that ends and promises what it has written.
LEMMA DoneKeeps ==
  ASSUME TypeInv, TypeInv', Inv, NEW p \in Procs, Busy(p), Done(p),
         UNCHANGED <<files, started, tmp, alone, aged>>,
         log.lines \subseteq log'.lines, unlogged \subseteq unlogged',
         job[p].cmd \in Marking /\ job[p].n \in alone =>
           /\ job[p].n \in files[job[p].id].marks
           /\ \/ job[p].n \in unlogged'
              \/ \E line \in log'.lines : line.tick = job[p].id /\ line.n = job[p].n
  PROVE  Inv'
<1>1. Become(p, Idle)
  BY DEF Done
<1>2. job'[p].at = "idle" /\ \A q \in Procs \ {p} : job'[q] = job[q]
  BY <1>1, OneJob, IdleFacts
<1>3. /\ Sole'
      /\ \A q \in Procs : Busy(q)' /\ job'[q].n \in alone' => Current(job[q])'
  BY <1>1, IdleFacts, OthersCurrent
<1>4. \A a \in acked' : a \in acked \/ (job[p].cmd \in Marking /\ a = <<job[p].id, job[p].n>>)
  BY DEF Done, Marking
<1>5. job[p].n <= started
  BY InvParts DEF Sane, Busy
<1>6. Settled'
  BY <1>4, <1>5, InvParts DEF World, Settled
<1>7. NoLostUpdate'
  BY <1>4, InvParts DEF World, NoLostUpdate
<1>8. AllLogged'
  <2>1. ASSUME NEW a \in acked, a[2] \in alone
        PROVE  InLog(a, log.lines)'
    BY <2>1, InvParts DEF World, AllLogged, InLog
  <2>2. \A a \in acked' : a[2] \in alone' => InLog(a, log.lines)'
    BY <1>4, <2>1 DEF InLog
  <2> QED
    BY <2>2 DEF AllLogged, InLog
<1>9. ASSUME NEW q \in Procs
      PROVE  Sane(job[q])'
  <2>1. CASE q = p \/ ~Busy(q)
    BY <1>2, <2>1 DEF Sane, Busy
  <2>2. CASE q # p /\ Busy(q)
    <3>1. job[p].n \notin alone
      BY <2>2, InvParts DEF Sole
    <3>2. Steady
      BY <1>4, <3>1 DEF Steady, Promised, TypeInv
    <3> QED
      BY <1>2, <2>2, <3>2, StillSane, InvParts
  <2> QED
    BY <2>1, <2>2
<1> QED
  BY <1>3, <1>6, <1>7, <1>8, <1>9, InvParts DEF World

LEMMA ProceedKeeps ==
  ASSUME TypeInv, TypeInv', Inv, NEW p \in Procs, Proceed(p), job[p].at \in After,
         UNCHANGED <<files, started, tmp, alone, aged>>,
         log.lines \subseteq log'.lines, unlogged \subseteq unlogged',
         job[p].cmd \in Marking /\ job[p].n \in alone =>
           \/ job[p].n \in unlogged'
           \/ \E line \in log'.lines : line.tick = job[p].id /\ line.n = job[p].n
  PROVE  Inv'
<1> DEFINE j == job[p]
<1>1. /\ j \in Job /\ Ready(j) /\ Busy(p) /\ j.id \in Ids /\ j.on \in Ids /\ Sane(j)
  BY JobReady, InvParts DEF Ready, After, Busy
<1>2. j.n \in alone => /\ Current(j) /\ files[j.on] = j.copy /\ j.n = started
                       /\ j.cmd \in Marking => MarkCurrent(j)
                       /\ j.cmd = "delete" => DeleteCurrent(j)
  BY <1>1, InvParts DEF Current
<1>3. j.n \in alone /\ j.cmd \in Marking => j.on = j.id /\ j.n \in j.copy.marks
  BY <1>2 DEF MarkCurrent
<1>4. ASSUME NEW at \in {"cascade", "saveConfig"}, Goto(p, at), acked' = acked,
             j.n \in alone => Current(job[p])'
      PROVE  Inv'
  <2>1. World' /\ Steady
    BY <1>4, InvParts, WorldStays DEF TypeInv
  <2>2. /\ job'[p] = [j EXCEPT !.at = at] /\ \A q \in Procs \ {p} : job'[q] = job[q]
        /\ Become(p, [j EXCEPT !.at = at])
    BY <1>4, OneJob DEF Goto
  <2>3. job'[p].at = at /\ job'[p].listed = j.listed /\ job'[p].n = j.n
    BY <1>1, <2>2 DEF Job
  <2>4. Sane(job[p])'
    BY <1>1, <2>1, <2>3, StillListed
  <2>5. \A q \in Procs \ {p} : Sane(job[q])'
    BY <2>1, <2>2, StillSane, InvParts
  <2>6. /\ Sole'
        /\ \A q \in Procs : Busy(q)' /\ job'[q].n \in alone' => Current(job[q])'
    BY <1>1, <1>4, <2>2, <2>3, OthersCurrent
  <2> QED
    BY <2>1, <2>4, <2>5, <2>6, InvParts
<1>5. CASE j.cmd = "delete"
  <2>1. Goto(p, "cascade") /\ acked' = acked
    BY <1>5 DEF Proceed
  <2>2. job'[p] = [j EXCEPT !.at = "cascade"]
    BY <2>1, OneJob DEF Goto
  <2>3. /\ job'[p].at = "cascade" /\ job'[p].cmd = "delete" /\ job'[p].id = j.id
        /\ job'[p].listed = j.listed /\ job'[p].n = j.n
    BY <1>1, <1>5, <2>2 DEF Job
  <2> SUFFICES ASSUME j.n \in alone PROVE Current(job[p])'
    BY <1>4, <2>1
  <2>4. \A t \in Ids : t \in DOMAIN j.listed => j.listed[t] = files[t] /\ files[t].there
    BY <1>2, <1>5 DEF DeleteCurrent
  <2>5. \A t \in Ids : j.id \in files[t].blockedBy => t \in DOMAIN j.listed
    BY <1>2, <1>5 DEF DeleteCurrent
  <2> QED
    BY <1>2, <2>3, <2>4, <2>5 DEF Current, DeleteCurrent, Before, After, Marking
<1>6. CASE j.cmd = "create" /\ j.long # j.config
  <2>1. Goto(p, "saveConfig") /\ acked' = acked
    BY <1>6 DEF Proceed
  <2>2. job'[p] = [j EXCEPT !.at = "saveConfig"]
    BY <2>1, OneJob DEF Goto
  <2>3. /\ job'[p].at = "saveConfig" /\ job'[p].cmd = "create" /\ job'[p].id = j.id
        /\ job'[p].on = j.on /\ job'[p].copy = j.copy /\ job'[p].n = j.n
    BY <1>1, <1>6, <2>2 DEF Job
  <2> SUFFICES ASSUME j.n \in alone PROVE Current(job[p])'
    BY <1>4, <2>1
  <2>4. MarkCurrent(job[p])'
    BY <1>3, <1>6, <2>3 DEF MarkCurrent, Before, After, Marking, Logged
  <2> QED
    BY <1>2, <2>3, <2>4 DEF Current, Before, After, Marking
<1>7. CASE j.cmd # "delete" /\ ~(j.cmd = "create" /\ j.long # j.config)
  <2>1. Done(p)
    BY <1>7 DEF Proceed
  <2>2. j.cmd \in Marking /\ j.n \in alone => j.n \in files[j.id].marks
    BY <1>2, <1>3
  <2> QED
    BY <1>1, <2>1, <2>2, DoneKeeps
<1> QED
  BY <1>5, <1>6, <1>7

LEMMA StartKeeps ==
  ASSUME TypeInv, TypeInv', Inv, NEW p \in Procs, Start(p)
  PROVE  Inv'
<1>1. ASSUME NEW cmd \in Command,
             NEW at \in {"generate", "list", "trim", "read", "remove"},
             NEW id, NEW other, cmd = "boardCreate" => at = "list",
             Begin(p, cmd, at, id, other)
      PROVE  Inv'
  <2> DEFINE j == [Idle EXCEPT !.at = at, !.cmd = cmd, !.n = started + 1, !.id = id,
                               !.other = other, !.on = id,
                               !.config = wide, !.long = (cmd = "create") /\ wide]
  <2>1. /\ started' = started + 1 /\ Become(p, j)
        /\ UNCHANGED <<files, wide, log, tmp, acked, unlogged, aged>>
        /\ alone' = IF UnderWay = {} THEN alone \cup {started + 1} ELSE alone \ UnderWay
        /\ ~Busy(p)
    BY <1>1 DEF Begin, Busy
  <2>2. job'[p] = j /\ \A q \in Procs \ {p} : job'[q] = job[q]
    BY <2>1, OneJob
  <2>3. j.at = at /\ j.cmd = cmd /\ j.n = started + 1 /\ j.listed = Nothing
    BY DEF Idle
  <2> HIDE DEF j
  <2>4. started \in Nat
    BY JobReady
  <2>5. \A t \in Ids : \A m \in files[t].marks : m \in Nat /\ m <= started
    BY JobReady, FileFacts, InvParts DEF World, Settled, Serial
  <2>6. /\ \A a \in acked : a[2] \in Nat /\ a[2] <= started
        /\ \A n \in alone : n \in Nat /\ n <= started
    BY InvParts DEF World, Settled, TypeInv, Serial
  <2>7. \A a \in acked : a[2] \in alone' => a[2] \in alone
    BY <2>1, <2>4, <2>6
  <2>8. Steady
    BY <2>1, <2>4, <2>7 DEF Steady, Promised, TypeInv
  <2>9. Settled'
    BY <2>1, <2>4, <2>5, <2>6, InvParts DEF World, Settled
  <2>10. NoLostUpdate' /\ AllLogged'
    BY <2>1, <2>7, InvParts DEF World, NoLostUpdate, AllLogged
  <2>11. \A t \in Ids : j.n \notin files'[t].marks
    BY <2>1, <2>3, <2>4, <2>5
  <2>12. at = "generate" \/ at = "list" \/ at = "trim" \/ at = "read" \/ at = "remove"
    BY <1>1
  <2>13. MarkCurrent(job[p])'
    BY <2>2, <2>3, <2>11, <2>12 DEF MarkCurrent, Before, After
  <2>14. DeleteCurrent(job[p])'
    BY <2>2, <2>3, <2>12 DEF DeleteCurrent, Before, After
  <2>15. DOMAIN j.listed = {}
    BY <2>3, ListingFacts
  <2>16. Current(job[p])'
    BY <1>1, <2>1, <2>2, <2>3, <2>12, <2>13, <2>14, <2>15 DEF Current, Before, After
  <2>17. Sane(job[p])'
    BY <1>1, <2>1, <2>2, <2>3, <2>4, <2>12, <2>15 DEF Sane, Before
  <2>18. \A q \in Procs \ {p} : Sane(job[q])'
    BY <2>1, <2>2, <2>8, StillSane, InvParts
  <2>19. ASSUME NEW q \in Procs \ {p}, Busy(q)
         PROVE  job[q].n \notin alone' /\ j.n \notin alone'
    <3>1. job[q].n \in UnderWay
      BY <2>19 DEF UnderWay, Busy
    <3> QED
      BY <2>1, <2>3, <2>4, <2>6, <3>1
  <2>20. Sole'
    BY <2>2, <2>7, <2>19, InvParts DEF Sole, Busy
  <2>21. \A q \in Procs : Busy(q)' /\ job'[q].n \in alone' => Current(job[q])'
    BY <2>2, <2>16, <2>19 DEF Busy
  <2> QED
    BY <2>9, <2>10, <2>17, <2>18, <2>20, <2>21, InvParts DEF World
<1> USE DEF Command
<1>2. ASSUME NEW b \in Ids \cup {0}, Begin(p, "create", "generate", 0, b)
      PROVE  Inv'
  BY <1>1, <1>2
<1>3. ASSUME NEW t \in Ids, Begin(p, "note", "read", t, 0) \/ Begin(p, "delete", "remove", t, 0)
      PROVE  Inv'
  BY <1>1, <1>3
<1>4. ASSUME NEW t \in Ids, NEW b \in Ids, NEW cmd \in {"block", "addBlocker", "unblock"},
             Begin(p, cmd, "read", t, b)
      PROVE  Inv'
  BY <1>1, <1>4
<1>5. CASE Begin(p, "boardCreate", "list", 0, 0)
  BY <1>1, <1>5
<1>6. CASE Begin(p, "gc", "trim", 0, 0)
  BY <1>1, <1>6
<1> QED
  BY <1>2, <1>3, <1>4, <1>5, <1>6 DEF Start

LEMMA ReadKeeps ==
  ASSUME TypeInv, TypeInv', Inv, NEW p \in Procs, Read(p)
  PROVE  Inv'
<1> DEFINE j == job[p]
           f == files[j.id]
           k == [j EXCEPT !.copy = Changed(p, f),
                   !.at = IF j.cmd = "block" THEN "check" ELSE "writeAs"]
<1>1. j.at = "read" /\ Busy(p) /\ UNCHANGED <<files, wide, log, tmp, started, history>>
  BY DEF Read, Busy
<1>2. CASE f.there
  <2>1. k \in Job /\ Become(p, k) /\ acked' = acked
    BY <1>2, ReadJob
  <2>2. /\ j \in Job /\ j.cmd \in Blocking \cup {"note"} /\ j.n \in Serial
        /\ j.id \in Ids /\ j.on = j.id /\ f \in File
        /\ j.cmd \in Blocking => j.other \in Ids
    BY <1>1, JobReady, JobFacts DEF Ready, StepsOf, Command, Blocking, Before, After
  <2>3. job'[p] = k
    BY <2>1, OneJob
  <2>4. /\ k.at \in {"check", "writeAs"} /\ k.cmd = j.cmd /\ k.n = j.n
        /\ k.id = j.id /\ k.on = j.id /\ k.copy = Changed(p, f) /\ k.listed = j.listed
    BY <2>2 DEF Job
  <2>5. /\ f.marks \subseteq Changed(p, f).marks /\ Changed(p, f).there
        /\ Changed(p, f).marks \subseteq f.marks \cup {j.n}
        /\ j.cmd = "note" => Changed(p, f) = [f EXCEPT !.marks = @ \cup {j.n}]
    BY <1>2, <2>2, ChangedType
  <2>6. /\ j.n <= started
        /\ \A t \in DOMAIN j.listed : SaneCopy(t, j.listed[t])
    BY <1>1, InvParts DEF Sane
  <2> HIDE DEF k
  <2>7. SaneCopy(j.id, Changed(p, f))
    <3>1. \A m \in Changed(p, f).marks : m <= started
      BY <2>2, <2>5, <2>6, InvParts DEF World, Settled
    <3>2. \A a \in Promised : a[1] = j.id => a[2] \in f.marks
      BY <2>2, InvParts DEF World, NoLostUpdate, Promised
    <3> QED
      BY <2>5, <3>1, <3>2 DEF SaneCopy
  <2>8. Sane(job[p])'
    BY <1>1, <2>1, <2>3, <2>4, <2>6, <2>7 DEF Sane, SaneCopy, Promised, Before
  <2>9. ASSUME j.n \in alone
        PROVE  Current(job[p])'
    <3>1. Current(j)
      BY <1>1, <2>9, InvParts
    <3>2. j.cmd \in Marking =>
            /\ \A t \in Ids : j.n \notin files[t].marks
            /\ j.n \in Changed(p, f).marks /\ DetectChange(f, Changed(p, f)) # None
      <4> SUFFICES ASSUME j.cmd \in Marking
                   PROVE  /\ \A t \in Ids : j.n \notin files[t].marks
                          /\ j.n \in Changed(p, f).marks
                          /\ DetectChange(f, Changed(p, f)) # None
        OBVIOUS
      <4>1. j.cmd = "note"
        BY <2>2 DEF Marking, Blocking
      <4>2. \A t \in Ids : j.n \notin files[t].marks
        BY <1>1, <3>1 DEF Current, MarkCurrent, After
      <4>3. j.n \notin f.marks
        BY <2>2, <4>2
      <4>4. DetectChange(f, [f EXCEPT !.marks = @ \cup {j.n}]) # None
        BY <2>2, <4>3, MarkDetected
      <4>5. j.n \in [f EXCEPT !.marks = @ \cup {j.n}].marks
        BY <2>2 DEF File
      <4> QED
        BY <2>5, <4>1, <4>2, <4>4, <4>5
    <3>3. j.cmd \in Marking => MarkCurrent(job[p])'
      BY <1>1, <2>3, <2>4, <3>2 DEF MarkCurrent, Before, After
    <3>4. j.cmd # "delete"
      BY <2>2 DEF Blocking
    <3> QED
      BY <1>1, <2>3, <2>4, <3>1, <3>3, <3>4 DEF Current, Before, After
  <2> QED
    BY <1>1, <2>1, <2>4, <2>8, <2>9, MoveKeeps
<1>3. CASE ~f.there
  BY <1>1, <1>3, StopKeeps DEF Read, GiveUp, TypeInv
<1> QED
  BY <1>2, <1>3

LEMMA CheckKeeps ==
  ASSUME TypeInv, TypeInv', Inv, NEW p \in Procs, Check(p)
  PROVE  Inv'
<1> DEFINE j == job[p]
           k == [j EXCEPT !.at = "writeAs"]
<1>1. j.at = "check" /\ Busy(p) /\ UNCHANGED <<files, wide, log, tmp, started, history>>
  BY DEF Check, Busy
<1>2. CASE files[j.other].there
  <2>1. Become(p, k) /\ acked' = acked
    BY <1>2 DEF Check, Goto
  <2>2. j \in Job /\ j.cmd = "block"
    BY <1>1, JobReady, JobFacts DEF Ready, StepsOf, Command, Before, After
  <2>3. job'[p] = k
    BY <2>1, OneJob
  <2>4. /\ k.at = "writeAs" /\ k.cmd = "block" /\ k.n = j.n /\ k.on = j.on
        /\ k.copy = j.copy /\ k.listed = j.listed
    BY <2>2 DEF Job
  <2> HIDE DEF k
  <2>5. Sane(job[p])'
    BY <1>1, <2>1, <2>3, <2>4, InvParts DEF Sane, SaneCopy, Promised, Before
  <2>6. j.n \in alone => Current(job[p])'
    BY <1>1, <2>3, <2>4, InvParts DEF Current, Before, After, Marking
  <2> QED
    BY <1>1, <2>1, <2>4, <2>5, <2>6, MoveKeeps
<1>3. CASE ~files[j.other].there
  BY <1>1, <1>3, StopKeeps DEF Check, GiveUp, TypeInv
<1> QED
  BY <1>2, <1>3

LEMMA WriteAsKeeps ==
  ASSUME TypeInv, TypeInv', Inv, NEW p \in Procs, WriteAs(p)
  PROVE  Inv'
<1> DEFINE j == job[p]
           k == [j EXCEPT !.old = files[j.on], !.at = "rename"]
<1>1. /\ j.at = "writeAs" /\ Busy(p) /\ Become(p, k)
      /\ UNCHANGED <<files, wide, log, tmp, started, acked, history>>
  BY DEF WriteAs, Busy
<1>2. j \in Job
  BY JobReady
<1>3. job'[p] = k
  BY <1>1, OneJob
<1>4. /\ k.at = "rename" /\ k.cmd = j.cmd /\ k.n = j.n /\ k.id = j.id /\ k.on = j.on
      /\ k.copy = j.copy /\ k.listed = j.listed /\ k.old = files[j.on]
  BY <1>2 DEF Job
<1> HIDE DEF k
<1>5. Sane(job[p])'
  BY <1>1, <1>3, <1>4, InvParts DEF Sane, SaneCopy, Promised, Before
<1>6. ASSUME j.n \in alone
      PROVE  Current(job[p])'
  <2>1. Current(j)
    BY <1>1, <1>6, InvParts
  <2>2. j.cmd \in Marking => MarkCurrent(job[p])'
    BY <1>1, <1>3, <1>4, <2>1 DEF Current, MarkCurrent, Before, After
  <2>3. j.cmd = "delete" => DeleteCurrent(job[p])'
    BY <1>1, <1>3, <1>4, <2>1 DEF Current, DeleteCurrent, Before, After
  <2> QED
    BY <1>1, <1>3, <1>4, <2>1, <2>2, <2>3 DEF Current, Before, After
<1> QED
  BY <1>1, <1>4, <1>5, <1>6, MoveKeeps

\* Whatever copy is renamed over a tick, it holds what was promised of it.
LEMMA RenameKeeps ==
  ASSUME TypeInv, TypeInv', Inv, NEW p \in Procs, Rename(p)
  PROVE  Inv'
<1> DEFINE j == job[p]
           k == [j EXCEPT !.at = "openLog"]
<1>1. /\ j.at = "rename" /\ Busy(p) /\ Become(p, k)
      /\ files' = [files EXCEPT ![j.on] = j.copy]
      /\ UNCHANGED <<wide, log, tmp, started, acked, history>>
  BY DEF Rename, Goto, Busy
<1>2. j \in Job /\ Ready(j) /\ j.on \in Ids /\ files \in [Ids -> File] /\ started \in Nat
  BY <1>1, JobReady DEF Ready, Before
<1>3. job'[p] = k /\ \A q \in Procs \ {p} : job'[q] = job[q]
  BY <1>1, OneJob
<1>4. /\ k.at = "openLog" /\ k.cmd = j.cmd /\ k.n = j.n /\ k.id = j.id /\ k.on = j.on
      /\ k.copy = j.copy /\ k.listed = j.listed /\ k.old = j.old
  BY <1>2 DEF Job
<1>5. SaneCopy(j.on, j.copy)
  BY <1>1, InvParts DEF Sane, Before
<1>6. files'[j.on] = j.copy /\ \A t \in Ids \ {j.on} : files'[t] = files[t]
  BY <1>1, <1>2
<1> HIDE DEF k
<1>7. Settled'
  BY <1>1, <1>2, <1>5, <1>6, InvParts DEF World, Settled, SaneCopy
<1>8. NoLostUpdate'
  <2>1. \A a \in acked : a[1] \in Ids
    BY JobReady
  <2> QED
    BY <1>1, <1>5, <1>6, <2>1, InvParts DEF World, NoLostUpdate, SaneCopy, Promised
<1>9. AllLogged'
  BY <1>1, InvParts DEF World, AllLogged
<1>10. Steady
  BY <1>1 DEF Steady, Promised, TypeInv
<1>11. Sane(job[p])'
  BY <1>1, <1>3, <1>4, <1>10, StillListed, InvParts DEF After
<1>12. \A q \in Procs \ {p} : Sane(job[q])'
  BY <1>1, <1>3, <1>10, StillSane, InvParts
<1>13. ASSUME j.n \in alone
       PROVE  Current(job[p])'
  <2>1. Current(j)
    BY <1>1, <1>13, InvParts
  <2>2. j.cmd \in Marking => MarkCurrent(job[p])'
    BY <1>1, <1>3, <1>4, <2>1 DEF Current, MarkCurrent, Before, After
  <2>3. j.cmd = "delete" => DeleteCurrent(job[p])'
    BY <1>1, <1>3, <1>4, <1>6, <2>1 DEF Current, DeleteCurrent, Before, After
  <2> QED
    BY <1>1, <1>3, <1>4, <1>6, <2>1, <2>2, <2>3 DEF Current, Before, After
<1>14. /\ Sole'
       /\ \A q \in Procs : Busy(q)' /\ job'[q].n \in alone' => Current(job[q])'
  BY <1>1, <1>4, <1>13, OthersCurrent
<1> QED
  BY <1>7, <1>8, <1>9, <1>11, <1>12, <1>14, InvParts DEF World

LEMMA OpenLogKeeps ==
  ASSUME TypeInv, TypeInv', Inv, NEW p \in Procs, OpenLog(p)
  PROVE  Inv'
<1> DEFINE j == job[p]
           k == [j EXCEPT !.seen = log.replaced, !.at = "append"]
<1>1. j.at = "openLog" /\ Busy(p) /\ UNCHANGED <<files, wide, log, tmp, started, history>>
  BY DEF OpenLog, Busy
<1>2. j \in Job /\ aged \in Nat
  BY JobReady DEF TypeInv
<1>3. CASE DetectChange(j.old, j.copy) = None
  <2>1. Proceed(p)
    BY <1>3 DEF OpenLog
  <2>2. j.n \in alone => j.cmd \notin Marking
    BY <1>1, <1>3, InvParts DEF Current, MarkCurrent
  <2> QED
    BY <1>1, <2>1, <2>2, ProceedKeeps DEF After
<1>4. CASE DetectChange(j.old, j.copy) # None
  <2>1. Become(p, k) /\ acked' = acked
    BY <1>4 DEF OpenLog
  <2>2. job'[p] = k
    BY <2>1, OneJob
  <2>3. /\ k.at = "append" /\ k.cmd = j.cmd /\ k.n = j.n /\ k.id = j.id /\ k.on = j.on
        /\ k.copy = j.copy /\ k.listed = j.listed /\ k.seen = log.replaced
    BY <1>2 DEF Job
  <2> HIDE DEF k
  <2>4. Steady
    BY <1>1, <1>2, <2>1, JobReady DEF Steady, Promised
  <2>5. Sane(job[p])'
    BY <1>1, <2>2, <2>3, <2>4, StillListed, InvParts DEF After
  <2>6. ASSUME j.n \in alone
        PROVE  Current(job[p])'
    <3>1. Current(j)
      BY <1>1, <2>6, InvParts
    <3>2. j.cmd \in Marking => MarkCurrent(job[p])'
      BY <1>1, <2>2, <2>3, <3>1 DEF Current, MarkCurrent, Before, After
    <3>3. j.cmd = "delete" => DeleteCurrent(job[p])'
      BY <1>1, <2>2, <2>3, <3>1 DEF Current, DeleteCurrent, Before, After
    <3> QED
      BY <1>1, <2>2, <2>3, <3>1, <3>2, <3>3 DEF Current, Before, After
  <2> QED
    BY <1>1, <2>1, <2>3, <2>5, <2>6, MoveKeeps
<1> QED
  BY <1>3, <1>4

LEMMA AppendLineKeeps ==
  ASSUME TypeInv, TypeInv', Inv, NEW p \in Procs, AppendLine(p)
  PROVE  Inv'
<1> DEFINE j == job[p]
<1>1. /\ j.at = "append" /\ Busy(p) /\ Proceed(p)
      /\ UNCHANGED <<files, wide, tmp, started, history>>
      /\ log' = IF j.seen = log.replaced THEN [log EXCEPT !.lines = @ \cup {LineOf(p)}] ELSE log
  BY DEF AppendLine, Busy
<1>2. log.lines \subseteq log'.lines
  BY <1>1 DEF TypeInv
<1>3. ASSUME j.cmd \in Marking, j.n \in alone
      PROVE  \E line \in log'.lines : line.tick = j.id /\ line.n = j.n
  <2>1. j.seen = log.replaced /\ j.on = j.id
    BY <1>1, <1>3, InvParts DEF Current, MarkCurrent, After
  <2>2. log'.lines = log.lines \cup {LineOf(p)}
    BY <1>1, <2>1 DEF TypeInv
  <2>3. LineOf(p).tick = j.on /\ LineOf(p).n = j.n
    BY DEF LineOf
  <2> QED
    BY <2>1, <2>2, <2>3
<1> QED
  BY <1>1, <1>2, <1>3, ProceedKeeps DEF After

LEMMA LogFailsKeeps ==
  ASSUME TypeInv, TypeInv', Inv, NEW p \in Procs, LogFails(p)
  PROVE  Inv'
BY ProceedKeeps DEF LogFails, After

LEMMA GenerateKeeps ==
  ASSUME TypeInv, TypeInv', Inv, NEW p \in Procs, Generate(p)
  PROVE  Inv'
<1> DEFINE j == job[p]
<1>1. /\ j.at = "generate" /\ Busy(p) /\ UNCHANGED <<files, wide, log, tmp, started, history>>
      /\ \E c \in IF j.long THEN Long ELSE Short :
           \/ /\ ~Exists(p, c) /\ acked' = acked
              /\ Become(p, [j EXCEPT !.at = "writeAs", !.id = c, !.on = c, !.copy = NewFile(p)])
           \/ Become(p, [j EXCEPT !.attempts = @ + 1]) /\ acked' = acked
           \/ Become(p, [j EXCEPT !.attempts = 0, !.long = TRUE]) /\ acked' = acked
           \/ GiveUp(p)
  BY DEF Generate, Busy
<1>2. /\ j \in Job /\ j.n \in Serial /\ j.cmd \in {"create", "boardCreate"}
      /\ files \in [Ids -> File]
  BY <1>1, JobReady, JobFacts DEF Ready, StepsOf, Command, Before, After
<1>3. /\ j.n <= started
      /\ \A t \in DOMAIN j.listed : SaneCopy(t, j.listed[t])
      /\ j.cmd = "boardCreate" => \A a \in Promised : a[1] \in DOMAIN j.listed
  BY <1>1, InvParts DEF Sane
<1>4. j.n \in alone =>
        /\ j.n = started /\ MarkCurrent(j)
        /\ \A t \in Ids : j.n \notin files[t].marks
        /\ j.cmd = "boardCreate" => \A t \in Ids : files[t].there => t \in DOMAIN j.listed
  BY <1>1, <1>2, InvParts DEF Current, MarkCurrent, Marking, After
<1>5. ASSUME NEW c \in Ids, ~Exists(p, c), acked' = acked,
             Become(p, [j EXCEPT !.at = "writeAs", !.id = c, !.on = c, !.copy = NewFile(p)])
      PROVE  Inv'
  <2> DEFINE k == [j EXCEPT !.at = "writeAs", !.id = c, !.on = c, !.copy = NewFile(p)]
  <2>1. job'[p] = k
    BY <1>5, OneJob
  <2>2. /\ k.at = "writeAs" /\ k.cmd = j.cmd /\ k.n = j.n /\ k.id = c /\ k.on = c
        /\ k.copy = NewFile(p) /\ k.listed = j.listed
    BY <1>2 DEF Job
  <2>3. Become(p, k)
    BY <1>5
  <2> HIDE DEF k
  <2>4. NewFile(p).marks = {j.n} /\ NewFile(p).there
    BY DEF NewFile
  <2>5. \A a \in Promised : a[1] # c
    <3>1. \A t \in Ids : ~files[t].there => files[t].marks = {}
      BY FileFacts, InvParts DEF World, Settled
    <3>2. \A a \in Promised : files[a[1]].there
      BY <3>1, PromisedType, InvParts DEF World, NoLostUpdate, Promised
    <3> QED
      BY <1>2, <1>3, <1>5, <3>2 DEF Exists
  <2>6. SaneCopy(c, NewFile(p))
    BY <1>3, <2>4, <2>5 DEF SaneCopy
  <2>7. Sane(job[p])'
    BY <1>1, <1>3, <1>5, <2>1, <2>2, <2>6 DEF Sane, SaneCopy, Promised, Before
  <2>8. ASSUME j.n \in alone
        PROVE  Current(job[p])'
    <3>1. ~files[c].there
      BY <1>2, <1>4, <1>5, <2>8 DEF Exists
    <3>2. DetectChange(files[c], NewFile(p)) # None
      BY <3>1, NewDetected
    <3>3. MarkCurrent(job[p])'
      BY <1>1, <1>4, <2>1, <2>2, <2>4, <2>8, <3>2 DEF MarkCurrent, Before, After
    <3> QED
      BY <1>1, <1>2, <1>4, <2>1, <2>2, <2>8, <3>3 DEF Current, Before, After
  <2> QED
    BY <1>1, <1>5, <2>2, <2>3, <2>7, <2>8, MoveKeeps
<1>6. ASSUME acked' = acked, NEW k, Become(p, k),
             k.at = j.at, k.cmd = j.cmd, k.n = j.n, k.listed = j.listed
      PROVE  Inv'
  <2>1. job'[p] = k
    BY <1>6, OneJob
  <2>2. Sane(job[p])'
    BY <1>1, <1>3, <1>6, <2>1 DEF Sane, SaneCopy, Promised, Before
  <2>3. ASSUME j.n \in alone
        PROVE  Current(job[p])'
    <3>1. MarkCurrent(job[p])'
      BY <1>1, <1>4, <1>6, <2>1, <2>3 DEF MarkCurrent, Before, After
    <3> QED
      BY <1>1, <1>2, <1>4, <1>6, <2>1, <2>3, <3>1 DEF Current, Before, After
  <2> QED
    BY <1>1, <1>6, <2>2, <2>3, MoveKeeps
<1>7. CASE Become(p, [j EXCEPT !.attempts = @ + 1]) /\ acked' = acked
  BY <1>2, <1>6, <1>7 DEF Job
<1>8. CASE Become(p, [j EXCEPT !.attempts = 0, !.long = TRUE]) /\ acked' = acked
  BY <1>2, <1>6, <1>8 DEF Job
<1>9. CASE GiveUp(p)
  BY <1>1, <1>9, StopKeeps DEF GiveUp, TypeInv
<1>10. \A c \in IF j.long THEN Long ELSE Short : c \in Ids
  BY DEF Ids
<1> QED
  BY <1>1, <1>5, <1>7, <1>8, <1>9, <1>10

LEMMA SaveConfigKeeps ==
  ASSUME TypeInv, TypeInv', Inv, NEW p \in Procs, SaveConfig(p)
  PROVE  Inv'
<1> DEFINE j == job[p]
<1>1. /\ j.at = "saveConfig" /\ Busy(p) /\ Done(p)
      /\ UNCHANGED <<files, log, tmp, started, history>>
  BY DEF SaveConfig, Busy
<1>2. j.n \in alone => files[j.on] = j.copy /\ (j.cmd \in Marking => MarkCurrent(j))
  BY <1>1, InvParts DEF Current
<1>3. j.cmd \in Marking /\ j.n \in alone => j.n \in files[j.id].marks /\ Logged(j.id, j.n)
  BY <1>1, <1>2 DEF MarkCurrent
<1> QED
  BY <1>1, <1>3, DoneKeeps DEF Logged

\* A tick with a promise is there to be listed.
LEMMA PromisedThere ==
  ASSUME TypeInv, Inv
  PROVE  \A a \in Promised : a[1] \in Ids /\ files[a[1]].there
<1>1. \A t \in Ids : ~files[t].there => files[t].marks = {}
  BY FileFacts, InvParts DEF World, Settled
<1> QED
  BY <1>1, PromisedType, InvParts DEF World, NoLostUpdate, Promised

LEMMA ListKeeps ==
  ASSUME TypeInv, TypeInv', Inv, NEW p \in Procs, List(p)
  PROVE  Inv'
<1> DEFINE j == job[p]
           k == [j EXCEPT !.at = "readNext", !.left = {t \in Ids : files[t].there}]
<1>1. /\ j.at = "list" /\ Busy(p) /\ Become(p, k)
      /\ UNCHANGED <<files, wide, log, tmp, started, acked, history>>
  BY DEF List, Busy
<1>2. j \in Job
  BY JobReady
<1>3. job'[p] = k
  BY <1>1, OneJob
<1>4. /\ k.at = "readNext" /\ k.cmd = j.cmd /\ k.n = j.n /\ k.listed = j.listed
      /\ k.left = {t \in Ids : files[t].there}
  BY <1>2 DEF Job
<1> HIDE DEF k
<1>5. Sane(job[p])'
  BY <1>1, <1>3, <1>4, PromisedThere, InvParts DEF Sane, SaneCopy, Promised, Before
<1>6. ASSUME j.n \in alone
      PROVE  Current(job[p])'
  <2>1. Current(j)
    BY <1>1, <1>6, InvParts
  <2>2. j.cmd \in Marking => MarkCurrent(job[p])'
    BY <1>1, <1>3, <1>4, <2>1 DEF Current, MarkCurrent, Before, After
  <2>3. DeleteCurrent(job[p])'
    BY <1>1, <1>3, <1>4 DEF DeleteCurrent, Before, After
  <2> QED
    BY <1>1, <1>3, <1>4, <2>1, <2>2, <2>3 DEF Current, Before, After
<1> QED
  BY <1>1, <1>4, <1>5, <1>6, MoveKeeps

LEMMA ReadNextKeeps ==
  ASSUME TypeInv, TypeInv', Inv, NEW p \in Procs, ReadNext(p)
  PROVE  Inv'
<1> DEFINE j == job[p]
<1>1. j.at = "readNext" /\ Busy(p) /\ UNCHANGED <<files, wide, log, tmp, started, history>>
  BY DEF ReadNext, Busy
<1>2. /\ j \in Job /\ j.cmd \in {"boardCreate", "delete"} /\ files \in [Ids -> File]
      /\ j.left \subseteq Ids /\ DOMAIN j.listed \subseteq Ids
  BY <1>1, JobReady, JobFacts, ListingFacts DEF Ready, StepsOf, Command, Before, After
<1>3. j.n \in alone =>
        /\ j.n = started /\ (j.cmd \in Marking => MarkCurrent(j))
        /\ \A t \in Ids : files[t].there =>
             t \in j.left \/ (t \in DOMAIN j.listed /\ j.listed[t] = files[t])
        /\ \A t \in j.left \cup DOMAIN j.listed : files[t].there
  BY <1>1, InvParts DEF Current
<1>4. /\ j.n <= started
      /\ \A t \in DOMAIN j.listed : SaneCopy(t, j.listed[t])
      /\ \A a \in Promised : a[1] \in j.left \cup DOMAIN j.listed
  BY <1>1, InvParts DEF Sane
<1>5. CASE j.left = {}
  <2> DEFINE k == [j EXCEPT !.at = IF j.cmd = "delete" THEN "cascade" ELSE "generate"]
  <2>1. Become(p, k) /\ acked' = acked
    BY <1>5 DEF ReadNext, Goto
  <2>2. job'[p] = k
    BY <2>1, OneJob
  <2>3. /\ k.at = IF j.cmd = "delete" THEN "cascade" ELSE "generate"
        /\ k.cmd = j.cmd /\ k.n = j.n /\ k.id = j.id /\ k.listed = j.listed
    BY <1>2 DEF Job
  <2> HIDE DEF k
  <2>4. Sane(job[p])'
    BY <1>1, <1>4, <1>5, <2>1, <2>2, <2>3 DEF Sane, SaneCopy, Promised, Before
  <2>5. ASSUME j.n \in alone
        PROVE  Current(job[p])'
    <3>1. \A t \in Ids : files[t].there <=> t \in DOMAIN j.listed /\ j.listed[t] = files[t]
      BY <1>2, <1>3, <1>5, <2>5
    <3>2. \A t \in Ids : j.id \in files[t].blockedBy => files[t].there
      BY FileFacts, InvParts DEF World, Settled
    <3>3. \A t \in Ids : t \in DOMAIN j.listed => j.listed[t] = files[t] /\ files[t].there
      BY <1>3, <2>5, <3>1
    <3>4. j.cmd = "delete" => DeleteCurrent(job[p])'
      BY <1>1, <2>2, <2>3, <3>1, <3>2, <3>3 DEF DeleteCurrent, Before, After
    <3>5. j.cmd \in Marking => MarkCurrent(job[p])'
      BY <1>1, <1>2, <1>3, <2>2, <2>3, <2>5 DEF MarkCurrent, Before, After, Marking
    <3> QED
      BY <1>1, <1>2, <1>3, <2>2, <2>3, <2>5, <3>1, <3>4, <3>5 DEF Current, Before, After
  <2> QED
    BY <1>1, <2>1, <2>3, <2>4, <2>5, MoveKeeps
<1>6. CASE j.left # {} /\ files[Min(j.left)].there
  <2> DEFINE next == Min(j.left)
             listed == [t \in DOMAIN j.listed \cup {next} |->
                          IF t = next THEN files[t] ELSE j.listed[t]]
             k == [j EXCEPT !.left = @ \ {next},
                     !.listed = [t \in DOMAIN @ \cup {next} |->
                                   IF t = next THEN files[t] ELSE @[t]]]
  <2>1. Become(p, k) /\ acked' = acked
    BY <1>6 DEF ReadNext
  <2>2. job'[p] = k
    BY <2>1, OneJob
  <2>3. next \in j.left /\ next \in Ids
    BY <1>1, <1>6, ReadNextJob
  <2>4. /\ k.at = "readNext" /\ k.cmd = j.cmd /\ k.n = j.n
        /\ k.left = j.left \ {next} /\ k.listed = listed
    BY <1>1, <1>2 DEF Job
  <2>5. /\ DOMAIN listed = DOMAIN j.listed \cup {next} /\ listed[next] = files[next]
        /\ \A t \in DOMAIN j.listed : t # next => listed[t] = j.listed[t]
    OBVIOUS
  <2>6. SaneCopy(next, files[next])
    BY <1>6, <2>3, InvParts DEF SaneCopy, World, Settled, NoLostUpdate, Promised
  <2> HIDE DEF k, listed, next
  <2>7. Sane(job[p])'
    <3>1. \A t \in DOMAIN k.listed : SaneCopy(t, k.listed[t])
      BY <1>4, <2>4, <2>5, <2>6
    <3>2. \A a \in Promised : a[1] \in k.left \cup DOMAIN k.listed
      BY <1>4, <2>4, <2>5
    <3> QED
      BY <1>1, <1>4, <2>1, <2>2, <2>4, <3>1, <3>2 DEF Sane, SaneCopy, Promised, Before
  <2>8. ASSUME j.n \in alone
        PROVE  Current(job[p])'
    <3>1. /\ \A t \in Ids : files[t].there =>
               t \in k.left \/ (t \in DOMAIN k.listed /\ k.listed[t] = files[t])
          /\ \A t \in k.left \cup DOMAIN k.listed : files[t].there
      BY <1>3, <2>3, <2>4, <2>5, <2>8
    <3>2. DeleteCurrent(job[p])'
      BY <2>2, <2>4 DEF DeleteCurrent, Before, After
    <3>3. j.cmd \in Marking => MarkCurrent(job[p])'
      BY <1>1, <1>3, <2>2, <2>4, <2>8 DEF MarkCurrent, Before, After
    <3> QED
      BY <1>1, <1>3, <2>2, <2>4, <2>8, <3>1, <3>2, <3>3 DEF Current, Before, After
  <2> QED
    BY <1>1, <2>1, <2>4, <2>7, <2>8, MoveKeeps
<1>7. CASE j.left # {} /\ ~files[Min(j.left)].there
  BY <1>1, <1>7, StopKeeps DEF ReadNext, GiveUp, TypeInv
<1> QED
  BY <1>5, <1>6, <1>7

LEMMA RemoveKeeps ==
  ASSUME TypeInv, TypeInv', Inv, NEW p \in Procs, Remove(p)
  PROVE  Inv'
<1> DEFINE j == job[p]
           k == [j EXCEPT !.at = "list"]
<1>1. j.at = "remove" /\ Busy(p) /\ UNCHANGED <<wide, log, tmp, started, history>>
  BY DEF Remove, Busy
<1>2. CASE files[j.id].there
  <2>1. /\ files' = [files EXCEPT ![j.id] = Missing] /\ Become(p, k)
        /\ acked' = {a \in acked : a[1] # j.id}
    BY <1>2 DEF Remove, Goto
  <2>2. /\ j \in Job /\ j.cmd = "delete" /\ j.id \in Ids /\ files \in [Ids -> File]
        /\ acked \subseteq Ids \X Serial
    BY <1>1, JobReady, JobFacts DEF Ready, StepsOf, Command, Before, After
  <2>3. job'[p] = k /\ \A q \in Procs \ {p} : job'[q] = job[q]
    BY <2>1, OneJob
  <2>4. k.at = "list" /\ k.cmd = "delete" /\ k.n = j.n /\ k.listed = j.listed
    BY <2>2 DEF Job
  <2> HIDE DEF k
  <2>5. \A t \in Ids : files'[t] = IF t = j.id THEN Missing ELSE files[t]
    BY <2>1, <2>2
  <2>6. Settled'
    BY <1>1, <2>1, <2>5, FileFacts, InvParts DEF World, Settled
  <2>7. NoLostUpdate'
    BY <1>1, <2>1, <2>2, <2>5, InvParts DEF World, NoLostUpdate
  <2>8. AllLogged'
    BY <1>1, <2>1, InvParts DEF World, AllLogged
  <2>9. Steady
    BY <1>1, <2>1 DEF Steady, Promised, TypeInv
  <2>10. Sane(job[p])'
    BY <1>1, <2>3, <2>4, <2>9, StillListed, InvParts
  <2>11. \A q \in Procs \ {p} : Sane(job[q])'
    BY <1>1, <2>3, <2>9, StillSane, InvParts
  <2>12. j.n \in alone => Current(job[p])'
    BY <1>1, <2>3, <2>4, InvParts DEF Current, DeleteCurrent, Marking, Before, After
  <2>13. /\ Sole'
         /\ \A q \in Procs : Busy(q)' /\ job'[q].n \in alone' => Current(job[q])'
    BY <1>1, <2>1, <2>4, <2>12, OthersCurrent
  <2> QED
    BY <2>6, <2>7, <2>8, <2>10, <2>11, <2>13, InvParts DEF World
<1>3. CASE ~files[j.id].there
  BY <1>1, <1>3, StopKeeps DEF Remove, GiveUp, TypeInv
<1> QED
  BY <1>2, <1>3

LEMMA CascadeKeeps ==
  ASSUME TypeInv, TypeInv', Inv, NEW p \in Procs, Cascade(p)
  PROVE  Inv'
<1> DEFINE j == job[p]
           t == Min(Refs(j))
           k == CascadeJob(j)
<1>1. j.at = "cascade" /\ Busy(p) /\ UNCHANGED <<files, wide, log, tmp, started, history>>
  BY CascadeSteps DEF Busy
<1>2. /\ j \in Job /\ j.cmd = "delete" /\ files \in [Ids -> File] /\ aged \in Nat
      /\ \A u \in DOMAIN j.listed : u \in Ids /\ j.listed[u] \in File
  <2>1. j \in Job /\ Ready(j) /\ files \in [Ids -> File] /\ aged \in Nat
    BY JobReady DEF TypeInv
  <2>2. j.cmd = "delete"
    BY <1>1, <2>1, JobFacts DEF Ready, StepsOf, Command, Before, After
  <2> QED
    BY <2>1, <2>2, JobFacts, ListingFacts
<1>3. j.n <= started /\ \A u \in DOMAIN j.listed : SaneCopy(u, j.listed[u])
  BY <1>1, InvParts DEF Sane
<1>4. j.n \in alone =>
        /\ j.n = started
        /\ \A u \in Ids : u \in DOMAIN j.listed => j.listed[u] = files[u] /\ files[u].there
        /\ \A u \in Ids : j.id \in files[u].blockedBy => u \in DOMAIN j.listed
  BY <1>1, <1>2, InvParts DEF Current, DeleteCurrent
<1>5. CASE Refs(j) = {}
  BY <1>1, <1>2, <1>5, CascadeSteps, DoneKeeps DEF Marking
<1>6. CASE Refs(j) # {}
  <2>1. Become(p, k) /\ acked' = acked
    BY <1>6, CascadeSteps
  <2>2. /\ t \in Refs(j) /\ t \in Ids
        /\ k.at = "writeAs" /\ k.on = t /\ k.cmd = j.cmd /\ k.id = j.id /\ k.n = j.n
        /\ k.copy = [j.listed[t] EXCEPT !.blockedBy = @ \ {j.id}]
        /\ DOMAIN k.listed = DOMAIN j.listed \ {t}
        /\ \A u \in DOMAIN k.listed : k.listed[u] = j.listed[u]
    BY <1>1, <1>6, CascadeJobType
  <2>3. job'[p] = k
    BY <2>1, OneJob
  <2>4. t \in DOMAIN j.listed /\ j.listed[t] \in File
    BY <1>2, <2>2 DEF Refs
  <2>5. /\ k.copy.marks = j.listed[t].marks /\ k.copy.there = j.listed[t].there
        /\ j.id \notin k.copy.blockedBy
    BY <2>2, <2>4 DEF File
  <2> HIDE DEF k, t
  <2>6. SaneCopy(t, k.copy) /\ \A u \in DOMAIN k.listed : SaneCopy(u, k.listed[u])
    BY <1>3, <2>2, <2>4, <2>5 DEF SaneCopy
  <2>7. Sane(job[p])'
    BY <1>1, <1>3, <2>1, <2>2, <2>3, <2>6 DEF Sane, SaneCopy, Promised, Before
  <2>8. ASSUME j.n \in alone
        PROVE  Current(job[p])'
    <3>1. /\ \A u \in Ids : u \in DOMAIN k.listed => k.listed[u] = files[u] /\ files[u].there
          /\ t \notin DOMAIN k.listed
          /\ \A u \in Ids \ {t} : j.id \in files[u].blockedBy => u \in DOMAIN k.listed
      BY <1>4, <2>2, <2>8
    <3>2. DeleteCurrent(job[p])'
      BY <1>1, <2>2, <2>3, <2>5, <3>1 DEF DeleteCurrent, Before, After
    <3> QED
      BY <1>1, <1>2, <1>4, <2>2, <2>3, <2>8, <3>2 DEF Current, Marking, Before, After
  <2> QED
    BY <1>1, <2>1, <2>2, <2>7, <2>8, MoveKeeps
<1> QED
  BY <1>5, <1>6

\* What a trim leaves out is older than its cutoff.
LEMMA TrimKeeps ==
  ASSUME TypeInv, TypeInv', Inv, NEW p \in Procs, Trim(p)
  PROVE  Inv'
<1>1. PICK cutoff \in 0 .. started :
        LET kept == {line \in log.lines : Recent(line, cutoff)} IN
        /\ \/ Become(p, Idle)
           \/ Become(p, [job[p] EXCEPT !.at = "trimWrite", !.kept = kept])
        /\ aged' = Max({aged, cutoff})
  BY DEF Trim
<1> DEFINE kept == {line \in log.lines : Recent(line, cutoff)}
           k == [job[p] EXCEPT !.at = "trimWrite", !.kept = kept]
<1>2. /\ job[p].at = "trim" /\ Busy(p)
      /\ UNCHANGED <<files, wide, log, tmp, started, acked, alone, unlogged>>
  BY DEF Trim, Busy
<1>3. /\ aged \in Nat /\ aged' \in Nat /\ cutoff \in Nat
      /\ \A line \in log.lines : line.n \in Nat
  BY <1>1 DEF TypeInv, Line
<1>4. aged <= aged' /\ cutoff <= aged'
  BY <1>1, <1>3, LaterCutoff
<1>5. CASE Become(p, Idle)
  BY <1>2, <1>4, <1>5, StopKeeps
<1>6. CASE Become(p, k)
  <2>1. job[p] \in Job /\ job[p].cmd = "gc"
    BY <1>2, JobReady, JobFacts DEF Ready, StepsOf, Command, Before, After
  <2>2. job'[p] = k /\ \A q \in Procs \ {p} : job'[q] = job[q]
    BY <1>6, OneJob
  <2>3. /\ k.at = "trimWrite" /\ k.cmd = "gc" /\ k.n = job[p].n /\ k.kept = kept
        /\ k.listed = job[p].listed
    BY <2>1 DEF Job
  <2> HIDE DEF k
  <2>4. World' /\ Steady
    BY <1>2, <1>4, InvParts, WorldStays
  <2>5. \A a \in Promised : InLog(a, kept)'
    <3> SUFFICES ASSUME NEW a \in Promised
                 PROVE  \/ \E line \in kept : line.tick = a[1] /\ line.n = a[2]
                        \/ a[2] \in unlogged' \/ a[2] <= aged'
      BY <1>2, <1>3, PromisedType DEF InLog
    <3>1. InLog(a, log.lines)
      BY InvParts DEF World, AllLogged, Promised, InLog
    <3>2. a[2] <= aged => a[2] <= aged'
      BY <1>3, <1>4, PromisedType
    <3>3. ASSUME NEW line \in log.lines, line.tick = a[1], line.n = a[2], ~(a[2] <= aged')
          PROVE  line \in kept
      BY <1>3, <1>4, <3>3 DEF Recent
    <3>4. CASE \E line \in log.lines : line.tick = a[1] /\ line.n = a[2]
      BY <3>3, <3>4
    <3> QED
      BY <1>2, <3>1, <3>2, <3>4 DEF InLog
  <2>6. Sane(job[p])'
    <3>1. \A t, copy : copy \in File /\ SaneCopy(t, copy) => SaneCopy(t, copy)'
      BY <2>4, StillSaneCopy
    <3>2. /\ job[p].n <= started
          /\ \A t \in DOMAIN job[p].listed : /\ SaneCopy(t, job[p].listed[t])
                                            /\ job[p].listed[t] \in File
      BY <1>2, <2>1, InvParts, JobFacts, ListingFacts DEF Sane
    <3>3. Promised' = Promised
      BY <1>2 DEF Promised
    <3>4. \A a \in Promised' : InLog(a, job[p].kept)'
      BY <1>2, <2>2, <2>3, <2>5, <3>3 DEF InLog
    <3> QED
      BY <1>2, <2>2, <2>3, <3>1, <3>2, <3>4 DEF Sane, Before
  <2>7. \A q \in Procs \ {p} : Sane(job[q])'
    BY <1>2, <2>2, <2>4, StillSane, InvParts
  <2>8. job[p].n \in alone => Current(job[p])'
    BY <1>2, <2>1, <2>2, <2>3, InvParts DEF Current, Marking, Before, After
  <2>9. /\ Sole'
        /\ \A q \in Procs : Busy(q)' /\ job'[q].n \in alone' => Current(job[q])'
    BY <1>2, <1>6, <2>3, <2>8, OthersCurrent
  <2> QED
    BY <2>4, <2>6, <2>7, <2>9, InvParts
<1> QED
  BY <1>1, <1>5, <1>6

\* The temporary file of every trim that is under way holds what was promised,
\* whichever of them wrote it last.
LEMMA TrimWriteKeeps ==
  ASSUME TypeInv, TypeInv', Inv, NEW p \in Procs, TrimWrite(p)
  PROVE  Inv'
<1> DEFINE k == [job[p] EXCEPT !.at = "trimRename"]
<1>1. /\ job[p].at = "trimWrite" /\ Busy(p)
      /\ tmp' = [there |-> TRUE, lines |-> job[p].kept]
      /\ Become(p, k) /\ UNCHANGED <<files, wide, log, started, acked, history>>
  BY DEF TrimWrite, Goto, Busy
<1>2. job[p] \in Job /\ job[p].cmd = "gc"
  BY <1>1, JobReady, JobFacts DEF Ready, StepsOf, Command, Before, After
<1>3. job'[p] = k /\ \A q \in Procs \ {p} : job'[q] = job[q]
  BY <1>1, OneJob
<1>4. k.at = "trimRename" /\ k.cmd = "gc" /\ k.n = job[p].n /\ k.listed = job[p].listed
  BY <1>2 DEF Job
<1> HIDE DEF k
<1>5. \A a \in Promised : InLog(a, tmp'.lines)
  BY <1>1, InvParts DEF Sane
<1>6. Promised' = Promised /\ \A a \in Promised' : InLog(a, tmp.lines)'
  BY <1>1, <1>5 DEF Promised, InLog
<1>7. ASSUME NEW q \in Procs
      PROVE  Sane(job[q])'
  <2>1. Sane(job[q]) /\ Sane(job[p])
    BY InvParts
  <2>2. CASE q = p
    BY <1>1, <1>3, <1>4, <1>6, <2>1, <2>2 DEF Sane, SaneCopy, Before
  <2>3. CASE q # p
    BY <1>1, <1>3, <1>6, <2>1, <2>3 DEF Sane, SaneCopy, InLog, Before
  <2> QED
    BY <2>2, <2>3
<1>8. World'
  BY <1>1, InvParts DEF World, Settled, NoLostUpdate, AllLogged
<1>9. job[p].n \in alone => Current(job[p])'
  BY <1>1, <1>2, <1>3, <1>4, InvParts DEF Current, Marking, Before, After
<1>10. /\ Sole'
       /\ \A q \in Procs : Busy(q)' /\ job'[q].n \in alone' => Current(job[q])'
  BY <1>1, <1>4, <1>9, OthersCurrent
<1> QED
  BY <1>7, <1>8, <1>10, InvParts

LEMMA TrimRenameKeeps ==
  ASSUME TypeInv, TypeInv', Inv, NEW p \in Procs, TrimRename(p)
  PROVE  Inv'
<1>1. /\ job[p].at = "trimRename" /\ Busy(p) /\ Become(p, Idle) /\ tmp' = NoTmp
      /\ UNCHANGED <<files, wide, started, acked, history>>
      /\ log' = IF tmp.there THEN [replaced |-> log.replaced + 1, lines |-> tmp.lines] ELSE log
  BY DEF TrimRename, Busy
<1>2. job'[p] = Idle /\ \A q \in Procs \ {p} : job'[q] = job[q]
  BY <1>1, OneJob
<1>3. \A a \in Promised : InLog(a, log'.lines)
  <2>1. CASE tmp.there
    BY <1>1, <2>1, InvParts DEF Sane
  <2>2. CASE ~tmp.there
    BY <1>1, <2>2, InvParts DEF World, AllLogged, InLog, Promised
  <2> QED
    BY <2>1, <2>2
<1>4. World'
  BY <1>1, <1>3, InvParts DEF World, Settled, NoLostUpdate, AllLogged, InLog, Promised
<1>5. ASSUME NEW q \in Procs
      PROVE  Sane(job[q])'
  <2>1. CASE q = p
    BY <1>2, <2>1, IdleFacts DEF Sane
  <2>2. CASE q # p
    BY <1>1, <1>2, <2>2, InvParts DEF Sane, SaneCopy, InLog, Promised, NoTmp
  <2> QED
    BY <2>1, <2>2
<1>6. /\ Sole'
      /\ \A q \in Procs : Busy(q)' /\ job'[q].n \in alone' => Current(job[q])'
  BY <1>1, IdleFacts, OthersCurrent
<1> QED
  BY <1>4, <1>5, <1>6, InvParts

LEMMA FailKeeps ==
  ASSUME TypeInv, TypeInv', Inv, NEW p \in Procs, Fail(p)
  PROVE  Inv'
BY StopKeeps DEF Fail, TypeInv, Busy

LEMMA InvInit == Init => Inv
<1> SUFFICES ASSUME Init PROVE Inv
  OBVIOUS
<1>1. \A t \in Ids : files[t].marks = {} /\ (~files[t].there => files[t] = Missing)
  BY FileFacts DEF Init
<1>2. acked = {} /\ alone = {}
  BY DEF Init
<1>3. \A p \in Procs : job[p].at = "idle"
  BY IdleFacts DEF Init
<1> QED
  BY <1>1, <1>2, <1>3 DEF Inv, World, Settled, NoLostUpdate, AllLogged, Sole, Sane, Busy

LEMMA InvStep == TypeInv /\ TypeInv' /\ Inv /\ [Next]_vars => Inv'
<1> SUFFICES ASSUME TypeInv, TypeInv', Inv, [Next]_vars
             PROVE  Inv'
  OBVIOUS
<1>1. CASE UNCHANGED vars
  BY <1>1 DEF vars, Inv, World, Settled, NoLostUpdate, AllLogged, Sole, Busy, Sane, SaneCopy,
     Promised, InLog, Current, MarkCurrent, DeleteCurrent, Logged
<1>2. ASSUME NEW p \in Procs, Start(p) \/ Continue(p) \/ Fail(p)
      PROVE  Inv'
  BY <1>2, StartKeeps, ReadKeeps, CheckKeeps, WriteAsKeeps, RenameKeeps, OpenLogKeeps,
     AppendLineKeeps, LogFailsKeeps, GenerateKeeps, SaveConfigKeeps, ListKeeps, ReadNextKeeps,
     RemoveKeeps, CascadeKeeps, TrimKeeps, TrimWriteKeeps, TrimRenameKeeps, FailKeeps
     DEF Continue
<1> QED
  BY <1>1, <1>2 DEF Next

LEMMA InvAlways == Spec => []Inv
BY InvInit, InvStep, TypeAlways, PTL DEF Spec

\* For any number of processes and commands, of which any may die halfway: what
\* a command that was alone reported written stays on its tick until the tick
\* is deleted, however the commands after it race.  Each of them reads before it
\* writes, create takes an id that no file has, and the writes of a delete take
\* no note away: so every copy that is ever renamed over the tick holds the mark.
THEOREM UpdatesLast == Spec => []NoLostUpdate
<1>1. Inv => NoLostUpdate
  BY DEF Inv, World
<1> QED
  BY <1>1, InvAlways, PTL

\* For any number of processes and commands, of which any may die halfway: every
\* note and tick that a command which was alone reported written is in the
\* activity log, unless its line failed to be written or a trim's cutoff was
\* beyond it.  The numbers that logTickChange compares tell that a mark was
\* added, and whichever trim last wrote the temporary file had read the line.
THEOREM LogIsWhole == Spec => []AllLogged
<1>1. Inv => AllLogged
  BY DEF Inv, World
<1> QED
  BY <1>1, InvAlways, PTL

\* A delete that was alone and reports success has left no tick that names the
\* deleted one as a blocker, whatever racing commands left before it: the copies
\* that it holds are all the files that do, and it writes one after the other
\* until none is left.
THEOREM DeletesAreClean == Spec => DeleteIsClean
<1> DEFINE Clean(p) ==
      job[p].cmd = "delete" /\ job[p].at = "cascade" /\ job'[p].at = "idle"
        /\ faults' = faults /\ job[p].n \in alone =>
      \A t \in Ids : job[p].id \notin files[t].blockedBy
<1>1. ASSUME TypeInv, Inv, [Next]_vars
      PROVE  [\A p \in Procs : Clean(p)]_vars
  <2> SUFFICES ASSUME NEW p \in Procs, Next, job[p].cmd = "delete", job[p].at = "cascade",
                      job'[p].at = "idle", faults' = faults, job[p].n \in alone
               PROVE  \A t \in Ids : job[p].id \notin files[t].blockedBy
    BY <1>1
  <2>1. PICK q \in Procs : Start(q) \/ Continue(q) \/ Fail(q)
    BY DEF Next
  <2>2. \E k : Become(q, k)
    BY <2>1 DEF Start, Begin, Continue, Fail, Read, Check, WriteAs, Rename, OpenLog, AppendLine,
       LogFails, Proceed, Done, GiveUp, Goto, Generate, SaveConfig, List, ReadNext, Remove,
       Cascade, Trim, TrimWrite, TrimRename
  <2>3. q = p
    BY <1>1, <2>2, OneJob
  <2>4. ~Start(p)
    BY DEF Start, Begin
  <2>5. ~Fail(p) /\ ~LogFails(p)
    BY <1>1 DEF Fail, LogFails, TypeInv
  <2>6. Cascade(p)
    BY <2>1, <2>3, <2>4, <2>5 DEF Continue, Read, Check, WriteAs, Rename, OpenLog, AppendLine,
       Generate, SaveConfig, List, ReadNext, Remove, Trim, TrimWrite, TrimRename
  <2>7. Refs(job[p]) = {}
    <3>1. CASE Refs(job[p]) # {}
      <4>1. Become(p, CascadeJob(job[p])) /\ CascadeJob(job[p]).at = "writeAs"
        BY <1>1, <2>6, <3>1, CascadeSteps, CascadeJobType
      <4> QED
        BY <1>1, <4>1, OneJob
    <3> QED
      BY <3>1
  <2>8. DeleteCurrent(job[p])
    BY <1>1 DEF Inv, Current, Busy
  <2> QED
    BY <2>7, <2>8 DEF DeleteCurrent, Refs
<1>2. Spec => [][\A p \in Procs : Clean(p)]_vars
  BY <1>1, TypeAlways, InvAlways, PTL DEF Spec
<1> QED
  BY <1>2 DEF DeleteIsClean
=============================================================================
