--------------------------- MODULE Operator_proofs ---------------------------
(***************************************************************************)
(* Theorems about Operator, for any number of ticks, questions and         *)
(* processes.                                                              *)
(***************************************************************************)
EXTENDS Operator, TLAPS

-----------------------------------------------------------------------------
(***************************************************************************)
(* What the functions on ticks return.                                     *)
(***************************************************************************)
LEMMA NewTickType == NewTick(None) \in TickFile
  BY DEF NewTick, TickFile, TickRecord, Status

LEMMA SetAwaitingType ==
  ASSUME NEW t \in TickFile, NEW v \in Awaiting \cup {None}
  PROVE  SetAwaiting(t, v) \in TickFile
  BY DEF SetAwaiting, TickFile, TickRecord

LEMMA ClearAwaitingType ==
  ASSUME NEW t \in TickFile
  PROVE  ClearAwaiting(t) \in TickFile
  BY SetAwaitingType DEF ClearAwaiting

LEMMA AddNoteType ==
  ASSUME NEW t \in TickFile, NEW line \in NoteLines
  PROVE  AddNote(t, line) \in TickFile
  BY DEF AddNote, TickFile, TickRecord

LEMMA ProcessVerdictType ==
  ASSUME NEW t \in TickFile
  PROVE  ProcessVerdict(t) \in TickFile
<1> DEFINE c == ClearAwaiting(t)
<1>1. c \in TickFile
  BY ClearAwaitingType
<1>2. CASE t.verdict = None \/ t.awaiting = None
  BY <1>2 DEF ProcessVerdict
<1>3. CASE ~(t.verdict = None \/ t.awaiting = None) /\ Closes(t.awaiting, t.verdict)
  <2>1. ProcessVerdict(t) = [c EXCEPT !.verdict = @, !.status = "closed", !.closedAt = @ \/ TRUE]
    BY <1>3 DEF ProcessVerdict
  <2>2. ProcessVerdict(t) = [c EXCEPT !.status = "closed", !.closedAt = TRUE]
    BY <1>1, <2>1 DEF TickFile, TickRecord
  <2> HIDE DEF c
  <2> QED
    BY <1>1, <2>2 DEF TickFile, TickRecord, Status
<1>4. CASE ~(t.verdict = None \/ t.awaiting = None) /\ ~Closes(t.awaiting, t.verdict)
  <2>1. ProcessVerdict(t) = [c EXCEPT !.verdict = None, !.status = @, !.closedAt = @ \/ FALSE]
    BY <1>4 DEF ProcessVerdict
  <2> HIDE DEF c
  <2> QED
    BY <1>1, <2>1 DEF TickFile, TickRecord
<1> QED
  BY <1>2, <1>3, <1>4

LEMMA DecideType ==
  ASSUME NEW t \in TickFile, NEW v \in Verdict
  PROVE  Decide(t, v) \in TickFile
<1> DEFINE n == NormalizeManual(t)
           d == [n EXCEPT !.verdict = v]
<1>1. n \in TickFile
  BY SetAwaitingType DEF NormalizeManual, Awaiting
<1>2. d \in TickFile
  BY <1>1 DEF TickFile, TickRecord
<1> QED
  BY <1>2, ProcessVerdictType DEF Decide

LEMMA WithAnswerType ==
  ASSUME NEW q \in Questions, NEW t \in TickFile, NEW a \in Answers \cup {None}
  PROVE  WithAnswer(q, t, a) \in TickFile
<1>1. AddNote(t, <<q, a>>) \in TickFile
  BY AddNoteType DEF NoteLines
<1> QED
  BY <1>1, DecideType DEF WithAnswer, Verdict

-----------------------------------------------------------------------------
(***************************************************************************)
(* Type correctness.  TypeOK is not inductive alone: a process at a step   *)
(* that works on a question must have one, and likewise the tick of a      *)
(* verdict.                                                                *)
(***************************************************************************)
AskSteps    == {"park", "save"}
AnswerSteps == {"resolve", "record", "apply", "check", "read", "siblings", "write",
                "mark", "stamp", "watch", "drain", "deliver"}

Placed ==
  \A p \in Procs :
    /\ job[p].at \in AskSteps \cup AnswerSteps => job[p].q \in Questions
    /\ job[p].at = "verdict" => job[p].on \in Ticks

TypeInv == TypeOK /\ Placed

LEMMA OpenType == Open \in Resolution
  BY DEF Open, Resolution

LEMMA EntryType == Missing \in Entry /\ Asked \in Entry
  BY OpenType DEF Missing, Asked, Entry

LEMMA IdleType == Idle \in Job /\ Idle.at = "idle"
  BY NewTickType, EntryType DEF Idle, Job, Steps, Roles

\* Types and places are kept when one process moves to a well placed job.
LEMMA JobType ==
  ASSUME TypeInv, NEW p \in Procs, NEW j \in Job, Become(p, j),
         j.at \in AskSteps \cup AnswerSteps => j.q \in Questions,
         j.at = "verdict" => j.on \in Ticks
  PROVE  job' \in [Procs -> Job] /\ Placed'
  BY DEF TypeInv, TypeOK, Placed, Become

LEMMA GotoType ==
  ASSUME TypeInv, NEW p \in Procs, NEW at \in Steps \ {"verdict"}, Goto(p, at),
         at \in AskSteps \cup AnswerSteps => job[p].q \in Questions
  PROVE  job' \in [Procs -> Job] /\ Placed'
<1> DEFINE j == [job[p] EXCEPT !.at = at]
<1>1. j \in Job /\ j.at = at /\ j.q = job[p].q
  BY DEF TypeInv, TypeOK, Job
<1>2. Become(p, j)
  BY DEF Goto
<1> HIDE DEF j
<1> QED
  BY <1>1, <1>2, JobType

\* Files keep their types under the two write operations.
LEMMA WriteTickType ==
  ASSUME TypeInv, NEW t \in Ticks, NEW new \in TickFile, WriteTick(t, new)
  PROVE  ticks' \in [Ticks -> TickFile] /\ moot' \subseteq Questions
  BY DEF TypeInv, TypeOK, WriteTick

LEMMA WriteEntryType ==
  ASSUME TypeInv, NEW q \in Questions, NEW e \in Entry, WriteEntry(q, e)
  PROVE  store' \in [Questions -> Entry] /\ recorded' \in [Questions -> Resolution]
  BY DEF TypeInv, TypeOK, WriteEntry, Entry

LEMMA InitType == Init => TypeInv
<1> SUFFICES ASSUME Init PROVE TypeInv
  OBVIOUS
<1>1. /\ ticks \in [Ticks -> TickFile]
      /\ store \in [Questions -> Entry]
      /\ recorded \in [Questions -> Resolution]
  BY NewTickType, EntryType, OpenType DEF Init
<1>2. created \in Seq(Questions) /\ lock \in Procs \cup {None} /\ moot \subseteq Questions
  BY DEF Init
<1>3. faults \in 0..MaxFaults /\ effects \in [Questions -> Nat]
  BY OperatorAssumption DEF Init
<1>4. job \in [Procs -> Job] /\ Placed
  BY IdleType DEF Init, Placed, AskSteps, AnswerSteps
<1> QED
  BY <1>1, <1>2, <1>3, <1>4 DEF TypeInv, TypeOK

LEMMA SettledType ==
  ASSUME TypeInv, NEW p \in Procs, job[p].q \in Questions
  PROVE  /\ Settled(p) \in Job
         /\ Settled(p).at \in {"idle", "drain"}
         /\ Settled(p).at = "drain" => Settled(p).q = job[p].q
  BY IdleType DEF TypeInv, TypeOK, Settled, Job, Steps, Idle

LEMMA SkippedType ==
  ASSUME TypeInv, NEW p \in Procs
  PROVE  Skipped(p) \in Job /\ Skipped(p).at = "next"
  BY EntryType DEF TypeInv, TypeOK, Skipped, Job, Steps

-----------------------------------------------------------------------------
\* One lemma per group of actions.
LEMMA AskType ==
  ASSUME TypeInv, NEW p \in Procs,
         Park(p) \/ Save(p) \/ \E q \in Questions : StartAsk(p, q)
  PROVE  TypeInv'
<1> USE DEF AskSteps, AnswerSteps, Steps, Roles
<1>1. ASSUME NEW q \in Questions, StartAsk(p, q) PROVE TypeInv'
  <2> DEFINE held == SetAwaiting(ticks[TickOf[q]], AwaitingOf(q))
             j == [Idle EXCEPT !.at   = IF Kind[q] = "agent_relay" THEN "save" ELSE "park",
                               !.role = "ask", !.q = q, !.tick = held]
  <2>1. held \in TickFile
    BY OperatorAssumption, SetAwaitingType
       DEF TypeInv, TypeOK, AwaitingOf, Awaiting, Requires
  <2>2. j \in Job /\ j.q = q /\ j.at \in AskSteps
    <3> HIDE DEF held
    <3> QED  BY <2>1, IdleType DEF Job
  <2>3. Become(p, j)
    BY <1>1 DEF StartAsk
  <2> HIDE DEF j
  <2>4. job' \in [Procs -> Job] /\ Placed'
    BY <2>2, <2>3, JobType
  <2> QED
    BY <1>1, <2>4 DEF StartAsk, TypeInv, TypeOK
<1>2. CASE Park(p)
  <2>1. job[p].q \in Questions /\ job[p].tick \in TickFile
    BY <1>2 DEF Park, TypeInv, TypeOK, Placed, Job
  <2>2. ticks' \in [Ticks -> TickFile] /\ moot' \subseteq Questions
    BY <1>2, <2>1, WriteTickType, OperatorAssumption DEF Park
  <2>3. job' \in [Procs -> Job] /\ Placed'
    BY <1>2, <2>1, GotoType DEF Park
  <2> QED
    BY <1>2, <2>2, <2>3 DEF Park, TypeInv, TypeOK
<1>3. CASE Save(p)
  <2>1. job[p].q \in Questions /\ moot' \subseteq Questions
    BY <1>3 DEF Save, TypeInv, TypeOK, Placed
  <2>2. store' \in [Questions -> Entry] /\ recorded' \in [Questions -> Resolution]
    BY <1>3, <2>1, EntryType, WriteEntryType DEF Save
  <2>3. job' \in [Procs -> Job] /\ Placed'
    BY <1>3, IdleType, JobType DEF Save
  <2>4. created' \in Seq(Questions)
    BY <1>3, <2>1 DEF Save, TypeInv, TypeOK
  <2> QED
    BY <1>3, <2>2, <2>3, <2>4 DEF Save, TypeInv, TypeOK
<1> QED
  BY <1>1, <1>2, <1>3

LEMMA AnswerType ==
  ASSUME TypeInv, NEW p \in Procs,
         \/ Resolve(p) \/ Record(p)
         \/ \E q \in Questions, a \in Answers : StartAnswer(p, q, a)
  PROVE  TypeInv'
<1> USE DEF AskSteps, AnswerSteps, Steps, Roles
<1>1. ASSUME NEW q \in Questions, NEW a \in Answers, StartAnswer(p, q, a) PROVE TypeInv'
  <2> DEFINE e == [Missing EXCEPT !.res = Answer(a)]
             j == [Idle EXCEPT !.at = "resolve", !.role = "answer", !.q = q, !.entry = e]
  <2>1. e \in Entry
    BY EntryType DEF Entry, Answer, Resolution
  <2>2. j \in Job /\ j.q = q /\ j.at = "resolve"
    <3> HIDE DEF e
    <3> QED  BY <2>1, IdleType DEF Job
  <2>3. Become(p, j)
    BY <1>1 DEF StartAnswer, Idle
  <2> HIDE DEF j
  <2>4. job' \in [Procs -> Job] /\ Placed'
    BY <2>2, <2>3, JobType
  <2> QED
    BY <1>1, <2>4 DEF StartAnswer, TypeInv, TypeOK
<1>2. CASE Resolve(p)
  <2> DEFINE r == job[p].q
             e == store[r]
             taken == [job[p] EXCEPT !.at = "apply", !.entry = e]
             f == [e EXCEPT !.res = job[p].entry.res]
             held == [job[p] EXCEPT !.at = "record", !.entry = f]
  <2>1. job[p] \in Job /\ r \in Questions /\ e \in Entry
    BY <1>2 DEF Resolve, TypeInv, TypeOK, Placed
  <2>2. /\ taken \in Job /\ taken.q = r /\ taken.at = "apply"
        /\ held \in Job /\ held.q = r /\ held.at = "record"
    <3>1. f \in Entry
      BY <2>1 DEF Job, Entry
    <3> HIDE DEF f
    <3>2. taken \in Job /\ taken.q = r /\ taken.at = "apply"
      BY <2>1 DEF Job
    <3>3. held \in Job /\ held.q = r /\ held.at = "record"
      BY <2>1, <3>1 DEF Job
    <3> QED
      BY <3>2, <3>3
  <2>3. \/ Become(p, Skipped(p)) \/ Become(p, Idle) \/ Become(p, taken) \/ Become(p, held)
    BY <1>2 DEF Resolve
  <2> HIDE DEF taken, held
  <2>4. job' \in [Procs -> Job] /\ Placed'
    BY <2>1, <2>2, <2>3, IdleType, SkippedType, JobType
  <2>5. lock' \in Procs \cup {None}
    BY <1>2 DEF Resolve, Acquire, TypeInv, TypeOK
  <2> QED
    BY <1>2, <2>4, <2>5 DEF Resolve, TypeInv, TypeOK
<1>3. CASE Record(p)
  <2>1. job[p].q \in Questions /\ job[p].entry \in Entry
    BY <1>3 DEF Record, TypeInv, TypeOK, Placed, Job
  <2>2. store' \in [Questions -> Entry] /\ recorded' \in [Questions -> Resolution]
    BY <1>3, <2>1, WriteEntryType DEF Record
  <2>3. job' \in [Procs -> Job] /\ Placed'
    BY <1>3, <2>1, GotoType DEF Record
  <2> QED
    BY <1>3, <2>2, <2>3 DEF Record, TypeInv, TypeOK
<1> QED
  BY <1>1, <1>2, <1>3

LEMMA ApplyType ==
  ASSUME TypeInv, NEW p \in Procs,
         \/ Apply(p) \/ Check(p) \/ Read(p) \/ Siblings(p)
         \/ Write(p) \/ Mark(p) \/ Stamp(p)
  PROVE  TypeInv'
<1> DEFINE q == job[p].q
<1> USE DEF AskSteps, AnswerSteps, Steps, Roles
<1>1. /\ job[p] \in Job
      /\ q \in Questions
      /\ store[q] \in Entry
      /\ ticks[TickOf[q]] \in TickFile
      /\ TickOf[q] \in Ticks
  BY OperatorAssumption
     DEF TypeInv, TypeOK, Placed, Apply, Check, Read, Siblings, Write, Mark, Stamp
<1>2. /\ job[p].entry \in Entry
      /\ job[p].entry.res.answer \in Answers \cup {None}
      /\ job[p].tick \in TickFile
  BY <1>1 DEF Job, Entry, Resolution
<1>3. CASE Apply(p)
  <2> DEFINE e == IF IsSettled(store[q]) THEN store[q] ELSE job[p].entry
             j(at) == [job[p] EXCEPT !.at = at, !.entry = e]
  <2>1. \A at \in {"mark", "check"} : j(at) \in Job /\ j(at).q = q /\ j(at).at = at
    <3>1. e \in Entry
      BY <1>1, <1>2
    <3> HIDE DEF e
    <3> QED
      BY <1>1, <3>1 DEF Job
  <2>2. Become(p, Settled(p)) \/ Become(p, j("mark")) \/ Become(p, j("check"))
    BY <1>3 DEF Apply
  <2> HIDE DEF j
  <2>3. job' \in [Procs -> Job] /\ Placed'
    BY <1>1, <2>1, <2>2, SettledType, JobType
  <2>4. lock' \in Procs \cup {None}
    BY <1>3 DEF Apply, Acquire, TypeInv, TypeOK
  <2> QED
    BY <1>3, <2>3, <2>4 DEF Apply, TypeInv, TypeOK
<1>4. CASE Check(p)
  <2>1. job' \in [Procs -> Job] /\ Placed'
    BY <1>1, <1>4, SettledType, JobType, GotoType DEF Check
  <2> QED
    BY <1>4, <2>1 DEF Check, TypeInv, TypeOK
<1>5. CASE Read(p)
  <2> DEFINE t == WithAnswer(q, ticks[TickOf[q]], job[p].entry.res.answer)
             j(at) == [job[p] EXCEPT !.at = at, !.tick = t]
  <2>1. \A at \in {"write", "siblings"} : j(at) \in Job /\ j(at).q = q /\ j(at).at = at
    <3>1. t \in TickFile
      BY <1>1, <1>2, WithAnswerType
    <3> HIDE DEF t
    <3> QED
      BY <1>1, <3>1 DEF Job
  <2>2. Become(p, Idle) \/ Become(p, j("write")) \/ Become(p, j("siblings"))
    BY <1>5 DEF Read
  <2> HIDE DEF j
  <2>3. job' \in [Procs -> Job] /\ Placed'
    BY <1>1, <2>1, <2>2, IdleType, JobType
  <2>4. lock' \in Procs \cup {None}
    BY <1>5 DEF Read, TypeInv, TypeOK
  <2> QED
    BY <1>5, <2>3, <2>4 DEF Read, TypeInv, TypeOK
<1>6. CASE Siblings(p)
  <2> DEFINE t == IF OtherOpen(q) THEN job[p].tick ELSE ClearAwaiting(job[p].tick)
             j == [job[p] EXCEPT !.at = "write", !.tick = t]
  <2>1. j \in Job /\ j.q = q /\ j.at = "write"
    <3>1. t \in TickFile
      BY <1>2, ClearAwaitingType
    <3> HIDE DEF t
    <3> QED
      BY <1>1, <3>1 DEF Job
  <2>2. Become(p, j)
    BY <1>6 DEF Siblings
  <2> HIDE DEF j
  <2>3. job' \in [Procs -> Job] /\ Placed'
    BY <1>1, <2>1, <2>2, JobType
  <2> QED
    BY <1>6, <2>3 DEF Siblings, TypeInv, TypeOK
<1>7. CASE Write(p)
  <2>1. ticks' \in [Ticks -> TickFile] /\ moot' \subseteq Questions
    BY <1>1, <1>2, <1>7, WriteTickType DEF Write
  <2>2. job' \in [Procs -> Job] /\ Placed'
    BY <1>1, <1>7, GotoType DEF Write
  <2>3. effects' \in [Questions -> Nat]
    BY <1>1, <1>7 DEF Write, TypeInv, TypeOK
  <2> QED
    BY <1>7, <2>1, <2>2, <2>3 DEF Write, TypeInv, TypeOK
<1>8. CASE Mark(p)
  <2> DEFINE e == [store[q] EXCEPT !.applied = TRUE]
             j == [job[p] EXCEPT !.at = "stamp", !.entry = e]
  <2>1. j \in Job /\ j.q = q /\ j.at = "stamp"
    <3>1. e \in Entry
      BY <1>1 DEF Entry
    <3> HIDE DEF e
    <3> QED
      BY <1>1, <3>1 DEF Job
  <2>2. Become(p, j) \/ Become(p, Settled(p))
    BY <1>8 DEF Mark
  <2> HIDE DEF j
  <2>3. job' \in [Procs -> Job] /\ Placed'
    BY <1>1, <2>1, <2>2, SettledType, JobType
  <2>4. effects' \in [Questions -> Nat] /\ lock' \in Procs \cup {None}
    BY <1>1, <1>8 DEF Mark, TypeInv, TypeOK
  <2> QED
    BY <1>8, <2>3, <2>4 DEF Mark, TypeInv, TypeOK
<1>9. CASE Stamp(p)
  <2>1. store' \in [Questions -> Entry] /\ recorded' \in [Questions -> Resolution]
    BY <1>1, <1>2, <1>9, WriteEntryType DEF Stamp
  <2>2. job' \in [Procs -> Job] /\ Placed'
    BY <1>1, <1>9, SettledType, JobType DEF Stamp
  <2> QED
    BY <1>9, <2>1, <2>2 DEF Stamp, TypeInv, TypeOK
<1> QED
  BY <1>3, <1>4, <1>5, <1>6, <1>7, <1>8, <1>9

LEMMA CollectType ==
  ASSUME TypeInv, NEW p \in Procs,
         \/ \E role \in {"collect", "await"} : StartCollect(p, role)
         \/ TakeNext(p) \/ Watch(p) \/ TimeOut(p) \/ Drain(p) \/ Finish(p)
  PROVE  TypeInv'
<1> USE DEF AskSteps, AnswerSteps, Steps, Roles
<1>1. job[p] \in Job /\ job[p].entry \in Entry
  BY DEF TypeInv, TypeOK, Job
<1>2. ASSUME NEW role \in {"collect", "await"}, StartCollect(p, role) PROVE TypeInv'
  <2> DEFINE j == [Idle EXCEPT !.at = "next", !.role = role,
                               !.todo = {q \in Questions : store[q].there}]
  <2>1. j \in Job /\ j.at = "next"
    BY IdleType DEF Job
  <2>2. Become(p, j)
    BY <1>2 DEF StartCollect
  <2> HIDE DEF j
  <2>3. job' \in [Procs -> Job] /\ Placed'
    BY <2>1, <2>2, JobType
  <2> QED
    BY <1>2, <2>3 DEF StartCollect, TypeInv, TypeOK
<1>3. CASE TakeNext(p)
  <2>1. PICK q \in job[p].todo :
          LET here == [job[p] EXCEPT !.q = q, !.entry = store[q]] IN
          \/ Become(p, [here EXCEPT !.at = "apply"])
          \/ Become(p, [here EXCEPT !.at = "watch"])
          \/ Become(p, [job[p] EXCEPT !.todo = @ \ {q}])
    BY <1>3 DEF TakeNext
  <2> DEFINE here == [job[p] EXCEPT !.q = q, !.entry = store[q]]
             j(at) == [here EXCEPT !.at = at]
             k == [job[p] EXCEPT !.todo = @ \ {q}]
  <2>2. q \in Questions /\ store[q] \in Entry
    BY <1>1 DEF TypeInv, TypeOK, Job
  <2>3. \A at \in {"apply", "watch"} : j(at) \in Job /\ j(at).q = q /\ j(at).at = at
    <3>1. here \in Job /\ here.q = q
      BY <1>1, <2>2 DEF Job
    <3> HIDE DEF here
    <3> QED
      BY <3>1 DEF Job
  <2>4. k \in Job /\ k.at = "next"
    BY <1>1, <1>3 DEF Job, TakeNext
  <2>5. Become(p, j("apply")) \/ Become(p, j("watch")) \/ Become(p, k)
    BY <2>1
  <2> HIDE DEF j, k
  <2>6. job' \in [Procs -> Job] /\ Placed'
    BY <2>2, <2>3, <2>4, <2>5, JobType
  <2> QED
    BY <1>3, <2>6 DEF TakeNext, TypeInv, TypeOK
<1>4. CASE Watch(p)
  <2> DEFINE e == [job[p].entry EXCEPT !.res = Moot]
             j == [job[p] EXCEPT !.at = "resolve", !.entry = e]
             k == [job[p] EXCEPT !.at = "next", !.q = None, !.entry = Missing]
  <2>1. job[p].q \in Questions
    BY <1>4 DEF Watch, TypeInv, TypeOK, Placed
  <2>2. j \in Job /\ j.q = job[p].q /\ j.at = "resolve"
    <3>1. e \in Entry
      BY <1>1 DEF Entry, Moot, Resolution
    <3> HIDE DEF e
    <3> QED
      BY <1>1, <3>1 DEF Job
  <2>3. k \in Job /\ k.at = "next"
    BY <1>1, EntryType DEF Job
  <2>4. [job[p] EXCEPT !.at = "resolve", !.entry.res = Moot] = j
    BY <1>1 DEF Job, Entry
  <2>5. Become(p, Idle) \/ Become(p, j) \/ Become(p, k)
    BY <1>4, <2>4 DEF Watch
  <2> HIDE DEF j, k
  <2>6. job' \in [Procs -> Job] /\ Placed'
    BY <2>1, <2>2, <2>3, <2>5, IdleType, JobType
  <2> QED
    BY <1>4, <2>6 DEF Watch, TypeInv, TypeOK
<1>5. CASE TimeOut(p)
  <2>1. job' \in [Procs -> Job] /\ Placed'
    BY <1>5, SkippedType, JobType DEF TimeOut
  <2> QED
    BY <1>5, <2>1 DEF TimeOut, TypeInv, TypeOK
<1>6. CASE Drain(p)
  <2>1. job' \in [Procs -> Job] /\ Placed'
    BY <1>6, SkippedType, JobType DEF Drain
  <2> QED
    BY <1>6, <2>1, EntryType DEF Drain, TypeInv, TypeOK
<1>7. CASE Finish(p)
  <2>1. job' \in [Procs -> Job] /\ Placed'
    BY <1>7, IdleType, JobType DEF Finish
  <2> QED
    BY <1>7, <2>1 DEF Finish, TypeInv, TypeOK
<1> QED
  BY <1>2, <1>3, <1>4, <1>5, <1>6, <1>7

LEMMA OutsideType ==
  ASSUME TypeInv, NEW p \in Procs,
         \/ \E t \in Ticks, verdict \in Verdict : StartVerdict(p, t, verdict)
         \/ \E q \in Questions : StartDeliver(p, q)
         \/ WriteVerdict(p) \/ Deliver(p) \/ Fail(p)
  PROVE  TypeInv'
<1> USE DEF AskSteps, AnswerSteps, Steps, Roles
<1>1. job[p] \in Job /\ job[p].entry \in Entry /\ job[p].tick \in TickFile
  BY DEF TypeInv, TypeOK, Job
<1>2. ASSUME NEW t \in Ticks, NEW verdict \in Verdict, StartVerdict(p, t, verdict)
      PROVE  TypeInv'
  <2> DEFINE noted == IF verdict = "rejected"
                      THEN AddNote(ticks[t], <<"human", "feedback">>) ELSE ticks[t]
             new == Decide(noted, verdict)
             j == [Idle EXCEPT !.at = "verdict", !.role = "human", !.on = t, !.tick = new]
  <2>1. new \in TickFile
    <3>1. ticks[t] \in TickFile
      BY DEF TypeInv, TypeOK
    <3>2. noted \in TickFile
      BY <3>1, AddNoteType DEF NoteLines
    <3> HIDE DEF noted
    <3> QED
      BY <3>2, DecideType
  <2>2. j \in Job /\ j.at = "verdict" /\ j.on = t
    <3> HIDE DEF new
    <3> QED
      BY <2>1, IdleType DEF Job
  <2>3. Become(p, j)
    BY <1>2 DEF StartVerdict
  <2> HIDE DEF j
  <2>4. job' \in [Procs -> Job] /\ Placed'
    BY <2>2, <2>3, JobType
  <2> QED
    BY <1>2, <2>4 DEF StartVerdict, TypeInv, TypeOK
<1>3. ASSUME NEW q \in Questions, StartDeliver(p, q) PROVE TypeInv'
  <2> DEFINE e == [store[q] EXCEPT !.ref = TRUE]
             j == [Idle EXCEPT !.at = "deliver", !.role = "bridge", !.q = q, !.entry = e]
  <2>1. e \in Entry
    BY DEF TypeInv, TypeOK, Entry
  <2>2. j \in Job /\ j.at = "deliver" /\ j.q = q
    <3> HIDE DEF e
    <3> QED
      BY <2>1, IdleType DEF Job
  <2>3. Become(p, j)
    BY <1>3 DEF StartDeliver
  <2> HIDE DEF j
  <2>4. job' \in [Procs -> Job] /\ Placed'
    BY <2>2, <2>3, JobType
  <2> QED
    BY <1>3, <2>4 DEF StartDeliver, TypeInv, TypeOK
<1>4. CASE WriteVerdict(p)
  <2>1. job[p].on \in Ticks
    BY <1>4 DEF WriteVerdict, TypeInv, TypeOK, Placed
  <2>2. ticks' \in [Ticks -> TickFile] /\ moot' \subseteq Questions
    BY <1>1, <1>4, <2>1, WriteTickType DEF WriteVerdict
  <2>3. job' \in [Procs -> Job] /\ Placed'
    BY <1>4, IdleType, JobType DEF WriteVerdict
  <2> QED
    BY <1>4, <2>2, <2>3 DEF WriteVerdict, TypeInv, TypeOK
<1>5. CASE Deliver(p)
  <2>1. job[p].q \in Questions
    BY <1>5 DEF Deliver, TypeInv, TypeOK, Placed
  <2>2. store' \in [Questions -> Entry] /\ recorded' \in [Questions -> Resolution]
    BY <1>1, <1>5, <2>1, WriteEntryType DEF Deliver
  <2>3. job' \in [Procs -> Job] /\ Placed'
    BY <1>5, IdleType, JobType DEF Deliver
  <2> QED
    BY <1>5, <2>2, <2>3 DEF Deliver, TypeInv, TypeOK
<1>6. CASE Fail(p)
  <2>1. job' \in [Procs -> Job] /\ Placed'
    BY <1>6, IdleType, JobType DEF Fail
  <2>2. faults' \in 0..MaxFaults /\ lock' \in Procs \cup {None}
    BY <1>6, OperatorAssumption DEF Fail, Released, TypeInv, TypeOK
  <2> QED
    BY <1>6, <2>1, <2>2 DEF Fail, TypeInv, TypeOK
<1> QED
  BY <1>2, <1>3, <1>4, <1>5, <1>6

\* The steps of one process, in the groups the lemmas speak of.
Acts(p) ==
  \/ Park(p) \/ Save(p) \/ \E q \in Questions : StartAsk(p, q)
  \/ Resolve(p) \/ Record(p) \/ \E q \in Questions, a \in Answers : StartAnswer(p, q, a)
  \/ Apply(p) \/ Check(p) \/ Read(p) \/ Siblings(p) \/ Write(p) \/ Mark(p) \/ Stamp(p)
  \/ \E role \in {"collect", "await"} : StartCollect(p, role)
  \/ TakeNext(p) \/ Watch(p) \/ TimeOut(p) \/ Drain(p) \/ Finish(p)
  \/ \E t \in Ticks, verdict \in Verdict : StartVerdict(p, t, verdict)
  \/ \E q \in Questions : StartDeliver(p, q)
  \/ WriteVerdict(p) \/ Deliver(p) \/ Fail(p)

LEMMA NextCases == Next => \E p \in Procs : Acts(p)
  BY DEF Acts, Next, Step, StartStep, Verdict

LEMMA NextType == TypeInv /\ [Next]_vars => TypeInv'
<1> SUFFICES ASSUME TypeInv, [Next]_vars PROVE TypeInv'
  OBVIOUS
<1>1. CASE UNCHANGED vars
  BY <1>1 DEF vars, TypeInv, TypeOK, Placed
<1>2. CASE Next
  BY <1>2, NextCases, AskType, AnswerType, ApplyType, CollectType, OutsideType DEF Acts
<1> QED
  BY <1>1, <1>2

\* The type invariant of the run, for every instance.
THEOREM TypeCorrect == Spec => []TypeOK
<1>1. TypeInv => TypeOK
  BY DEF TypeInv
<1> QED
  BY InitType, NextType, <1>1, PTL DEF Spec

-----------------------------------------------------------------------------
(***************************************************************************)
(* Who is where.  A question is saved once, by the one asker that took its *)
(* id; every other process works on a question that has been saved; and    *)
(* whoever works under the lock holds it.                                  *)
(***************************************************************************)
Holding == {"record", "check", "read", "siblings", "write", "mark", "stamp"}

Fresh ==
  /\ \A p \in Procs : job[p].at \in AskSteps =>
       job[p].role = "ask" /\ ~WasSaved(job[p].q)
  /\ \A p, r \in Procs :
       p # r /\ job[p].at \in AskSteps /\ job[r].at \in AskSteps => job[p].q # job[r].q

Known ==
  /\ \A q \in Questions :
       store[q].there \/ recorded[q] # Open \/ effects[q] # 0 => WasSaved(q)
  /\ \A p \in Procs : job[p].at \in AnswerSteps => WasSaved(job[p].q)

LockHeld == \A p \in Procs : job[p].at \in Holding => lock = p

BaseInv == TypeInv /\ Fresh /\ Known /\ LockHeld

\* What a step of one process must satisfy to keep BaseInv, if it saves nothing.
LEMMA BaseStep ==
  ASSUME BaseInv, TypeInv', created' = created, NEW p \in Procs,
         \A r \in Procs \ {p} : job'[r] = job[r],
         job'[p].at \in AskSteps =>
           /\ job[p].at \in AskSteps
           /\ job'[p].q = job[p].q
           /\ job'[p].role = job[p].role,
         job'[p].at \in AnswerSteps => WasSaved(job'[p].q),
         \A q \in Questions :
           \/ store'[q] = store[q] /\ recorded'[q] = recorded[q] /\ effects'[q] = effects[q]
           \/ WasSaved(q)
           \/ store'[q] = Missing /\ recorded'[q] = recorded[q] /\ effects'[q] = effects[q],
         \/ lock' = lock
         \/ lock = None /\ lock' = p
         \/ lock = p /\ lock' = None,
         job'[p].at \in Holding => lock' = p
  PROVE  BaseInv'
<1>1. \A q : WasSaved(q)' <=> WasSaved(q)
  BY DEF WasSaved
<1>2. Fresh'
  BY <1>1 DEF BaseInv, Fresh
<1>3. Known'
  BY <1>1 DEF BaseInv, Known, Missing
<1>4. LockHeld'
  BY OperatorAssumption DEF BaseInv, LockHeld
<1> QED
  BY <1>2, <1>3, <1>4 DEF BaseInv

LEMMA BecomeIs ==
  ASSUME TypeInv, NEW p \in Procs, NEW j, Become(p, j)
  PROVE  /\ job'[p] = j
         /\ \A r \in Procs \ {p} : job'[r] = job[r]
         /\ p \in Procs
  BY DEF TypeInv, TypeOK, Become

LEMMA GotoIs ==
  ASSUME TypeInv, NEW p \in Procs, NEW at, Goto(p, at)
  PROVE  /\ job'[p].at = at /\ job'[p].q = job[p].q /\ job'[p].role = job[p].role
         /\ job'[p].entry = job[p].entry /\ job'[p].tick = job[p].tick
         /\ \A r \in Procs \ {p} : job'[r] = job[r]
<1>1. job[p] \in Job
  BY DEF TypeInv, TypeOK
<1> QED
  BY <1>1 DEF TypeInv, TypeOK, Goto, Become, Job

-----------------------------------------------------------------------------
(***************************************************************************)
(* What the larger actions make of the job of their process, and of the    *)
(* lock; Moved is the part they share.                                     *)
(***************************************************************************)
Moved(p) == job'[p].q = job[p].q /\ job'[p].role = job[p].role

LEMMA SettledShape ==
  ASSUME TypeInv, NEW p \in Procs, Become(p, Settled(p))
  PROVE  /\ \A r \in Procs \ {p} : job'[r] = job[r]
         /\ \/ job'[p].at = "idle"
            \/ job'[p].at = "drain" /\ Moved(p) /\ job'[p].entry = job[p].entry
  BY IdleType DEF TypeInv, TypeOK, Become, Settled, Job, Moved

LEMMA ResolveShape ==
  ASSUME TypeInv, NEW p \in Procs, Resolve(p)
  PROVE  /\ \A r \in Procs \ {p} : job'[r] = job[r]
         /\ \/ job'[p].at \in {"idle", "next"} /\ lock' = lock
            \/ /\ job'[p].at = "apply" /\ Moved(p) /\ lock' = lock
               /\ IsSettled(store[job[p].q]) /\ job'[p].entry = store[job[p].q]
            \/ /\ job'[p].at = "record" /\ Moved(p) /\ lock = None /\ lock' = p
               /\ IsOpen(store[job[p].q])
               /\ job'[p].entry = [store[job[p].q] EXCEPT !.res = job[p].entry.res]
<1> DEFINE e == store[job[p].q]
           f == [e EXCEPT !.res = job[p].entry.res]
           taken == [job[p] EXCEPT !.at = "apply", !.entry = e]
           held == [job[p] EXCEPT !.at = "record", !.entry = f]
           same(j) == j.q = job[p].q /\ j.role = job[p].role
<1>1. job[p] \in Job
  BY DEF TypeInv, TypeOK
<1>2. taken.at = "apply" /\ taken.entry = e /\ same(taken)
  BY <1>1 DEF Job
<1>3. held.at = "record" /\ held.entry = f /\ same(held)
  BY <1>1 DEF Job
<1>4. \/ (Become(p, Skipped(p)) \/ Become(p, Idle)) /\ lock' = lock
      \/ Become(p, taken) /\ lock' = lock /\ IsSettled(e)
      \/ Become(p, held) /\ lock = None /\ lock' = p /\ IsOpen(e)
  BY DEF Resolve, Acquire
<1> HIDE DEF taken, held
<1> QED
  BY <1>2, <1>3, <1>4, SkippedType, IdleType, BecomeIs DEF Moved

LEMMA ApplyShape ==
  ASSUME TypeInv, NEW p \in Procs, Apply(p)
  PROVE  LET q == job[p].q
             e == IF IsSettled(store[q]) THEN store[q] ELSE job[p].entry
         IN
         /\ \A r \in Procs \ {p} : job'[r] = job[r]
         /\ \/ job'[p].at = "idle" /\ lock' = lock
            \/ /\ job'[p].at = "drain" /\ Moved(p) /\ lock' = lock
               /\ job'[p].entry = job[p].entry
            \/ /\ job'[p].at = IF Kind[q] = "agent_relay" THEN "mark" ELSE "check"
               /\ Moved(p) /\ job'[p].entry = e /\ lock = None /\ lock' = p
               /\ job[p].entry.res.status = "answered" \/ Kind[q] = "agent_relay"
<1> DEFINE q == job[p].q
           e == IF IsSettled(store[q]) THEN store[q] ELSE job[p].entry
           at == IF Kind[q] = "agent_relay" THEN "mark" ELSE "check"
           j == [job[p] EXCEPT !.at = at, !.entry = e]
<1>1. job[p] \in Job
  BY DEF TypeInv, TypeOK
<1>2. j.at = at /\ j.entry = e /\ j.q = q /\ j.role = job[p].role
  BY <1>1 DEF Job
<1>3. \/ Become(p, Settled(p)) /\ lock' = lock
      \/ /\ Become(p, j) /\ lock = None /\ lock' = p
         /\ job[p].entry.res.status = "answered" \/ Kind[q] = "agent_relay"
  BY DEF Apply, Acquire
<1> HIDE DEF j
<1> QED
  BY <1>2, <1>3, SettledShape, BecomeIs DEF Moved

LEMMA ReadShape ==
  ASSUME TypeInv, NEW p \in Procs, Read(p)
  PROVE  /\ \A r \in Procs \ {p} : job'[r] = job[r]
         /\ \/ job'[p].at = "idle" /\ lock' = None
            \/ /\ job'[p].at = IF Kind[job[p].q] = "gate" THEN "write" ELSE "siblings"
               /\ Moved(p) /\ job'[p].entry = job[p].entry /\ lock' = lock
               /\ job'[p].tick =
                    WithAnswer(job[p].q, ticks[TickOf[job[p].q]], job[p].entry.res.answer)
<1> DEFINE q == job[p].q
           at == IF Kind[q] = "gate" THEN "write" ELSE "siblings"
           t == WithAnswer(q, ticks[TickOf[q]], job[p].entry.res.answer)
           j == [job[p] EXCEPT !.at = at, !.tick = t]
<1>1. job[p] \in Job
  BY DEF TypeInv, TypeOK
<1>2. /\ j.at = at /\ j.tick = t
      /\ j.entry = job[p].entry /\ j.q = q /\ j.role = job[p].role
  <2> HIDE DEF at, t
  <2> QED
    BY <1>1 DEF Job
<1>3. \/ Become(p, Idle) /\ lock' = None
      \/ Become(p, j) /\ lock' = lock
  BY DEF Read
<1> HIDE DEF j
<1> QED
  BY <1>2, <1>3, IdleType, BecomeIs DEF Moved

LEMMA SiblingsShape ==
  ASSUME TypeInv, NEW p \in Procs, Siblings(p)
  PROVE  /\ \A r \in Procs \ {p} : job'[r] = job[r]
         /\ job'[p].at = "write" /\ Moved(p) /\ job'[p].entry = job[p].entry
         /\ job'[p].tick = IF OtherOpen(job[p].q) THEN job[p].tick
                                                  ELSE ClearAwaiting(job[p].tick)
<1> DEFINE t == IF OtherOpen(job[p].q) THEN job[p].tick ELSE ClearAwaiting(job[p].tick)
           j == [job[p] EXCEPT !.at = "write", !.tick = t]
<1>1. job[p] \in Job
  BY DEF TypeInv, TypeOK
<1>2. /\ j.at = "write" /\ j.tick = t
      /\ j.entry = job[p].entry /\ j.q = job[p].q /\ j.role = job[p].role
  <2> HIDE DEF t
  <2> QED
    BY <1>1 DEF Job
<1>3. Become(p, j)
  BY DEF Siblings
<1> HIDE DEF j
<1> QED
  BY <1>2, <1>3, BecomeIs DEF Moved

LEMMA MarkShape ==
  ASSUME TypeInv, NEW p \in Procs, Mark(p)
  PROVE  /\ \A r \in Procs \ {p} : job'[r] = job[r]
         /\ \/ job'[p].at = "idle" /\ lock' = None
            \/ job'[p].at = "drain" /\ Moved(p) /\ lock' = None
            \/ /\ job'[p].at = "stamp" /\ Moved(p) /\ lock' = lock
               /\ IsSettled(store[job[p].q])
               /\ job'[p].entry = [store[job[p].q] EXCEPT !.applied = TRUE]
<1> DEFINE e == [store[job[p].q] EXCEPT !.applied = TRUE]
           j == [job[p] EXCEPT !.at = "stamp", !.entry = e]
<1>1. job[p] \in Job
  BY DEF TypeInv, TypeOK
<1>2. j.at = "stamp" /\ j.entry = e /\ j.q = job[p].q /\ j.role = job[p].role
  BY <1>1 DEF Job
<1>3. \/ Become(p, j) /\ lock' = lock /\ IsSettled(store[job[p].q])
      \/ Become(p, Settled(p)) /\ lock' = None
  BY DEF Mark
<1> HIDE DEF j
<1> QED
  BY <1>2, <1>3, SettledShape, BecomeIs DEF Moved

LEMMA TakeNextShape ==
  ASSUME TypeInv, NEW p \in Procs, TakeNext(p)
  PROVE  /\ \A r \in Procs \ {p} : job'[r] = job[r]
         /\ \/ job'[p].at = "next"
            \/ /\ job'[p].at = "apply" /\ job'[p].q \in Questions
               /\ job'[p].entry = store[job'[p].q] /\ IsSettled(store[job'[p].q])
            \/ /\ job'[p].at = "watch" /\ job'[p].q \in Questions
               /\ job'[p].entry = store[job'[p].q] /\ IsOpen(store[job'[p].q])
<1>1. job[p] \in Job /\ job[p].at = "next"
  BY DEF TypeInv, TypeOK, TakeNext
<1>2. PICK q \in job[p].todo :
        LET here == [job[p] EXCEPT !.q = q, !.entry = store[q]] IN
        \/ Become(p, [here EXCEPT !.at = "apply"]) /\ IsSettled(store[q])
        \/ Become(p, [here EXCEPT !.at = "watch"]) /\ IsOpen(store[q])
        \/ Become(p, [job[p] EXCEPT !.todo = @ \ {q}])
  BY DEF TakeNext
<1> DEFINE here == [job[p] EXCEPT !.q = q, !.entry = store[q]]
           j(at) == [here EXCEPT !.at = at]
           k == [job[p] EXCEPT !.todo = @ \ {q}]
<1>3. \A at \in {"apply", "watch"} : j(at).at = at /\ j(at).q = q /\ j(at).entry = store[q]
  BY <1>1 DEF Job
<1>4. k.at = "next" /\ q \in Questions
  BY <1>1 DEF Job
<1>5. \/ Become(p, j("apply")) /\ IsSettled(store[q])
      \/ Become(p, j("watch")) /\ IsOpen(store[q])
      \/ Become(p, k)
  BY <1>2
<1> HIDE DEF j, k
<1> QED
  BY <1>3, <1>4, <1>5, BecomeIs

LEMMA WatchShape ==
  ASSUME TypeInv, NEW p \in Procs, Watch(p)
  PROVE  /\ \A r \in Procs \ {p} : job'[r] = job[r]
         /\ \/ job'[p].at \in {"idle", "next"}
            \/ /\ job'[p].at = "resolve" /\ Moved(p) /\ job'[p].entry.res = Moot
               /\ job'[p].entry.applied = job[p].entry.applied
<1> DEFINE j == [job[p] EXCEPT !.at = "resolve", !.entry.res = Moot]
           k == [job[p] EXCEPT !.at = "next", !.q = None, !.entry = Missing]
<1>1. job[p] \in Job /\ job[p].entry \in Entry
  BY DEF TypeInv, TypeOK, Job
<1>2. /\ j.at = "resolve" /\ j.q = job[p].q /\ j.role = job[p].role
      /\ j.entry.res = Moot /\ j.entry.applied = job[p].entry.applied
  BY <1>1 DEF Job, Entry
<1>3. k.at = "next"
  BY <1>1 DEF Job
<1>4. Become(p, Idle) \/ Become(p, j) \/ Become(p, k)
  BY DEF Watch
<1> HIDE DEF j, k
<1> QED
  BY <1>2, <1>3, <1>4, IdleType, BecomeIs DEF Moved

LEMMA StartShape ==
  ASSUME TypeInv, NEW p \in Procs
  PROVE  /\ \A q \in Questions : StartAsk(p, q) =>
              /\ job'[p].at \in AskSteps /\ job'[p].role = "ask" /\ job'[p].q = q
              /\ job'[p].tick = SetAwaiting(ticks[TickOf[q]], AwaitingOf(q))
         /\ \A q \in Questions, a \in Answers : StartAnswer(p, q, a) =>
              /\ job'[p].at = "resolve" /\ job'[p].q = q
              /\ job'[p].entry = [Missing EXCEPT !.res = Answer(a)]
         /\ \A role \in {"collect", "await"} : StartCollect(p, role) => job'[p].at = "next"
         /\ \A t \in Ticks, v \in Verdict : StartVerdict(p, t, v) =>
              /\ job'[p].at = "verdict" /\ job'[p].on = t
              /\ job'[p].tick = Decide(IF v = "rejected"
                                       THEN AddNote(ticks[t], <<"human", "feedback">>)
                                       ELSE ticks[t], v)
         /\ \A q \in Questions : StartDeliver(p, q) =>
              /\ job'[p].at = "deliver" /\ job'[p].q = q
              /\ job'[p].entry = [store[q] EXCEPT !.ref = TRUE]
         /\ StartStep(p) => \A r \in Procs \ {p} : job'[r] = job[r]
<1> USE DEF TypeInv, TypeOK, Become, Idle
<1>1. ASSUME NEW q \in Questions, StartAsk(p, q)
      PROVE  /\ job'[p].at \in AskSteps /\ job'[p].role = "ask" /\ job'[p].q = q
             /\ job'[p].tick = SetAwaiting(ticks[TickOf[q]], AwaitingOf(q))
             /\ \A r \in Procs \ {p} : job'[r] = job[r]
  BY <1>1 DEF StartAsk, AskSteps
<1>2. ASSUME NEW q \in Questions, NEW a \in Answers, StartAnswer(p, q, a)
      PROVE  /\ job'[p].at = "resolve" /\ job'[p].q = q
             /\ job'[p].entry = [Missing EXCEPT !.res = Answer(a)]
             /\ \A r \in Procs \ {p} : job'[r] = job[r]
  BY <1>2 DEF StartAnswer
<1>3. ASSUME NEW role \in {"collect", "await"}, StartCollect(p, role)
      PROVE  job'[p].at = "next" /\ \A r \in Procs \ {p} : job'[r] = job[r]
  BY <1>3 DEF StartCollect
<1>4. ASSUME NEW t \in Ticks, NEW v \in Verdict, StartVerdict(p, t, v)
      PROVE  /\ job'[p].at = "verdict" /\ job'[p].on = t
             /\ job'[p].tick = Decide(IF v = "rejected"
                                      THEN AddNote(ticks[t], <<"human", "feedback">>)
                                      ELSE ticks[t], v)
             /\ \A r \in Procs \ {p} : job'[r] = job[r]
  BY <1>4 DEF StartVerdict
<1>5. ASSUME NEW q \in Questions, StartDeliver(p, q)
      PROVE  /\ job'[p].at = "deliver" /\ job'[p].q = q
             /\ job'[p].entry = [store[q] EXCEPT !.ref = TRUE]
             /\ \A r \in Procs \ {p} : job'[r] = job[r]
  BY <1>5 DEF StartDeliver
<1> QED
  BY <1>1, <1>2, <1>3, <1>4, <1>5 DEF StartStep, Verdict

-----------------------------------------------------------------------------
\* BaseInv is kept by every step.
LEMMA BaseInit == Init => BaseInv
  BY InitType, IdleType
     DEF Init, BaseInv, Fresh, Known, LockHeld, AskSteps, AnswerSteps, Holding, Missing

LEMMA BaseAsk ==
  ASSUME BaseInv, TypeInv', NEW p \in Procs,
         Park(p) \/ Save(p) \/ \E q \in Questions : StartAsk(p, q)
  PROVE  BaseInv'
<1> USE DEF AskSteps, AnswerSteps, Holding
<1>1. ASSUME NEW q \in Questions, StartAsk(p, q) PROVE BaseInv'
  <2>1. /\ job'[p].at \in AskSteps /\ job'[p].role = "ask" /\ job'[p].q = q
        /\ \A r \in Procs \ {p} : job'[r] = job[r]
    BY <1>1, StartShape DEF BaseInv, StartStep
  <2>2. ~WasSaved(q) /\ \A r \in Procs : job[r].at \in AskSteps => job[r].q # q
    BY <1>1 DEF StartAsk, WasSaved, BaseInv, Fresh
  <2>3. UNCHANGED <<store, created, lock, recorded, effects>>
    BY <1>1 DEF StartAsk
  <2>4. Fresh'
    BY <2>1, <2>2, <2>3 DEF Fresh, BaseInv, WasSaved
  <2>5. Known' /\ LockHeld'
    BY <2>1, <2>3 DEF Known, LockHeld, BaseInv, WasSaved
  <2> QED
    BY <2>4, <2>5 DEF BaseInv
<1>2. CASE Park(p)
  <2>1. job'[p].at = "save" /\ Moved(p) /\ \A r \in Procs \ {p} : job'[r] = job[r]
    BY <1>2, GotoIs DEF Park, BaseInv, Moved
  <2> QED
    BY <1>2, <2>1, BaseStep DEF Park, Moved
<1>3. CASE Save(p)
  <2> DEFINE s == job[p].q
  <2>1. job'[p].at = "idle" /\ \A r \in Procs \ {p} : job'[r] = job[r]
    BY <1>3, BecomeIs, IdleType DEF Save, BaseInv
  <2>2. \A x : WasSaved(x)' <=> (WasSaved(x) \/ x = s)
    <3>1. created \in Seq(Questions) /\ created' = Append(created, s) /\ s \in Questions
      BY <1>3 DEF Save, BaseInv, TypeInv, TypeOK, Placed
    <3>2. /\ DOMAIN created' = 1..Len(created) + 1 /\ DOMAIN created = 1..Len(created)
          /\ Len(created) \in Nat
          /\ created'[Len(created) + 1] = s
          /\ \A i \in 1..Len(created) : created'[i] = created[i]
      BY <3>1
    <3>3. 1..Len(created) + 1 = 1..Len(created) \cup {Len(created) + 1}
      BY <3>2
    <3> QED
      BY <3>2, <3>3 DEF WasSaved
  <2>3. job[p].at \in AskSteps
    BY <1>3 DEF Save
  <2>4. Fresh'
    BY <2>1, <2>2, <2>3 DEF BaseInv, Fresh
  <2>5. Known'
    <3>1. \A x \in Questions \ {s} : store'[x] = store[x] /\ recorded'[x] = recorded[x]
      BY <1>3 DEF Save, WriteEntry, BaseInv, TypeInv, TypeOK
    <3>2. effects' = effects
      BY <1>3 DEF Save
    <3> QED
      BY <2>1, <2>2, <3>1, <3>2 DEF BaseInv, Known
  <2>6. LockHeld'
    BY <1>3, <2>1 DEF BaseInv, LockHeld, Save
  <2> QED
    BY <2>4, <2>5, <2>6 DEF BaseInv
<1> QED
  BY <1>1, <1>2, <1>3

LEMMA BaseAnswer ==
  ASSUME BaseInv, TypeInv', NEW p \in Procs,
         \/ Resolve(p) \/ Record(p)
         \/ \E q \in Questions, a \in Answers : StartAnswer(p, q, a)
  PROVE  BaseInv'
<1> USE DEF AskSteps, AnswerSteps, Holding, Moved
<1>1. ASSUME NEW q \in Questions, NEW a \in Answers, StartAnswer(p, q, a) PROVE BaseInv'
  <2>1. /\ job'[p].at = "resolve" /\ job'[p].q = q
        /\ \A r \in Procs \ {p} : job'[r] = job[r]
    BY <1>1, StartShape DEF BaseInv, StartStep
  <2>2. WasSaved(q)
    BY <1>1 DEF StartAnswer, IsOldest, IsOpen, BaseInv, Known
  <2> QED
    BY <1>1, <2>1, <2>2, BaseStep DEF StartAnswer
<1>2. CASE Resolve(p)
  <2>1. WasSaved(job[p].q)
    BY <1>2 DEF Resolve, BaseInv, Known
  <2>2. UNCHANGED <<store, created, recorded, effects>>
    BY <1>2 DEF Resolve
  <2> QED
    BY <1>2, <2>1, <2>2, ResolveShape, BaseStep DEF BaseInv
<1>3. CASE Record(p)
  <2>1. /\ \A r \in Procs \ {p} : job'[r] = job[r]
        /\ job'[p].at \in {"drain", "apply"} /\ job'[p].q = job[p].q
    BY <1>3, GotoIs DEF Record, BaseInv
  <2>2. lock = p /\ lock' = None /\ WasSaved(job[p].q)
    BY <1>3 DEF Record, BaseInv, Known, LockHeld
  <2>3. \A x \in Questions \ {job[p].q} : store'[x] = store[x] /\ recorded'[x] = recorded[x]
    BY <1>3 DEF Record, WriteEntry, BaseInv, TypeInv, TypeOK
  <2> QED
    BY <1>3, <2>1, <2>2, <2>3, BaseStep DEF Record
<1> QED
  BY <1>1, <1>2, <1>3

LEMMA BaseApply ==
  ASSUME BaseInv, TypeInv', NEW p \in Procs,
         \/ Apply(p) \/ Check(p) \/ Read(p) \/ Siblings(p)
         \/ Write(p) \/ Mark(p) \/ Stamp(p)
  PROVE  BaseInv'
<1> DEFINE q == job[p].q
<1> USE DEF AskSteps, AnswerSteps, Holding, Moved
<1>1. q \in Questions /\ WasSaved(q)
  BY DEF Apply, Check, Read, Siblings, Write, Mark, Stamp, BaseInv, TypeInv, Placed, Known
<1>2. \A x \in Questions \ {q} :
        store'[x] = store[x] /\ recorded'[x] = recorded[x] /\ effects'[x] = effects[x]
  BY DEF Apply, Check, Read, Siblings, Write, Mark, Stamp, WriteEntry, BaseInv, TypeInv, TypeOK
<1>3. created' = created
  BY DEF Apply, Check, Read, Siblings, Write, Mark, Stamp
<1>4. CASE Apply(p)
  BY <1>1, <1>2, <1>3, <1>4, ApplyShape, BaseStep DEF BaseInv
<1>5. CASE ~Apply(p)
  <2>1. lock = p
    BY <1>5 DEF Check, Read, Siblings, Write, Mark, Stamp, BaseInv, LockHeld
  <2>2. /\ \A r \in Procs \ {p} : job'[r] = job[r]
        /\ \/ job'[p].at = "idle" /\ lock' = None
           \/ job'[p].at = "drain" /\ job'[p].q = q /\ lock' = None
           \/ job'[p].at \in Holding /\ job'[p].q = q /\ lock' = lock
    <3>1. CASE Check(p) \/ Write(p) \/ Stamp(p)
      BY <3>1, SettledShape, GotoIs DEF Check, Write, Stamp, BaseInv
    <3>2. CASE Read(p)
      BY <3>2, ReadShape DEF BaseInv
    <3>3. CASE Siblings(p)
      BY <3>3, SiblingsShape DEF BaseInv, Siblings
    <3>4. CASE Mark(p)
      BY <3>4, MarkShape DEF BaseInv
    <3> QED
      BY <1>5, <3>1, <3>2, <3>3, <3>4
  <2> QED
    BY <1>1, <1>2, <1>3, <2>1, <2>2, BaseStep
<1> QED
  BY <1>4, <1>5

LEMMA BaseRest ==
  ASSUME BaseInv, TypeInv', NEW p \in Procs,
         \/ \E role \in {"collect", "await"} : StartCollect(p, role)
         \/ TakeNext(p) \/ Watch(p) \/ TimeOut(p) \/ Drain(p) \/ Finish(p)
         \/ \E t \in Ticks, verdict \in Verdict : StartVerdict(p, t, verdict)
         \/ \E q \in Questions : StartDeliver(p, q)
         \/ WriteVerdict(p) \/ Deliver(p) \/ Fail(p)
  PROVE  BaseInv'
<1> USE DEF AskSteps, AnswerSteps, Holding, Moved
<1>1. CASE \/ \E role \in {"collect", "await"} : StartCollect(p, role)
           \/ \E t \in Ticks, verdict \in Verdict : StartVerdict(p, t, verdict)
  <2>1. job'[p].at \in {"next", "verdict"} /\ \A r \in Procs \ {p} : job'[r] = job[r]
    BY <1>1, StartShape DEF BaseInv, StartStep, Verdict
  <2>2. UNCHANGED <<store, created, lock, recorded, effects>>
    BY <1>1 DEF StartCollect, StartVerdict
  <2> QED
    BY <2>1, <2>2, BaseStep
<1>2. ASSUME NEW q \in Questions, StartDeliver(p, q) PROVE BaseInv'
  <2>1. /\ job'[p].at = "deliver" /\ job'[p].q = q
        /\ \A r \in Procs \ {p} : job'[r] = job[r]
    BY <1>2, StartShape DEF BaseInv, StartStep
  <2>2. WasSaved(q)
    BY <1>2 DEF StartDeliver, IsOpen, BaseInv, Known
  <2> QED
    BY <1>2, <2>1, <2>2, BaseStep DEF StartDeliver
<1>3. CASE TakeNext(p)
  <2>1. \A q \in Questions : IsSettled(store[q]) \/ IsOpen(store[q]) => WasSaved(q)
    BY DEF IsSettled, IsOpen, BaseInv, Known
  <2> QED
    BY <1>3, <2>1, TakeNextShape, BaseStep DEF BaseInv, TakeNext
<1>4. CASE Watch(p)
  <2>1. WasSaved(job[p].q)
    BY <1>4 DEF Watch, BaseInv, Known
  <2> QED
    BY <1>4, <2>1, WatchShape, BaseStep DEF BaseInv, Watch
<1>5. CASE TimeOut(p) \/ Finish(p) \/ WriteVerdict(p)
  <2>1. job'[p].at \in {"idle", "next"} /\ \A r \in Procs \ {p} : job'[r] = job[r]
    BY <1>5, BecomeIs, SkippedType, IdleType DEF TimeOut, Finish, WriteVerdict, BaseInv
  <2> QED
    BY <1>5, <2>1, BaseStep DEF TimeOut, Finish, WriteVerdict
<1>6. CASE Drain(p)
  <2>1. job'[p].at = "next" /\ \A r \in Procs \ {p} : job'[r] = job[r]
    BY <1>6, BecomeIs, SkippedType DEF Drain, BaseInv
  <2>2. \A x \in Questions : store'[x] = store[x] \/ store'[x] = Missing
    BY <1>6 DEF Drain, BaseInv, TypeInv, TypeOK
  <2> QED
    BY <1>6, <2>1, <2>2, BaseStep DEF Drain
<1>7. CASE Deliver(p)
  <2>1. job'[p].at = "idle" /\ \A r \in Procs \ {p} : job'[r] = job[r]
    BY <1>7, BecomeIs, IdleType DEF Deliver, BaseInv
  <2>2. WasSaved(job[p].q)
    BY <1>7 DEF Deliver, BaseInv, Known
  <2>3. \A x \in Questions \ {job[p].q} : store'[x] = store[x] /\ recorded'[x] = recorded[x]
    BY <1>7 DEF Deliver, WriteEntry, BaseInv, TypeInv, TypeOK
  <2> QED
    BY <1>7, <2>1, <2>2, <2>3, BaseStep DEF Deliver
<1>8. CASE Fail(p)
  <2>1. job'[p].at = "idle" /\ \A r \in Procs \ {p} : job'[r] = job[r]
    BY <1>8, BecomeIs, IdleType DEF Fail, BaseInv
  <2> QED
    BY <1>8, <2>1, BaseStep DEF Fail, Released
<1> QED
  BY <1>1, <1>2, <1>3, <1>4, <1>5, <1>6, <1>7, <1>8

LEMMA BaseNext == BaseInv /\ [Next]_vars => BaseInv'
<1> SUFFICES ASSUME BaseInv, [Next]_vars PROVE BaseInv'
  OBVIOUS
<1>1. TypeInv'
  BY NextType DEF BaseInv
<1>2. CASE UNCHANGED vars
  BY <1>1, <1>2 DEF vars, BaseInv, Fresh, Known, LockHeld, WasSaved
<1>3. CASE Next
  BY <1>1, <1>3, NextCases, BaseAsk, BaseAnswer, BaseApply, BaseRest DEF Acts
<1> QED
  BY <1>2, <1>3

-----------------------------------------------------------------------------
(***************************************************************************)
(* The first resolution wins.  It does not where a channel bridge writes   *)
(* entries back without the lock, so there is none.                        *)
(* Under the lock a resolver knows that nothing is recorded yet, and from  *)
(* then on every copy of the entry carries what was recorded.              *)
(***************************************************************************)
NoBridges == Bridges = {}

ResolutionAt(p) ==
  LET at == job[p].at  res == job[p].entry.res  known == recorded[job[p].q] IN
  /\ at # "deliver"
  /\ at \in {"resolve", "record"} => res # Open
  /\ at = "record" => known = Open
  /\ at \in {"apply", "check", "read", "siblings", "write", "mark", "stamp", "drain"}
       => known # Open
  /\ at \in {"apply", "check", "read", "siblings", "write", "stamp"} => res = known
  /\ at \in {"check", "read", "siblings", "write"} => res.status = "answered"
  /\ at \in {"record", "stamp"} => job[p].entry.there

RecordedInv ==
  /\ BaseInv
  /\ \A q \in Questions : store[q].there => store[q].res = recorded[q]
  /\ \A p \in Procs : ResolutionAt(p)

\* recorded changes only for the process that holds the lock, and only once.
FirstOnly(p) ==
  \A q \in Questions : recorded'[q] = recorded[q] \/ (recorded[q] = Open /\ lock = p)

LEMMA OpenSettled ==
  ASSUME TypeInv, NEW q \in Questions
  PROVE  /\ IsSettled(store[q]) => store[q].there /\ store[q].res # Open
         /\ IsOpen(store[q]) => store[q].there /\ store[q].res = Open
<1>1. store[q].res \in Resolution
  BY DEF TypeInv, TypeOK, Entry
<1> QED
  BY <1>1 DEF IsSettled, IsOpen, Open, Resolution

LEMMA RecordedStep ==
  ASSUME RecordedInv, BaseInv', NEW p \in Procs, FirstOnly(p),
         \A r \in Procs \ {p} : job'[r] = job[r],
         \A q \in Questions : store'[q].there => store'[q].res = recorded'[q],
         ResolutionAt(p)'
  PROVE  RecordedInv'
<1> SUFFICES ASSUME NEW r \in Procs \ {p} PROVE ResolutionAt(r)'
  BY DEF RecordedInv
<1>1. job'[r] = job[r] /\ ResolutionAt(r)
  BY DEF RecordedInv
<1>2. job[r].at \in AnswerSteps => job[r].q \in Questions
  BY DEF RecordedInv, BaseInv, TypeInv, Placed
<1>3. job[r].at = "record" => lock # p
  BY DEF RecordedInv, BaseInv, LockHeld, Holding
<1> QED
  BY <1>1, <1>2, <1>3 DEF ResolutionAt, FirstOnly, AnswerSteps

\* A step that leaves entries alone, and its process at no step that needs one.
LEMMA RecordedElsewhere ==
  ASSUME RecordedInv, BaseInv', NEW p \in Procs, UNCHANGED <<store, recorded>>,
         \A r \in Procs \ {p} : job'[r] = job[r],
         job'[p].at \in AskSteps \cup {"idle", "next", "watch", "verdict"}
  PROVE  RecordedInv'
<1>1. FirstOnly(p) /\ ResolutionAt(p)'
  BY DEF FirstOnly, ResolutionAt, AskSteps
<1> QED
  BY <1>1, RecordedStep DEF RecordedInv

LEMMA RecordedAsk ==
  ASSUME RecordedInv, BaseInv', NEW p \in Procs,
         Park(p) \/ Save(p) \/ \E q \in Questions : StartAsk(p, q)
  PROVE  RecordedInv' /\ FirstOnly(p)
<1>1. CASE Park(p) \/ \E q \in Questions : StartAsk(p, q)
  <2>1. job'[p].at \in AskSteps /\ \A r \in Procs \ {p} : job'[r] = job[r]
    BY <1>1, StartShape, GotoIs DEF RecordedInv, BaseInv, StartStep, Park, AskSteps
  <2>2. UNCHANGED <<store, recorded>>
    BY <1>1 DEF Park, StartAsk
  <2> QED
    BY <2>1, <2>2, RecordedElsewhere DEF FirstOnly
<1>2. CASE Save(p)
  <2> DEFINE s == job[p].q
  <2>1. job'[p].at = "idle" /\ \A r \in Procs \ {p} : job'[r] = job[r]
    BY <1>2, BecomeIs, IdleType DEF Save, RecordedInv, BaseInv
  <2>2. recorded[s] = Open /\ s \in Questions
    BY <1>2 DEF Save, RecordedInv, BaseInv, Fresh, Known, AskSteps, TypeInv, Placed
  <2>3. recorded' = recorded
    BY <1>2, <2>2 DEF Save, WriteEntry, Asked, Missing, RecordedInv, BaseInv, TypeInv, TypeOK
  <2>4. \A q \in Questions : store'[q].there => store'[q].res = recorded'[q]
    BY <1>2, <2>2, <2>3
       DEF Save, WriteEntry, Asked, Missing, RecordedInv, BaseInv, TypeInv, TypeOK
  <2>5. FirstOnly(p) /\ ResolutionAt(p)'
    BY <2>1, <2>3 DEF FirstOnly, ResolutionAt
  <2> QED
    BY <2>1, <2>4, <2>5, RecordedStep
<1> QED
  BY <1>1, <1>2

LEMMA RecordedAnswer ==
  ASSUME RecordedInv, BaseInv', NEW p \in Procs,
         \/ Resolve(p) \/ Record(p)
         \/ \E q \in Questions, a \in Answers : StartAnswer(p, q, a)
  PROVE  RecordedInv' /\ FirstOnly(p)
<1> DEFINE s == job[p].q
<1>0. RecordedInv /\ TypeInv
  BY DEF RecordedInv, BaseInv
<1>1. ASSUME NEW q \in Questions, NEW a \in Answers, StartAnswer(p, q, a)
      PROVE  RecordedInv' /\ FirstOnly(p)
  <2>1. /\ job'[p].at = "resolve" /\ job'[p].entry = [Missing EXCEPT !.res = Answer(a)]
        /\ \A r \in Procs \ {p} : job'[r] = job[r]
    BY <1>0, <1>1, StartShape DEF StartStep
  <2>4. job'[p].entry.res # Open
    BY <2>1 DEF Answer, Missing, Open
  <2>2. UNCHANGED <<store, recorded>>
    BY <1>1 DEF StartAnswer
  <2>3. FirstOnly(p) /\ ResolutionAt(p)'
    BY <2>1, <2>2, <2>4 DEF FirstOnly, ResolutionAt
  <2> QED
    BY <1>0, <2>1, <2>2, <2>3, RecordedStep DEF RecordedInv
<1>2. CASE Resolve(p)
  <2>1. UNCHANGED <<store, recorded>>
    BY <1>2 DEF Resolve
  <2>2. s \in Questions /\ store[s] \in Entry /\ job[p].entry.res # Open
    BY <1>0, <1>2 DEF Resolve, TypeInv, TypeOK, Placed, AnswerSteps, RecordedInv, ResolutionAt
  <2>3. store[s].there => store[s].res = recorded[s]
    BY <2>2 DEF RecordedInv
  <2>4. ResolutionAt(p)'
    BY <1>0, <1>2, <2>1, <2>2, <2>3, ResolveShape, OpenSettled DEF ResolutionAt, Moved, Entry
  <2>5. FirstOnly(p)
    BY <2>1 DEF FirstOnly
  <2> QED
    BY <1>0, <1>2, <2>1, <2>4, <2>5, ResolveShape, RecordedStep DEF RecordedInv
<1>3. CASE Record(p)
  <2>1. /\ \A r \in Procs \ {p} : job'[r] = job[r]
        /\ job'[p].at \in {"drain", "apply"} /\ job'[p].q = s
        /\ job'[p].entry = job[p].entry
    BY <1>0, <1>3, GotoIs DEF Record
  <2>2. s \in Questions /\ job[p].entry.res # Open /\ recorded[s] = Open /\ lock = p
    BY <1>0, <1>3 DEF Record, TypeInv, Placed, AnswerSteps, RecordedInv, ResolutionAt,
       BaseInv, LockHeld, Holding
  <2>3. /\ store' = [store EXCEPT ![s] = job[p].entry]
        /\ recorded' = [recorded EXCEPT ![s] = job[p].entry.res]
    BY <1>3 DEF Record, WriteEntry
  <2>4. \A q \in Questions : store'[q].there => store'[q].res = recorded'[q]
    BY <2>2, <2>3 DEF RecordedInv, BaseInv, TypeInv, TypeOK
  <2>5. FirstOnly(p) /\ ResolutionAt(p)'
    BY <1>0, <2>1, <2>2, <2>3 DEF FirstOnly, ResolutionAt, TypeInv, TypeOK
  <2> QED
    BY <2>1, <2>4, <2>5, RecordedStep
<1> QED
  BY <1>1, <1>2, <1>3

LEMMA RecordedApply ==
  ASSUME RecordedInv, BaseInv', NEW p \in Procs,
         \/ Apply(p) \/ Check(p) \/ Read(p) \/ Siblings(p)
         \/ Write(p) \/ Mark(p) \/ Stamp(p)
  PROVE  RecordedInv' /\ FirstOnly(p)
<1> DEFINE s == job[p].q
<1> USE DEF Moved
<1>1. RecordedInv /\ TypeInv /\ ResolutionAt(p)
  BY DEF RecordedInv, BaseInv
<1>2. s \in Questions /\ recorded[s] # Open /\ (store[s].there => store[s].res = recorded[s])
  BY <1>1 DEF Apply, Check, Read, Siblings, Write, Mark, Stamp, TypeInv, Placed, AnswerSteps,
     ResolutionAt, RecordedInv
<1>3. CASE Stamp(p)
  <2>1. job[p].entry.res = recorded[s]
    BY <1>1, <1>3 DEF Stamp, ResolutionAt
  <2>2. recorded' = recorded /\ store' = [store EXCEPT ![s] = job[p].entry]
    BY <1>1, <1>2, <1>3, <2>1 DEF Stamp, WriteEntry, TypeInv, TypeOK
  <2>3. \A q \in Questions : store'[q].there => store'[q].res = recorded'[q]
    BY <1>1, <1>2, <2>1, <2>2 DEF RecordedInv, TypeInv, TypeOK
  <2>4. /\ \A r \in Procs \ {p} : job'[r] = job[r]
        /\ job'[p].at = "idle" \/ (job'[p].at = "drain" /\ job'[p].q = s)
    BY <1>1, <1>3, SettledShape DEF Stamp
  <2>5. FirstOnly(p) /\ ResolutionAt(p)'
    BY <1>2, <2>2, <2>4 DEF FirstOnly, ResolutionAt
  <2> QED
    BY <2>3, <2>4, <2>5, RecordedStep
<1>4. CASE ~Stamp(p)
  <2>1. UNCHANGED <<store, recorded>>
    BY <1>4 DEF Apply, Check, Read, Siblings, Write, Mark
  <2>2. (\A r \in Procs \ {p} : job'[r] = job[r]) /\ ResolutionAt(p)'
    <3>1. CASE Apply(p)
      <4>1. job[p].entry.res = recorded[s]
        BY <1>1, <3>1 DEF Apply, ResolutionAt
      <4>2. IsSettled(store[s]) => store[s].res = recorded[s]
        BY <1>2 DEF IsSettled
      <4>3. /\ \A r \in Procs \ {p} : job'[r] = job[r]
            /\ \/ job'[p].at = "idle"
               \/ job'[p].at \in {"drain", "mark"} /\ job'[p].q = s
               \/ /\ job'[p].at = "check" /\ job'[p].q = s
                  /\ job'[p].entry.res = recorded[s]
                  /\ job[p].entry.res.status = "answered"
        BY <1>1, <3>1, <4>1, <4>2, ApplyShape
      <4> QED
        BY <1>2, <2>1, <4>1, <4>3 DEF ResolutionAt
    <3>2. CASE Check(p) \/ Write(p)
      <4>1. /\ \A r \in Procs \ {p} : job'[r] = job[r]
            /\ \/ job'[p].at = "idle"
               \/ job'[p].at \in {"drain", "mark"} /\ job'[p].q = s
               \/ /\ job[p].at = "check" /\ job'[p].at = "read" /\ job'[p].q = s
                  /\ job'[p].entry = job[p].entry
        BY <1>1, <3>2, SettledShape, GotoIs DEF Check, Write
      <4> QED
        BY <1>1, <1>2, <2>1, <4>1 DEF ResolutionAt
    <3>3. CASE Read(p)
      BY <1>1, <1>2, <2>1, <3>3, ReadShape DEF Read, ResolutionAt
    <3>4. CASE Siblings(p)
      BY <1>1, <1>2, <2>1, <3>4, SiblingsShape DEF Siblings, ResolutionAt
    <3>5. CASE Mark(p)
      <4>1. store[s] \in Entry /\ (IsSettled(store[s]) => store[s].there)
        BY <1>1, <1>2 DEF TypeInv, TypeOK, IsSettled
      <4> QED
        BY <1>1, <1>2, <2>1, <3>5, <4>1, MarkShape DEF Mark, ResolutionAt, Entry
    <3> QED
      BY <1>4, <3>1, <3>2, <3>3, <3>4, <3>5
  <2>3. FirstOnly(p)
    BY <2>1 DEF FirstOnly
  <2> QED
    BY <1>1, <2>1, <2>2, <2>3, RecordedStep DEF RecordedInv
<1> QED
  BY <1>3, <1>4

LEMMA RecordedRest ==
  ASSUME RecordedInv, BaseInv', NEW p \in Procs, NoBridges,
         \/ \E role \in {"collect", "await"} : StartCollect(p, role)
         \/ TakeNext(p) \/ Watch(p) \/ TimeOut(p) \/ Drain(p) \/ Finish(p)
         \/ \E t \in Ticks, verdict \in Verdict : StartVerdict(p, t, verdict)
         \/ \E q \in Questions : StartDeliver(p, q)
         \/ WriteVerdict(p) \/ Deliver(p) \/ Fail(p)
  PROVE  RecordedInv' /\ FirstOnly(p)
<1>1. RecordedInv /\ TypeInv /\ ResolutionAt(p)
  BY DEF RecordedInv, BaseInv
<1>2. ~Deliver(p) /\ \A q \in Questions : ~StartDeliver(p, q)
  BY <1>1 DEF Deliver, StartDeliver, ResolutionAt, NoBridges
<1>3. recorded' = recorded
  BY <1>2 DEF StartCollect, TakeNext, Watch, TimeOut, Drain, Finish, StartVerdict, WriteVerdict,
     Fail
<1>4. FirstOnly(p)
  BY <1>3 DEF FirstOnly
<1>5. CASE \/ \E role \in {"collect", "await"} : StartCollect(p, role)
           \/ \E t \in Ticks, verdict \in Verdict : StartVerdict(p, t, verdict)
           \/ TimeOut(p) \/ Finish(p) \/ WriteVerdict(p) \/ Fail(p)
  <2>1. /\ job'[p].at \in {"idle", "next", "verdict"}
        /\ \A r \in Procs \ {p} : job'[r] = job[r]
    BY <1>1, <1>5, StartShape, BecomeIs, IdleType, SkippedType
       DEF StartStep, Verdict, TimeOut, Finish, WriteVerdict, Fail
  <2>2. UNCHANGED store
    BY <1>5 DEF StartCollect, StartVerdict, TimeOut, Finish, WriteVerdict, Fail
  <2> QED
    BY <1>3, <1>4, <2>1, <2>2, RecordedElsewhere
<1>6. CASE TakeNext(p) \/ Watch(p)
  <2>1. UNCHANGED store
    BY <1>6 DEF TakeNext, Watch
  <2>2. ResolutionAt(p)' /\ \A r \in Procs \ {p} : job'[r] = job[r]
    <3>1. CASE TakeNext(p)
      <4>1. \A q \in Questions : IsSettled(store[q]) => recorded[q] # Open /\ store[q].res = recorded[q]
        BY <1>1, OpenSettled DEF RecordedInv
      <4> QED
        BY <1>1, <1>3, <3>1, <4>1, TakeNextShape DEF ResolutionAt
    <3>2. CASE Watch(p)
      BY <1>1, <1>3, <3>2, WatchShape DEF ResolutionAt, Moot, Open
    <3> QED
      BY <1>6, <3>1, <3>2
  <2> QED
    BY <1>1, <1>3, <1>4, <2>1, <2>2, RecordedStep DEF RecordedInv
<1>7. CASE Drain(p)
  <2>1. job'[p].at = "next" /\ \A r \in Procs \ {p} : job'[r] = job[r]
    BY <1>1, <1>7, BecomeIs, SkippedType DEF Drain
  <2>2. \A q \in Questions : store'[q].there => store'[q].res = recorded'[q]
    BY <1>1, <1>3, <1>7 DEF Drain, Missing, RecordedInv, TypeInv, TypeOK
  <2>3. ResolutionAt(p)'
    BY <2>1 DEF ResolutionAt
  <2> QED
    BY <1>4, <2>1, <2>2, <2>3, RecordedStep
<1> QED
  BY <1>2, <1>5, <1>6, <1>7

LEMMA RecordedInit == Init => RecordedInv
<1>1. Init => \A p \in Procs : job[p].at = "idle"
  BY IdleType DEF Init
<1> QED
  BY <1>1, BaseInit DEF Init, RecordedInv, ResolutionAt, Missing

LEMMA RecordedNext ==
  ASSUME NoBridges
  PROVE  /\ RecordedInv /\ [Next]_vars => RecordedInv'
         /\ RecordedInv /\ Next => \E p \in Procs : FirstOnly(p)
<1> SUFFICES ASSUME RecordedInv, [Next]_vars
             PROVE  RecordedInv' /\ (Next => \E p \in Procs : FirstOnly(p))
  OBVIOUS
<1>1. BaseInv'
  BY BaseNext DEF RecordedInv
<1>2. CASE UNCHANGED vars
  <2>1. RecordedInv'
    BY <1>1, <1>2 DEF vars, RecordedInv, ResolutionAt
  <2>2. Next => \E p \in Procs : FirstOnly(p)
    BY <1>2, NextCases DEF vars, FirstOnly
  <2> QED
    BY <2>1, <2>2
<1>3. CASE Next
  BY <1>1, <1>3, NextCases, RecordedAsk, RecordedAnswer, RecordedApply, RecordedRest
     DEF Acts
<1> QED
  BY <1>2, <1>3

\* No recorded resolution is replaced, as long as no bridge runs.
THEOREM FirstWins == ASSUME NoBridges PROVE Spec => FirstResolutionWins
<1>1. RecordedInv /\ [Next]_vars => RecordedInv'
  BY RecordedNext
<1>2. RecordedInv /\ [Next]_vars
        => [\A q \in Questions : recorded[q] # Open => recorded'[q] = recorded[q]]_vars
  BY RecordedNext DEF FirstOnly
<1> QED
  BY RecordedInit, <1>1, <1>2, PTL DEF Spec, FirstResolutionWins

\* An open question stays on disk, as long as no bridge runs.
THEOREM OpenStays == ASSUME NoBridges PROVE Spec => OpenStaysOnDisk
<1>1. RecordedInv /\ [Next]_vars => RecordedInv'
  BY RecordedNext
<1>2. RecordedInv /\ [Next]_vars
        => [\A q \in Questions : IsOpen(store[q]) => store'[q].there]_vars
  <2> SUFFICES ASSUME RecordedInv, Next, NEW q \in Questions, IsOpen(store[q])
               PROVE  store'[q].there
    OBVIOUS
  <2>1. store[q].there /\ recorded[q] = Open /\ TypeInv
    BY OpenSettled DEF RecordedInv, BaseInv
  <2>2. CASE store' = store
    BY <2>1, <2>2
  <2>3. ASSUME NEW p \in Procs, Save(p) \/ Record(p) \/ Stamp(p) \/ Deliver(p) \/ Drain(p)
        PROVE  store'[q].there
    <3>1. ResolutionAt(p) /\ job[p].q \in Questions
      BY <2>3, <2>1 DEF RecordedInv, TypeInv, Placed, AskSteps, AnswerSteps, Save, Record, Stamp,
         Deliver, Drain
    <3>2. CASE Drain(p)
      BY <2>1, <3>1, <3>2 DEF Drain, ResolutionAt, TypeInv, TypeOK
    <3>3. CASE Save(p)
      BY <2>1, <3>1, <3>3 DEF Save, WriteEntry, Asked, Missing, TypeInv, TypeOK
    <3>4. CASE Record(p) \/ Stamp(p) \/ Deliver(p)
      BY <2>1, <3>1, <3>4 DEF Record, Stamp, Deliver, WriteEntry, ResolutionAt, TypeInv, TypeOK
    <3> QED
      BY <2>3, <3>2, <3>3, <3>4
  <2> QED
    BY <2>2, <2>3, NextCases
       DEF Acts, StartAsk, Park, StartAnswer, Resolve, Apply, Check, Read, Siblings, Write, Mark,
           StartCollect, TakeNext, Watch, TimeOut, Finish, StartVerdict, WriteVerdict,
           StartDeliver, Fail
<1> QED
  BY RecordedInit, <1>1, <1>2, PTL DEF Spec, OpenStaysOnDisk

-----------------------------------------------------------------------------
(***************************************************************************)
(* The stamp comes last.  Whoever is about to stamp has had the effect,    *)
(* and so has every copy of an entry that is already stamped.              *)
(***************************************************************************)
StampAt(p) ==
  LET at == job[p].at  had == effects[job[p].q] >= 1 IN
  /\ at \in {"watch", "resolve", "record", "deliver"} /\ job[p].entry.applied => had
  /\ at = "mark" /\ Kind[job[p].q] # "agent_relay" => had
  /\ at = "stamp" => had

StampInv ==
  /\ TypeInv
  /\ \A q \in Questions : store[q].applied => effects[q] >= 1
  /\ \A p \in Procs : StampAt(p)

LEMMA StampStep ==
  ASSUME StampInv, TypeInv', NEW p \in Procs,
         \A q \in Questions : effects'[q] >= effects[q],
         \A q \in Questions : store'[q].applied => effects'[q] >= 1,
         \A r \in Procs \ {p} : job'[r] = job[r],
         StampAt(p)'
  PROVE  StampInv'
<1> SUFFICES ASSUME NEW r \in Procs \ {p} PROVE StampAt(r)'
  BY DEF StampInv
<1>1. job'[r] = job[r] /\ StampAt(r)
  BY DEF StampInv
<1>2. job[r].at \in AnswerSteps => job[r].q \in Questions
  BY DEF StampInv, TypeInv, Placed
<1>3. \A q \in Questions : effects[q] \in Nat /\ effects'[q] \in Nat
  BY DEF StampInv, TypeInv, TypeOK
<1> QED
  BY <1>1, <1>2, <1>3 DEF StampAt, AnswerSteps

LEMMA StampSame ==
  ASSUME StampInv, TypeInv', NEW p \in Procs, UNCHANGED <<store, effects>>,
         \A r \in Procs \ {p} : job'[r] = job[r],
         StampAt(p)'
  PROVE  StampInv'
<1>1. \A q \in Questions : effects[q] \in Nat
  BY DEF StampInv, TypeInv, TypeOK
<1> QED
  BY <1>1, StampStep DEF StampInv

LEMMA StampNext == StampInv /\ [Next]_vars => StampInv'
<1> SUFFICES ASSUME StampInv, [Next]_vars PROVE StampInv'
  OBVIOUS
<1> USE DEF Moved
<1>1. TypeInv /\ TypeInv'
  BY NextType DEF StampInv
<1>2. CASE UNCHANGED vars
  BY <1>1, <1>2 DEF vars, StampInv, StampAt
<1>3. ASSUME NEW p \in Procs,
             \/ Park(p) \/ \E q \in Questions : StartAsk(p, q)
             \/ (Apply(p) /\ job'[p].at # "mark") \/ Check(p) \/ Read(p) \/ Siblings(p)
             \/ \E role \in {"collect", "await"} : StartCollect(p, role)
             \/ TimeOut(p) \/ Finish(p)
             \/ \E t \in Ticks, verdict \in Verdict : StartVerdict(p, t, verdict)
             \/ WriteVerdict(p) \/ Fail(p)
      PROVE  StampInv'
  <2>1. UNCHANGED <<store, effects>>
    BY <1>3 DEF Park, StartAsk, Apply, Check, Read, Siblings, StartCollect, TimeOut, Finish,
       StartVerdict, WriteVerdict, Fail
  <2>2. /\ \A r \in Procs \ {p} : job'[r] = job[r]
        /\ job'[p].at \in Steps \ {"watch", "resolve", "record", "deliver", "mark", "stamp"}
    <3>1. CASE \/ \E q \in Questions : StartAsk(p, q)
               \/ \E role \in {"collect", "await"} : StartCollect(p, role)
               \/ \E t \in Ticks, verdict \in Verdict : StartVerdict(p, t, verdict)
      BY <1>1, <3>1, StartShape DEF StartStep, Steps, Verdict, AskSteps
    <3>2. CASE Park(p)
      BY <1>1, <3>2, GotoIs DEF Park, Steps
    <3>6. CASE Check(p)
      BY <1>1, <3>6, GotoIs, SettledShape DEF Check, Steps
    <3>3. CASE Apply(p) /\ job'[p].at # "mark"
      BY <1>1, <3>3, ApplyShape DEF Steps
    <3>4. CASE Read(p) \/ Siblings(p)
      BY <1>1, <3>4, ReadShape, SiblingsShape DEF Steps
    <3>5. CASE TimeOut(p) \/ Finish(p) \/ WriteVerdict(p) \/ Fail(p)
      BY <1>1, <3>5, BecomeIs, IdleType, SkippedType
         DEF TimeOut, Finish, WriteVerdict, Fail, Steps
    <3> QED
      BY <1>3, <3>1, <3>2, <3>3, <3>4, <3>5, <3>6
  <2>3. StampAt(p)'
    BY <2>2 DEF StampAt
  <2> QED
    BY <1>1, <2>1, <2>2, <2>3, StampSame
<1>4. ASSUME NEW p \in Procs, Apply(p), job'[p].at = "mark" PROVE StampInv'
  <2>1. /\ \A r \in Procs \ {p} : job'[r] = job[r]
        /\ Kind[job'[p].q] = "agent_relay"
    BY <1>1, <1>4, ApplyShape
  <2>2. UNCHANGED <<store, effects>>
    BY <1>4 DEF Apply
  <2> QED
    BY <1>1, <1>4, <2>1, <2>2, StampSame DEF StampAt
<1>5. ASSUME NEW p \in Procs, NEW q \in Questions, NEW a \in Answers, StartAnswer(p, q, a)
      PROVE  StampInv'
  <2>1. /\ job'[p].at = "resolve" /\ job'[p].entry = [Missing EXCEPT !.res = Answer(a)]
        /\ \A r \in Procs \ {p} : job'[r] = job[r]
    BY <1>1, <1>5, StartShape DEF StartStep
  <2>2. UNCHANGED <<store, effects>> /\ ~job'[p].entry.applied
    BY <1>5, <2>1 DEF StartAnswer, Missing
  <2> QED
    BY <1>1, <2>1, <2>2, StampSame DEF StampAt
<1>6. ASSUME NEW p \in Procs, Resolve(p) \/ TakeNext(p) \/ Watch(p) PROVE StampInv'
  <2>1. UNCHANGED <<store, effects>>
    BY <1>6 DEF Resolve, TakeNext, Watch
  <2>2. (\A r \in Procs \ {p} : job'[r] = job[r]) /\ StampAt(p)'
    <3>1. CASE Resolve(p)
      <4>1. job[p].q \in Questions /\ store[job[p].q] \in Entry
        BY <1>1, <3>1 DEF Resolve, TypeInv, TypeOK, Placed, AnswerSteps
      <4>2. store[job[p].q].applied => effects[job[p].q] >= 1
        BY <4>1 DEF StampInv
      <4> QED
        BY <1>1, <2>1, <3>1, <4>1, <4>2, ResolveShape DEF StampAt, Entry
    <3>2. CASE TakeNext(p)
      BY <1>1, <2>1, <3>2, TakeNextShape DEF StampInv, StampAt
    <3>3. CASE Watch(p)
      BY <1>1, <2>1, <3>3, WatchShape DEF Watch, StampInv, StampAt
    <3> QED
      BY <1>6, <3>1, <3>2, <3>3
  <2> QED
    BY <1>1, <2>1, <2>2, StampSame
<1>7. ASSUME NEW p \in Procs,
             \/ Save(p) \/ Record(p) \/ Stamp(p) \/ Deliver(p) \/ Drain(p)
      PROVE  StampInv'
  <2>1. effects' = effects /\ \A q \in Questions : effects[q] \in Nat
    BY <1>1, <1>7 DEF Save, Record, Stamp, Deliver, Drain, TypeInv, TypeOK
  <2>2. /\ \A r \in Procs \ {p} : job'[r] = job[r]
        /\ job'[p].at \in {"idle", "drain", "apply", "next"}
    <3>1. CASE Save(p) \/ Deliver(p) \/ Drain(p)
      BY <1>1, <3>1, BecomeIs, IdleType, SkippedType DEF Save, Deliver, Drain
    <3>2. CASE Record(p)
      BY <1>1, <3>2, GotoIs DEF Record
    <3>3. CASE Stamp(p)
      BY <1>1, <3>3, SettledShape DEF Stamp
    <3> QED
      BY <1>7, <3>1, <3>2, <3>3
  <2>3. \A q \in Questions : store'[q].applied => effects'[q] >= 1
    <3>1. CASE Save(p) \/ Drain(p)
      <4>1. \E e \in {Asked, Missing} : store' = [store EXCEPT ![job[p].q] = e]
        BY <3>1 DEF Save, Drain, WriteEntry
      <4>2. ~Asked.applied /\ ~Missing.applied
        BY DEF Asked, Missing
      <4> QED
        BY <1>1, <2>1, <4>1, <4>2 DEF StampInv, TypeInv, TypeOK
    <3>2. CASE Record(p) \/ Stamp(p) \/ Deliver(p)
      <4>1. store' = [store EXCEPT ![job[p].q] = job[p].entry]
        BY <3>2 DEF Record, Stamp, Deliver, WriteEntry
      <4>2. job[p].entry.applied => effects[job[p].q] >= 1
        BY <3>2 DEF Record, Stamp, Deliver, StampInv, StampAt
      <4> QED
        BY <1>1, <2>1, <4>1, <4>2 DEF StampInv, TypeInv, TypeOK
    <3> QED
      BY <1>7, <3>1, <3>2
  <2> QED
    BY <1>1, <2>1, <2>2, <2>3, StampStep DEF StampAt
<1>8. ASSUME NEW p \in Procs, Write(p) \/ Mark(p) PROVE StampInv'
  <2>1. store' = store /\ job[p].q \in Questions
    BY <1>1, <1>8 DEF Write, Mark, TypeInv, Placed, AnswerSteps
  <2>2. /\ \A q \in Questions : effects[q] \in Nat /\ effects'[q] >= effects[q]
        /\ Write(p) => effects'[job[p].q] >= 1
        /\ Mark(p) /\ Kind[job[p].q] = "agent_relay" => effects'[job[p].q] >= 1
    <3>1. effects \in [Questions -> Nat]
      BY <1>1 DEF TypeInv, TypeOK
    <3>2. \/ effects' = effects /\ ~Write(p) /\ Kind[job[p].q] # "agent_relay"
          \/ effects' = [effects EXCEPT ![job[p].q] = @ + 1]
      BY <1>8 DEF Write, Mark
    <3> QED
      BY <2>1, <3>1, <3>2
  <2>3. \A q \in Questions : store'[q].applied => effects'[q] >= 1
    BY <1>1, <2>1, <2>2 DEF StampInv, TypeInv, TypeOK
  <2>4. \A r \in Procs \ {p} : job'[r] = job[r]
    BY <1>1, <1>8, GotoIs, MarkShape DEF Write
  <2>5. StampAt(p)'
    <3>1. CASE Write(p)
      BY <1>1, <2>2, <3>1, GotoIs DEF Write, StampAt
    <3>2. CASE Mark(p)
      <4>1. effects'[job[p].q] >= 1
        <5>1. Kind[job[p].q] # "agent_relay" => effects[job[p].q] >= 1
          BY <3>2 DEF Mark, StampInv, StampAt
        <5>2. effects'[job[p].q] \in Nat
          BY <1>1, <2>1 DEF TypeInv, TypeOK
        <5> QED
          BY <2>1, <2>2, <3>2, <5>1, <5>2
      <4> QED
        BY <1>1, <3>2, <4>1, MarkShape DEF StampAt
    <3> QED
      BY <1>8, <3>1, <3>2
  <2> QED
    BY <1>1, <2>2, <2>3, <2>4, <2>5, StampStep
<1>9. ASSUME NEW p \in Procs, NEW q \in Questions, StartDeliver(p, q) PROVE StampInv'
  <2>1. /\ job'[p].at = "deliver" /\ job'[p].q = q
        /\ job'[p].entry = [store[q] EXCEPT !.ref = TRUE]
        /\ \A r \in Procs \ {p} : job'[r] = job[r]
    BY <1>1, <1>9, StartShape DEF StartStep
  <2>2. UNCHANGED <<store, effects>> /\ store[q] \in Entry
    BY <1>1, <1>9 DEF StartDeliver, TypeInv, TypeOK
  <2>3. StampAt(p)'
    BY <2>1, <2>2 DEF StampInv, StampAt, Entry
  <2> QED
    BY <1>1, <2>1, <2>2, <2>3, StampSame
<1> QED
  BY <1>2, <1>3, <1>4, <1>5, <1>6, <1>7, <1>8, <1>9, NextCases DEF Acts

\* An entry marked applied has had its effect, whoever crashes when.
THEOREM StampComesLast == Spec => []StampedLast
<1>1. Init => StampInv
  <2> SUFFICES ASSUME Init PROVE StampInv
    OBVIOUS
  <2>1. \A p \in Procs : job[p].at = "idle"
    BY IdleType DEF Init
  <2> QED
    BY InitType, <2>1 DEF Init, StampInv, StampAt, Missing
<1>2. StampInv => StampedLast
  BY DEF StampInv, StampedLast
<1> QED
  BY <1>1, <1>2, StampNext, PTL DEF Spec

-----------------------------------------------------------------------------
(***************************************************************************)
(* An answer takes effect at most once.  It does not while a sibling       *)
(* question keeps its tick parked and a command dies before its stamp, so  *)
(* every question has a tick of its own.  An effect unparks the tick of    *)
(* the question and nobody parks it again; whoever passed the out-of-band  *)
(* check under the lock therefore comes before any effect.                 *)
(***************************************************************************)
Isolated ==
  /\ \A q, r \in Questions : TickOf[q] = TickOf[r] => q = r
  /\ \A q \in Questions : Kind[q] # "agent_relay"

OnceAt(p) ==
  LET at == job[p].at IN
  /\ at \in {"read", "siblings", "write"} => effects[job[p].q] = 0
  /\ at \in {"write", "verdict"} => ~IsAwaitingHuman(job[p].tick)

OnceInv ==
  /\ BaseInv
  /\ \A q \in Questions :
       effects[q] # 0 => effects[q] = 1 /\ ~IsAwaitingHuman(ticks[TickOf[q]])
  /\ \A p \in Procs : OnceAt(p)

LEMMA ClearUnparks == \A t \in TickFile : ~IsAwaitingHuman(ClearAwaiting(t))
  BY DEF ClearAwaiting, SetAwaiting, IsAwaitingHuman, TickFile, TickRecord, None

LEMMA DecideUnparks ==
  ASSUME NEW t \in TickFile, NEW v \in Verdict
  PROVE  ~IsAwaitingHuman(Decide(t, v))
<1> DEFINE n == NormalizeManual(t)
           d == [n EXCEPT !.verdict = v]
<1>1. n \in TickFile /\ (n.awaiting = None => ~n.manual)
  BY SetAwaitingType
     DEF NormalizeManual, Awaiting, Requires, None, SetAwaiting, TickFile, TickRecord
<1>2. d \in TickFile /\ d.awaiting = n.awaiting /\ d.manual = n.manual /\ d.verdict = v
  BY <1>1 DEF TickFile, TickRecord
<1>3. v # None
  BY DEF Verdict, None
<1> HIDE DEF d
<1>4. CASE d.awaiting = None
  <2>1. ProcessVerdict(d) = d
    BY <1>4 DEF ProcessVerdict
  <2> QED
    BY <1>1, <1>2, <1>4, <2>1 DEF Decide, IsAwaitingHuman, d
<1>5. CASE d.awaiting # None
  <2> DEFINE c == ClearAwaiting(d)
  <2>1. c \in TickFile /\ ~IsAwaitingHuman(c)
    BY <1>2, ClearAwaitingType, ClearUnparks
  <2>2. \E verdict, status, closedAt :
          ProcessVerdict(d) = [c EXCEPT !.verdict = verdict, !.status = status,
                                        !.closedAt = closedAt]
    BY <1>2, <1>3, <1>5 DEF ProcessVerdict
  <2> HIDE DEF c
  <2>3. ~IsAwaitingHuman(ProcessVerdict(d))
    BY <2>1, <2>2 DEF IsAwaitingHuman, TickFile, TickRecord
  <2> QED
    BY <2>3 DEF Decide, d
<1> QED
  BY <1>4, <1>5

LEMMA OnceStep ==
  ASSUME OnceInv, BaseInv', NEW p \in Procs,
         \A r \in Procs \ {p} : job'[r] = job[r],
         \A q \in Questions :
           effects'[q] # 0 => effects'[q] = 1 /\ ~IsAwaitingHuman(ticks'[TickOf[q]]),
         effects' = effects \/ lock = p,
         OnceAt(p)'
  PROVE  OnceInv'
<1> SUFFICES ASSUME NEW r \in Procs \ {p} PROVE OnceAt(r)'
  BY DEF OnceInv
<1>1. job'[r] = job[r] /\ OnceAt(r)
  BY DEF OnceInv
<1>2. job[r].at \in {"read", "siblings", "write"} => lock # p
  BY DEF OnceInv, BaseInv, LockHeld, Holding
<1> QED
  BY <1>1, <1>2 DEF OnceAt

\* Steps that leave ticks and effects alone.
LEMMA OnceSame ==
  ASSUME OnceInv, BaseInv', NEW p \in Procs, UNCHANGED <<ticks, effects>>,
         \A r \in Procs \ {p} : job'[r] = job[r],
         OnceAt(p)'
  PROVE  OnceInv'
  BY OnceStep DEF OnceInv

LEMMA OnceNext == ASSUME Isolated PROVE OnceInv /\ [Next]_vars => OnceInv'
<1> SUFFICES ASSUME OnceInv, [Next]_vars PROVE OnceInv'
  OBVIOUS
<1> USE DEF Moved
<1>1. TypeInv /\ TypeInv' /\ BaseInv /\ BaseInv'
  BY BaseNext DEF OnceInv, BaseInv
<1>2. CASE UNCHANGED vars
  BY <1>1, <1>2 DEF vars, OnceInv, OnceAt
<1>3. ASSUME NEW p \in Procs,
             \/ Save(p) \/ \E q \in Questions : StartAsk(p, q)
             \/ Resolve(p) \/ Record(p)
             \/ \E q \in Questions, a \in Answers : StartAnswer(p, q, a)
             \/ Apply(p) \/ Stamp(p)
             \/ \E role \in {"collect", "await"} : StartCollect(p, role)
             \/ TakeNext(p) \/ Watch(p) \/ TimeOut(p) \/ Drain(p) \/ Finish(p)
             \/ \E q \in Questions : StartDeliver(p, q)
             \/ Deliver(p) \/ Fail(p)
      PROVE  OnceInv'
  <2>1. UNCHANGED <<ticks, effects>>
    BY <1>3 DEF Save, StartAsk, Resolve, Record, StartAnswer, Apply, Stamp, StartCollect,
       TakeNext, Watch, TimeOut, Drain, Finish, StartDeliver, Deliver, Fail
  <2>2. /\ \A r \in Procs \ {p} : job'[r] = job[r]
        /\ job'[p].at \notin {"read", "siblings", "write", "verdict"}
    <3>1. CASE \/ \E q \in Questions : StartAsk(p, q) \/ StartDeliver(p, q)
               \/ \E q \in Questions, a \in Answers : StartAnswer(p, q, a)
               \/ \E role \in {"collect", "await"} : StartCollect(p, role)
      BY <1>1, <3>1, StartShape DEF StartStep, AskSteps
    <3>2. CASE \/ Save(p) \/ TimeOut(p) \/ Drain(p) \/ Finish(p) \/ Deliver(p) \/ Fail(p)
      BY <1>1, <3>2, BecomeIs, IdleType, SkippedType
         DEF Save, TimeOut, Drain, Finish, Deliver, Fail
    <3>3. CASE Resolve(p) \/ Apply(p)
      BY <1>1, <3>3, ResolveShape, ApplyShape
    <3>4. CASE Record(p)
      BY <1>1, <3>4, GotoIs DEF Record
    <3>5. CASE Stamp(p)
      BY <1>1, <3>5, SettledShape DEF Stamp
    <3>6. CASE TakeNext(p)
      BY <1>1, <3>6, TakeNextShape
    <3>7. CASE Watch(p)
      BY <1>1, <3>7, WatchShape
    <3> QED
      BY <1>3, <3>1, <3>2, <3>3, <3>4, <3>5, <3>6, <3>7
  <2> QED
    BY <1>1, <2>1, <2>2, OnceSame DEF OnceAt
<1>4. ASSUME NEW p \in Procs, Park(p) PROVE OnceInv'
  <2> DEFINE s == job[p].q
  <2>1. s \in Questions /\ TickOf[s] \in Ticks /\ effects[s] = 0
    BY <1>1, <1>4, OperatorAssumption
       DEF Park, TypeInv, Placed, AskSteps, BaseInv, Fresh, Known
  <2>2. \A q \in Questions \ {s} : ticks'[TickOf[q]] = ticks[TickOf[q]]
    BY <1>1, <1>4, <2>1, OperatorAssumption DEF Park, WriteTick, Isolated, TypeInv, TypeOK
  <2>3. effects' = effects
    BY <1>4 DEF Park
  <2>4. (\A r \in Procs \ {p} : job'[r] = job[r]) /\ OnceAt(p)'
    BY <1>1, <1>4, GotoIs DEF Park, OnceAt
  <2>5. \A q \in Questions :
          effects'[q] # 0 => effects'[q] = 1 /\ ~IsAwaitingHuman(ticks'[TickOf[q]])
    BY <2>1, <2>2, <2>3 DEF OnceInv
  <2> QED
    BY <1>1, <2>3, <2>4, <2>5, OnceStep
<1>5. ASSUME NEW p \in Procs, WriteVerdict(p) PROVE OnceInv'
  <2>1. job[p].on \in Ticks /\ ~IsAwaitingHuman(job[p].tick)
    BY <1>1, <1>5 DEF WriteVerdict, OnceInv, OnceAt, TypeInv, Placed
  <2>2. effects' = effects
    BY <1>5 DEF WriteVerdict
  <2>3. \A q \in Questions :
          effects'[q] # 0 => effects'[q] = 1 /\ ~IsAwaitingHuman(ticks'[TickOf[q]])
    BY <1>1, <1>5, <2>1, <2>2, OperatorAssumption
       DEF WriteVerdict, WriteTick, OnceInv, TypeInv, TypeOK
  <2>4. (\A r \in Procs \ {p} : job'[r] = job[r]) /\ OnceAt(p)'
    BY <1>1, <1>5, BecomeIs, IdleType DEF WriteVerdict, OnceAt
  <2> QED
    BY <1>1, <2>2, <2>3, <2>4, OnceStep
<1>6. ASSUME NEW p \in Procs, NEW t \in Ticks, NEW v \in Verdict, StartVerdict(p, t, v)
      PROVE  OnceInv'
  <2> DEFINE noted == IF v = "rejected" THEN AddNote(ticks[t], <<"human", "feedback">>)
                                        ELSE ticks[t]
  <2>1. noted \in TickFile
    BY <1>1, AddNoteType DEF TypeInv, TypeOK, NoteLines
  <2>2. ~IsAwaitingHuman(Decide(noted, v))
    <3> HIDE DEF noted
    <3> QED
      BY <2>1, DecideUnparks
  <2>3. /\ job'[p].at = "verdict" /\ job'[p].tick = Decide(noted, v)
        /\ \A r \in Procs \ {p} : job'[r] = job[r]
    BY <1>1, <1>6, StartShape DEF StartStep, Verdict
  <2>4. UNCHANGED <<ticks, effects>>
    BY <1>6 DEF StartVerdict
  <2> QED
    BY <1>1, <2>2, <2>3, <2>4, OnceSame DEF OnceAt
<1>7. ASSUME NEW p \in Procs, Check(p) PROVE OnceInv'
  <2> DEFINE s == job[p].q
  <2>1. s \in Questions /\ UNCHANGED <<ticks, effects>>
    BY <1>1, <1>7 DEF Check, TypeInv, Placed, AnswerSteps
  <2>2. \A r \in Procs \ {p} : job'[r] = job[r]
    BY <1>1, <1>7, SettledShape, GotoIs DEF Check
  <2>3. OnceAt(p)'
    <3>1. CASE OutOfBand(s, ticks[TickOf[s]])
      BY <1>1, <1>7, <3>1, SettledShape DEF Check, OnceAt
    <3>2. CASE ~OutOfBand(s, ticks[TickOf[s]])
      <4>1. effects[s] = 0
        BY <2>1, <3>2 DEF OutOfBand, OnceInv
      <4> QED
        BY <1>1, <1>7, <2>1, <3>2, <4>1, GotoIs DEF Check, OnceAt
    <3> QED
      BY <3>1, <3>2
  <2> QED
    BY <1>1, <2>1, <2>2, <2>3, OnceSame
<1>8. ASSUME NEW p \in Procs, Read(p) PROVE OnceInv'
  <2> DEFINE s == job[p].q
             a == job[p].entry.res.answer
  <2>1. /\ s \in Questions /\ UNCHANGED <<ticks, effects>> /\ effects[s] = 0
        /\ ticks[TickOf[s]] \in TickFile /\ a \in Answers \cup {None}
    BY <1>1, <1>8, OperatorAssumption
       DEF Read, TypeInv, TypeOK, Placed, AnswerSteps, OnceInv, OnceAt, Job, Entry, Resolution
  <2>2. Kind[s] = "gate" => ~IsAwaitingHuman(WithAnswer(s, ticks[TickOf[s]], a))
    <3>1. AddNote(ticks[TickOf[s]], <<s, a>>) \in TickFile
      BY <2>1, AddNoteType DEF NoteLines
    <3> QED
      BY <3>1, DecideUnparks DEF WithAnswer, Verdict
  <2> QED
    BY <1>1, <1>8, <2>1, <2>2, ReadShape, OnceSame DEF OnceAt
<1>9. ASSUME NEW p \in Procs, Siblings(p) PROVE OnceInv'
  <2>1. /\ job[p].q \in Questions /\ UNCHANGED <<ticks, effects>> /\ effects[job[p].q] = 0
        /\ job[p].tick \in TickFile
    BY <1>1, <1>9 DEF Siblings, TypeInv, TypeOK, Placed, AnswerSteps, OnceInv, OnceAt, Job
  <2>2. ~OtherOpen(job[p].q)
    BY <2>1 DEF OtherOpen, Isolated
  <2> QED
    BY <1>1, <1>9, <2>1, <2>2, SiblingsShape, ClearUnparks, OnceSame DEF OnceAt
<1>10. ASSUME NEW p \in Procs, Write(p) PROVE OnceInv'
  <2> DEFINE s == job[p].q
  <2>1. /\ s \in Questions /\ TickOf[s] \in Ticks /\ effects[s] = 0
        /\ ~IsAwaitingHuman(job[p].tick) /\ lock = p
    BY <1>1, <1>10, OperatorAssumption
       DEF Write, TypeInv, Placed, AnswerSteps, OnceInv, OnceAt, BaseInv, LockHeld, Holding
  <2>2. ticks' = [ticks EXCEPT ![TickOf[s]] = job[p].tick] /\ effects' = [effects EXCEPT ![s] = 1]
    BY <1>1, <1>10, <2>1 DEF Write, WriteTick, TypeInv, TypeOK
  <2>3. \A q \in Questions :
          effects'[q] # 0 => effects'[q] = 1 /\ ~IsAwaitingHuman(ticks'[TickOf[q]])
    BY <1>1, <2>1, <2>2, OperatorAssumption DEF Isolated, OnceInv, TypeInv, TypeOK
  <2>4. (\A r \in Procs \ {p} : job'[r] = job[r]) /\ OnceAt(p)'
    BY <1>1, <1>10, GotoIs DEF Write, OnceAt
  <2> QED
    BY <1>1, <2>1, <2>3, <2>4, OnceStep
<1>11. ASSUME NEW p \in Procs, Mark(p) PROVE OnceInv'
  <2>1. UNCHANGED <<ticks, effects>>
    BY <1>1, <1>11 DEF Mark, Isolated, TypeInv, Placed, AnswerSteps
  <2> QED
    BY <1>1, <1>11, <2>1, MarkShape, OnceSame DEF OnceAt
<1> QED
  BY <1>2, <1>3, <1>4, <1>5, <1>6, <1>7, <1>8, <1>9, <1>10, <1>11, NextCases
     DEF Acts

LEMMA OnceInit == Init => OnceInv
<1> SUFFICES ASSUME Init PROVE OnceInv
  OBVIOUS
<1>1. \A p \in Procs : job[p].at = "idle"
  BY IdleType DEF Init
<1> QED
  BY BaseInit, <1>1 DEF Init, OnceInv, OnceAt

\* An answer takes effect at most once where no two questions share a tick,
\* whatever tk approve, tk reject, bridges and crashes do.
THEOREM TakesEffectOnce == ASSUME Isolated PROVE Spec => []AtMostOnce
<1>1. OnceInv /\ [Next]_vars => OnceInv'
  BY OnceNext
<1>2. OnceInv => AtMostOnce
  BY DEF OnceInv, AtMostOnce
<1> QED
  BY OnceInit, <1>1, <1>2, PTL DEF Spec

-----------------------------------------------------------------------------
(***************************************************************************)
(* The engine implements the question lifecycle of module Question: the    *)
(* write of Resolve settles a question, the tick write of Apply is the one *)
(* effect of its answer, and every other step is a stutter.                *)
(***************************************************************************)
LEMMA PromiseInit == Init => Promise!Init
  BY DEF Init, Promise!Init

LEMMA PromiseStep ==
  ASSUME NoBridges, Isolated, RecordedInv, OnceInv, Next
  PROVE  [Promise!Next]_(Promise!vars)
<1> USE DEF Promise!vars
<1>1. TypeInv
  BY DEF OnceInv, BaseInv
<1>2. ASSUME NEW p \in Procs, Record(p) PROVE [Promise!Next]_(Promise!vars)
  <2> DEFINE q == job[p].q
             r == job[p].entry.res
  <2>1. q \in Questions /\ r \in Resolution /\ r # Open /\ recorded[q] = Open
    BY <1>1, <1>2 DEF Record, TypeInv, TypeOK, Placed, AnswerSteps, RecordedInv, ResolutionAt,
       Job, Entry
  <2>2. recorded' = [recorded EXCEPT ![q] = r] /\ effects' = effects
    BY <1>2 DEF Record, WriteEntry
  <2>3. Promise!Settle(q, r)
    BY <2>1, <2>2 DEF Promise!Settle
  <2> QED
    BY <2>1, <2>3 DEF Promise!Next
<1>3. ASSUME NEW p \in Procs, Save(p) \/ Stamp(p) PROVE UNCHANGED <<recorded, effects>>
  <2> DEFINE q == job[p].q
  <2>1. q \in Questions /\ recorded[q] \in Resolution
    BY <1>1, <1>3 DEF Save, Stamp, TypeInv, TypeOK, Placed, AskSteps, AnswerSteps
  <2>2. CASE Save(p)
    <3>1. recorded[q] = Open
      BY <2>1, <2>2 DEF Save, RecordedInv, BaseInv, Fresh, Known, AskSteps
    <3>2. recorded' = [recorded EXCEPT ![q] = Open] /\ effects' = effects
      BY <2>2 DEF Save, WriteEntry, Asked, Missing
    <3> QED
      BY <1>1, <2>1, <3>1, <3>2 DEF TypeInv, TypeOK
  <2>3. CASE Stamp(p)
    <3>1. job[p].entry.res = recorded[q]
      BY <2>3 DEF Stamp, RecordedInv, ResolutionAt
    <3>2. recorded' = [recorded EXCEPT ![q] = job[p].entry.res] /\ effects' = effects
      BY <2>3 DEF Stamp, WriteEntry
    <3> QED
      BY <1>1, <2>1, <3>1, <3>2 DEF TypeInv, TypeOK
  <2> QED
    BY <1>3, <2>2, <2>3
<1>4. ASSUME NEW p \in Procs, Write(p) PROVE [Promise!Next]_(Promise!vars)
  <2> DEFINE q == job[p].q
  <2>1. q \in Questions /\ effects[q] = 0 /\ recorded[q].status = "answered"
    BY <1>1, <1>4 DEF Write, TypeInv, Placed, AnswerSteps, RecordedInv, ResolutionAt,
       OnceInv, OnceAt
  <2>2. effects' = [effects EXCEPT ![q] = 1] /\ recorded' = recorded
    BY <1>1, <1>4, <2>1 DEF Write, TypeInv, TypeOK
  <2>3. Promise!TakeEffect(q)
    BY <2>1, <2>2 DEF Promise!TakeEffect, Answered
  <2> QED
    BY <2>1, <2>3 DEF Promise!Next
<1>5. ASSUME NEW p \in Procs, Mark(p) \/ Deliver(p) PROVE UNCHANGED <<recorded, effects>>
  BY <1>1, <1>5 DEF Mark, Deliver, RecordedInv, ResolutionAt, Isolated, TypeInv, Placed, AnswerSteps
<1>6. ASSUME NEW p \in Procs,
             \/ Park(p) \/ \E q \in Questions : StartAsk(p, q)
             \/ Resolve(p) \/ \E q \in Questions, a \in Answers : StartAnswer(p, q, a)
             \/ Apply(p) \/ Check(p) \/ Read(p) \/ Siblings(p)
             \/ \E role \in {"collect", "await"} : StartCollect(p, role)
             \/ TakeNext(p) \/ Watch(p) \/ TimeOut(p) \/ Drain(p) \/ Finish(p)
             \/ \E t \in Ticks, verdict \in Verdict : StartVerdict(p, t, verdict)
             \/ \E q \in Questions : StartDeliver(p, q)
             \/ WriteVerdict(p) \/ Fail(p)
      PROVE  UNCHANGED <<recorded, effects>>
  BY <1>6
     DEF StartAsk, Park, StartAnswer, Resolve, Apply, Check, Read, Siblings, StartCollect,
         TakeNext, Watch, TimeOut, Drain, Finish, StartVerdict, WriteVerdict, StartDeliver, Fail
<1>7. PICK p \in Procs : Acts(p)
  BY NextCases
<1> QED
  BY <1>2, <1>3, <1>4, <1>5, <1>6, <1>7 DEF Acts

\* Where no bridge runs and no two questions share a tick, the engine implements
\* the lifecycle Question promises.
THEOREM ImplementsPromise == ASSUME NoBridges, Isolated PROVE Spec => ImplementsQuestion
<1>1. RecordedInv /\ [Next]_vars => RecordedInv'
  BY RecordedNext
<1>2. OnceInv /\ [Next]_vars => OnceInv'
  BY OnceNext
<1>3. RecordedInv /\ OnceInv /\ [Next]_vars => [Promise!Next]_(Promise!vars)
  BY PromiseStep DEF vars, Promise!vars
<1> QED
  BY RecordedInit, OnceInit, PromiseInit, <1>1, <1>2, <1>3, PTL
     DEF Spec, ImplementsQuestion, Promise!Spec

-----------------------------------------------------------------------------
(***************************************************************************)
(* What is written on a tick.  Whoever writes a tick, and however old the  *)
(* copy that it writes, the notes on it are answers that were recorded: a  *)
(* note is made only of what the lock has shown to be recorded, and that   *)
(* is never replaced while no bridge runs.                                 *)
(***************************************************************************)
Right(t, notes, outcome) ==
  \A i \in DOMAIN notes : \A q \in Questions, a \in Answers :
    notes[i] = <<q, a>> => TickOf[q] = t /\ outcome[q] = Answer(a)

NoteInv ==
  /\ RecordedInv
  /\ \A t \in Ticks : Right(t, ticks[t].notes, recorded)
  /\ \A p \in Procs :
       /\ job[p].at \in {"park", "siblings", "write"} =>
            Right(TickOf[job[p].q], job[p].tick.notes, recorded)
       /\ job[p].at = "verdict" => Right(job[p].on, job[p].tick.notes, recorded)

LEMMA RightAdd ==
  ASSUME NEW t, NEW notes \in Seq(NoteLines), NEW outcome, NEW line \in NoteLines,
         Right(t, notes, outcome),
         \A q \in Questions, a \in Answers :
           line = <<q, a>> => TickOf[q] = t /\ outcome[q] = Answer(a)
  PROVE  Right(t, Append(notes, line), outcome)
<1> DEFINE more == Append(notes, line)
<1>1. /\ DOMAIN more = 1..Len(notes) + 1 /\ DOMAIN notes = 1..Len(notes) /\ Len(notes) \in Nat
      /\ more[Len(notes) + 1] = line
      /\ \A i \in 1..Len(notes) : more[i] = notes[i]
  OBVIOUS
<1>2. \A i \in DOMAIN more : i \in DOMAIN notes \/ i = Len(notes) + 1
  BY <1>1
<1> HIDE DEF more
<1>3. Right(t, more, outcome)
  <2> SUFFICES ASSUME NEW i \in DOMAIN more, NEW q \in Questions, NEW a \in Answers,
                      more[i] = <<q, a>>
               PROVE  TickOf[q] = t /\ outcome[q] = Answer(a)
    BY DEF Right
  <2>1. CASE i \in DOMAIN notes
    <3>1. notes[i] = <<q, a>>
      BY <1>1, <2>1
    <3> QED
      BY <2>1, <3>1 DEF Right
  <2>2. CASE i = Len(notes) + 1
    BY <1>1, <2>2
  <2> QED
    BY <1>2, <2>1, <2>2
<1> QED
  BY <1>3 DEF more

LEMMA RightStays ==
  ASSUME NEW t, NEW notes, NEW outcome, NEW later, Right(t, notes, outcome),
         \A q \in Questions : later[q] = outcome[q] \/ outcome[q] = Open
  PROVE  Right(t, notes, later)
<1>1. \A a : Answer(a) # Open
  BY DEF Answer, Open
<1> QED
  BY <1>1 DEF Right

\* A verdict, a park and an unpark leave the notes alone; an answer adds one.
LEMMA NotesOf ==
  ASSUME NEW t \in TickFile
  PROVE  /\ t.notes \in Seq(NoteLines)
         /\ \A v : SetAwaiting(t, v).notes = t.notes
         /\ ClearAwaiting(t).notes = t.notes
         /\ \A line : AddNote(t, line).notes = Append(t.notes, line)
<1>1. \A v : SetAwaiting(t, v).notes = t.notes
  BY DEF SetAwaiting, TickFile, TickRecord
<1> QED
  BY <1>1 DEF ClearAwaiting, AddNote, TickFile, TickRecord

LEMMA DecideNotes ==
  ASSUME NEW t \in TickFile, NEW v \in Verdict
  PROVE  Decide(t, v).notes = t.notes
<1> DEFINE n == NormalizeManual(t)
           d == [n EXCEPT !.verdict = v]
<1>1. n \in TickFile /\ n.notes = t.notes
  BY SetAwaitingType, NotesOf DEF NormalizeManual, Awaiting
<1>2. d \in TickFile /\ d.notes = t.notes
  BY <1>1 DEF TickFile, TickRecord
<1> HIDE DEF d
<1> DEFINE c == ClearAwaiting(d)
<1>3. c \in TickFile /\ c.notes = t.notes
  BY <1>2, NotesOf, ClearAwaitingType
<1>4. \/ ProcessVerdict(d) = d
      \/ \E verdict, status, closedAt :
           ProcessVerdict(d) = [c EXCEPT !.verdict = verdict, !.status = status,
                                         !.closedAt = closedAt]
  BY DEF ProcessVerdict
<1> HIDE DEF c
<1>5. ProcessVerdict(d).notes = t.notes
  BY <1>2, <1>3, <1>4 DEF TickFile, TickRecord
<1> QED
  BY <1>5 DEF Decide, d

LEMMA WithAnswerNotes ==
  ASSUME NEW q \in Questions, NEW t \in TickFile, NEW a \in Answers \cup {None}
  PROVE  WithAnswer(q, t, a).notes = Append(t.notes, <<q, a>>)
<1>1. /\ AddNote(t, <<q, a>>) \in TickFile
      /\ AddNote(t, <<q, a>>).notes = Append(t.notes, <<q, a>>)
  BY AddNoteType, NotesOf DEF NoteLines
<1> QED
  BY <1>1, DecideNotes DEF WithAnswer, Verdict

\* The steps that write no tick, and whose process is not about to.
LEMMA AsideShape ==
  ASSUME TypeInv, NEW p \in Procs,
         \/ Save(p) \/ Resolve(p) \/ Record(p)
         \/ \E q \in Questions, a \in Answers : StartAnswer(p, q, a)
         \/ Apply(p) \/ Check(p) \/ Mark(p) \/ Stamp(p)
         \/ \E role \in {"collect", "await"} : StartCollect(p, role)
         \/ TakeNext(p) \/ Watch(p) \/ TimeOut(p) \/ Drain(p) \/ Finish(p)
         \/ \E q \in Questions : StartDeliver(p, q)
         \/ Deliver(p) \/ Fail(p)
  PROVE  /\ ticks' = ticks /\ \A r \in Procs \ {p} : job'[r] = job[r]
         /\ job'[p].at \notin {"park", "save", "siblings", "write", "verdict"}
<1>1. ticks' = ticks
  BY DEF Save, Resolve, Record, StartAnswer, Apply, Check, Mark, Stamp, StartCollect,
     TakeNext, Watch, TimeOut, Drain, Finish, StartDeliver, Deliver, Fail
<1> SUFFICES /\ \A r \in Procs \ {p} : job'[r] = job[r]
             /\ job'[p].at \notin {"park", "save", "siblings", "write", "verdict"}
  BY <1>1
<1>2. CASE \/ \E q \in Questions : StartDeliver(p, q)
           \/ \E q \in Questions, a \in Answers : StartAnswer(p, q, a)
           \/ \E role \in {"collect", "await"} : StartCollect(p, role)
  BY <1>2, StartShape DEF StartStep
<1>3. CASE Save(p) \/ TimeOut(p) \/ Drain(p) \/ Finish(p) \/ Deliver(p) \/ Fail(p)
  BY <1>3, BecomeIs, IdleType, SkippedType DEF Save, TimeOut, Drain, Finish, Deliver, Fail
<1>4. CASE Resolve(p) \/ Apply(p)
  BY <1>4, ResolveShape, ApplyShape
<1>5. CASE Record(p)
  BY <1>5, GotoIs DEF Record
<1>6. CASE Check(p)
  BY <1>6, GotoIs, SettledShape DEF Check
<1>7. CASE Mark(p)
  BY <1>7, MarkShape
<1>8. CASE Stamp(p)
  BY <1>8, SettledShape DEF Stamp
<1>9. CASE TakeNext(p)
  BY <1>9, TakeNextShape
<1>10. CASE Watch(p)
  BY <1>10, WatchShape
<1> QED
  BY <1>2, <1>3, <1>4, <1>5, <1>6, <1>7, <1>8, <1>9, <1>10

LEMMA NoteStep ==
  ASSUME NoteInv, RecordedInv', NEW p \in Procs,
         \A q \in Questions : recorded'[q] = recorded[q] \/ recorded[q] = Open,
         \A r \in Procs \ {p} : job'[r] = job[r],
         \A t \in Ticks : ticks'[t] = ticks[t] \/ Right(t, ticks'[t].notes, recorded),
         job'[p].at \in {"park", "siblings", "write"} =>
           Right(TickOf[job'[p].q], job'[p].tick.notes, recorded),
         job'[p].at = "verdict" => Right(job'[p].on, job'[p].tick.notes, recorded)
  PROVE  NoteInv'
<1>1. \A t \in Ticks : Right(t, ticks'[t].notes, recorded')
  <2>1. \A t \in Ticks : Right(t, ticks'[t].notes, recorded)
    BY DEF NoteInv
  <2> QED
    BY <2>1, RightStays
<1>2. ASSUME NEW r \in Procs
      PROVE  /\ job'[r].at \in {"park", "siblings", "write"} =>
                  Right(TickOf[job'[r].q], job'[r].tick.notes, recorded')
             /\ job'[r].at = "verdict" => Right(job'[r].on, job'[r].tick.notes, recorded')
  <2>1. /\ job'[r].at \in {"park", "siblings", "write"} =>
             Right(TickOf[job'[r].q], job'[r].tick.notes, recorded)
        /\ job'[r].at = "verdict" => Right(job'[r].on, job'[r].tick.notes, recorded)
    BY DEF NoteInv
  <2> QED
    BY <2>1, RightStays
<1> QED
  BY <1>1, <1>2 DEF NoteInv

\* The answer that is written is the recorded one.
LEMMA AnswerRecorded ==
  ASSUME RecordedInv, NEW p \in Procs, job[p].at \in {"read", "siblings", "write"}
  PROVE  /\ job[p].q \in Questions /\ TickOf[job[p].q] \in Ticks
         /\ ticks[TickOf[job[p].q]] \in TickFile /\ job[p].tick \in TickFile
         /\ job[p].entry.res = recorded[job[p].q]
         /\ recorded[job[p].q].answer \in Answers
         /\ recorded[job[p].q] = Answer(recorded[job[p].q].answer)
<1>1. TypeInv /\ ResolutionAt(p)
  BY DEF RecordedInv, BaseInv
<1>2. /\ job[p].q \in Questions /\ TickOf[job[p].q] \in Ticks
      /\ ticks[TickOf[job[p].q]] \in TickFile /\ job[p].tick \in TickFile
      /\ recorded[job[p].q] \in Resolution
  BY <1>1, OperatorAssumption DEF TypeInv, TypeOK, Placed, AnswerSteps, Job
<1>3. job[p].entry.res = recorded[job[p].q] /\ recorded[job[p].q].status = "answered"
  BY <1>1 DEF ResolutionAt
<1>4. /\ recorded[job[p].q].answer \in Answers
      /\ recorded[job[p].q] = Answer(recorded[job[p].q].answer)
  BY <1>2, <1>3 DEF Resolution, Answer
<1> QED
  BY <1>2, <1>3, <1>4

LEMMA NoteNext ==
  ASSUME NoBridges
  PROVE  NoteInv /\ [Next]_vars => NoteInv'
<1> SUFFICES ASSUME NoteInv, [Next]_vars PROVE NoteInv'
  OBVIOUS
<1> USE DEF Moved
<1>1. RecordedInv /\ RecordedInv' /\ TypeInv
  BY RecordedNext DEF NoteInv, RecordedInv, BaseInv
<1>2. CASE UNCHANGED vars
  BY <1>1, <1>2 DEF vars, NoteInv
<1>3. Next => \A q \in Questions : recorded'[q] = recorded[q] \/ recorded[q] = Open
  BY <1>1, RecordedNext DEF FirstOnly
<1>4. ASSUME NEW p \in Procs, Next,
             \/ Save(p) \/ Resolve(p) \/ Record(p)
             \/ \E q \in Questions, a \in Answers : StartAnswer(p, q, a)
             \/ Apply(p) \/ Check(p) \/ Mark(p) \/ Stamp(p)
             \/ \E role \in {"collect", "await"} : StartCollect(p, role)
             \/ TakeNext(p) \/ Watch(p) \/ TimeOut(p) \/ Drain(p) \/ Finish(p)
             \/ \E q \in Questions : StartDeliver(p, q)
             \/ Deliver(p) \/ Fail(p)
      PROVE  NoteInv'
  BY <1>1, <1>3, <1>4, AsideShape, NoteStep
<1>5. ASSUME NEW p \in Procs, Next, NEW q \in Questions, StartAsk(p, q) PROVE NoteInv'
  <2>1. /\ job'[p].at \in AskSteps /\ job'[p].q = q
        /\ job'[p].tick = SetAwaiting(ticks[TickOf[q]], AwaitingOf(q))
        /\ \A r \in Procs \ {p} : job'[r] = job[r]
    BY <1>1, <1>5, StartShape DEF StartStep
  <2>2. ticks' = ticks /\ TickOf[q] \in Ticks /\ ticks[TickOf[q]] \in TickFile
    BY <1>1, <1>5, OperatorAssumption DEF StartAsk, TypeInv, TypeOK
  <2>3. Right(TickOf[q], job'[p].tick.notes, recorded)
    BY <2>1, <2>2, NotesOf DEF NoteInv
  <2> QED
    BY <1>1, <1>3, <1>5, <2>1, <2>2, <2>3, NoteStep DEF AskSteps
<1>6. ASSUME NEW p \in Procs, Next, Park(p) \/ Write(p) PROVE NoteInv'
  <2>1. /\ job'[p].at \in {"save", "mark"} /\ \A r \in Procs \ {p} : job'[r] = job[r]
    BY <1>1, <1>6, GotoIs DEF Park, Write
  <2>2. /\ ticks' = [ticks EXCEPT ![TickOf[job[p].q]] = job[p].tick]
        /\ Right(TickOf[job[p].q], job[p].tick.notes, recorded)
    BY <1>6 DEF Park, Write, WriteTick, NoteInv
  <2>3. \A t \in Ticks : ticks'[t] = ticks[t] \/ Right(t, ticks'[t].notes, recorded)
    BY <1>1, <2>2 DEF TypeInv, TypeOK
  <2> QED
    BY <1>1, <1>3, <1>6, <2>1, <2>3, NoteStep
<1>7. ASSUME NEW p \in Procs, Next, WriteVerdict(p) PROVE NoteInv'
  <2>1. job'[p].at = "idle" /\ \A r \in Procs \ {p} : job'[r] = job[r]
    BY <1>1, <1>7, BecomeIs, IdleType DEF WriteVerdict
  <2>2. /\ ticks' = [ticks EXCEPT ![job[p].on] = job[p].tick]
        /\ Right(job[p].on, job[p].tick.notes, recorded)
    BY <1>7 DEF WriteVerdict, WriteTick, NoteInv
  <2>3. \A t \in Ticks : ticks'[t] = ticks[t] \/ Right(t, ticks'[t].notes, recorded)
    BY <1>1, <2>2 DEF TypeInv, TypeOK
  <2> QED
    BY <1>1, <1>3, <1>7, <2>1, <2>3, NoteStep
<1>8. ASSUME NEW p \in Procs, Next, Read(p) PROVE NoteInv'
  <2> DEFINE q == job[p].q
             a == job[p].entry.res.answer
  <2>1. /\ q \in Questions /\ TickOf[q] \in Ticks /\ ticks[TickOf[q]] \in TickFile
        /\ a \in Answers /\ recorded[q] = Answer(a)
    BY <1>1, <1>8, AnswerRecorded DEF Read
  <2>2. <<q, a>> \in NoteLines
    BY <2>1 DEF NoteLines
  <2>3. Right(TickOf[q], WithAnswer(q, ticks[TickOf[q]], a).notes, recorded)
    <3>1. /\ ticks[TickOf[q]].notes \in Seq(NoteLines)
          /\ Right(TickOf[q], ticks[TickOf[q]].notes, recorded)
      BY <2>1, NotesOf DEF NoteInv
    <3>2. Right(TickOf[q], Append(ticks[TickOf[q]].notes, <<q, a>>), recorded)
      <4> HIDE DEF q, a
      <4> QED
        BY <2>1, <2>2, <3>1, RightAdd
    <3> QED
      BY <2>1, <3>2, WithAnswerNotes
  <2>4. ticks' = ticks
    BY <1>8 DEF Read
  <2>5. /\ \A r \in Procs \ {p} : job'[r] = job[r]
        /\ job'[p].at # "park" /\ job'[p].at # "verdict"
        /\ job'[p].at \in {"siblings", "write"} =>
             job'[p].q = q /\ job'[p].tick = WithAnswer(q, ticks[TickOf[q]], a)
    BY <1>1, <1>8, ReadShape
  <2> HIDE DEF q, a
  <2> QED
    BY <1>1, <1>3, <1>8, <2>3, <2>4, <2>5, NoteStep
<1>9. ASSUME NEW p \in Procs, Next, Siblings(p) PROVE NoteInv'
  <2>1. /\ ticks' = ticks /\ job[p].tick \in TickFile
        /\ Right(TickOf[job[p].q], job[p].tick.notes, recorded)
    BY <1>1, <1>9, AnswerRecorded DEF Siblings, NoteInv
  <2>2. /\ \A r \in Procs \ {p} : job'[r] = job[r]
        /\ job'[p].at = "write" /\ job'[p].q = job[p].q
        /\ job'[p].tick.notes = job[p].tick.notes
    BY <1>1, <1>9, <2>1, SiblingsShape, NotesOf
  <2> QED
    BY <1>1, <1>3, <1>9, <2>1, <2>2, NoteStep
<1>10. ASSUME NEW p \in Procs, Next, NEW t \in Ticks, NEW v \in Verdict, StartVerdict(p, t, v)
       PROVE  NoteInv'
  <2> DEFINE line == <<"human", "feedback">>
             noted == IF v = "rejected" THEN AddNote(ticks[t], line) ELSE ticks[t]
  <2>1. ticks' = ticks /\ ticks[t] \in TickFile /\ Right(t, ticks[t].notes, recorded)
    BY <1>1, <1>10 DEF StartVerdict, TypeInv, TypeOK, NoteInv
  <2>2. line \in NoteLines /\ \A q \in Questions, a \in Answers : line # <<q, a>>
    BY DEF NoteLines, Answers, Buttons, Texts
  <2>3. noted \in TickFile /\ Right(t, noted.notes, recorded)
    <3> HIDE DEF line
    <3>1. ticks[t].notes \in Seq(NoteLines) /\ AddNote(ticks[t], line) \in TickFile
          /\ AddNote(ticks[t], line).notes = Append(ticks[t].notes, line)
      BY <2>1, <2>2, NotesOf, AddNoteType
    <3>2. Right(t, Append(ticks[t].notes, line), recorded)
      BY <2>1, <2>2, <3>1, RightAdd
    <3> QED
      BY <2>1, <3>1, <3>2
  <2>4. /\ job'[p].at = "verdict" /\ job'[p].on = t /\ job'[p].tick = Decide(noted, v)
        /\ \A r \in Procs \ {p} : job'[r] = job[r]
    BY <1>1, <1>10, StartShape DEF StartStep, Verdict
  <2> HIDE DEF noted
  <2>5. Right(t, job'[p].tick.notes, recorded)
    BY <2>3, <2>4, DecideNotes
  <2> QED
    BY <1>1, <1>3, <1>10, <2>1, <2>4, <2>5, NoteStep
<1> QED
  BY <1>2, <1>4, <1>5, <1>6, <1>7, <1>8, <1>9, <1>10, NextCases DEF Acts

\* Only the recorded answer of a question is ever noted, and only on its own tick,
\* as long as no bridge runs: for any mix of tk ask, tk answer, collectors, tk
\* approve and tk reject, with copies as old as they come, and any crashes.
THEOREM NotesAreTrue == ASSUME NoBridges PROVE Spec => []NotesAreAnswers
<1>1. Init => NoteInv
  <2> SUFFICES ASSUME Init PROVE NoteInv
    OBVIOUS
  <2>1. \A t \in Ticks : ticks[t].notes = <<>>
    BY DEF Init, NewTick
  <2>2. \A t \in Ticks : Right(t, ticks[t].notes, recorded)
    BY <2>1 DEF Right
  <2> QED
    BY RecordedInit, IdleType, <2>2 DEF Init, NoteInv
<1>2. NoteInv => NotesAreAnswers
  BY DEF NoteInv, NotesAreAnswers, Right
<1> QED
  BY <1>1, <1>2, NoteNext, PTL DEF Spec

-----------------------------------------------------------------------------
(***************************************************************************)
(* A question and its tick.  No bridge runs, no two questions share a      *)
(* tick; people may decide the shared ticks on their own.  The tick of a   *)
(* question that the engine alone handles is parked for it before it is    *)
(* saved, and stays so until its answer takes effect; from then on it      *)
(* waits for nobody.  So the tick tells what the store says of the         *)
(* question, and whoever gives a question up has seen its tick unparked.   *)
(***************************************************************************)
Unshared(q) == TickOf[q] \notin Shared
TickFor(q)  == ticks[TickOf[q]]
Parks(q)    == ~OutOfBand(q, TickFor(q))
Waits(q)    == IsAwaitingHuman(TickFor(q))

ParkOf(q) ==
  /\ ~WasSaved(q) => TickFor(q).status # "closed"
  /\ WasSaved(q) => Parks(q) \/ ~Waits(q)
  /\ IsOpen(store[q]) => Parks(q)
  /\ WasSaved(q) /\ ~store[q].there => ~Waits(q)
  /\ recorded[q].status = "cancelled" => ~Waits(q)

ParkAt(p) ==
  LET at == job[p].at  q == job[p].q IN
  /\ at = "park" => ~OutOfBand(q, job[p].tick)
  /\ at \in {"save", "read", "siblings", "write"} => Parks(q)
  /\ at = "drain" => ~Waits(q)
  /\ at \in {"resolve", "record"} =>
       ~Waits(q) \/ (job[p].role = "answer" /\ job[p].entry.res.status = "answered")

\* The steps at which ParkAt says something.
ParkSteps == {"park", "save", "read", "siblings", "write", "drain", "resolve", "record"}

ParkInv ==
  /\ RecordedInv /\ OnceInv /\ StampInv
  /\ \A q \in Questions : Unshared(q) => ParkOf(q)
  /\ \A p \in Procs : job[p].at \in ParkSteps /\ Unshared(job[p].q) => ParkAt(p)
  /\ \A p \in Procs : job[p].at = "verdict" => job[p].on \in Shared

\* An unparked tick stands for no question.
LEMMA UnparkedIsOut == \A q \in Questions : Parks(q) => Waits(q)
  BY DEF Parks, Waits, OutOfBand

\* Steps that write no tick: what they make of the entry of a question, and of
\* their process, must fit the tick as it is.
LEMMA ParkSame ==
  ASSUME ParkInv, RecordedInv', OnceInv', StampInv', NEW p \in Procs,
         ticks' = ticks,
         \A r \in Procs \ {p} : job'[r] = job[r],
         \A q \in Questions : Unshared(q) => ParkOf(q)',
         job'[p].at \in ParkSteps /\ Unshared(job'[p].q) => ParkAt(p)',
         job'[p].at = "verdict" => job'[p].on \in Shared
  PROVE  ParkInv'
<1> SUFFICES ASSUME NEW r \in Procs \ {p}, job'[r].at \in ParkSteps, Unshared(job'[r].q)
             PROVE  ParkAt(r)'
  BY DEF ParkInv, Unshared
<1>1. job'[r] = job[r] /\ ParkAt(r)
  BY DEF ParkInv
<1> QED
  BY <1>1 DEF ParkAt, Parks, Waits, TickFor

\* Those among them that write no entry either.
LEMMA ParkAside ==
  ASSUME ParkInv, RecordedInv', OnceInv', StampInv', NEW p \in Procs,
         UNCHANGED <<ticks, store, created, recorded>>,
         \A r \in Procs \ {p} : job'[r] = job[r],
         job'[p].at \in ParkSteps /\ Unshared(job'[p].q) => ParkAt(p)',
         job'[p].at = "verdict" => job'[p].on \in Shared
  PROVE  ParkInv'
<1>1. \A q \in Questions : Unshared(q) => ParkOf(q)'
  BY DEF ParkInv, ParkOf, Parks, Waits, TickFor, WasSaved
<1> QED
  BY <1>1, ParkSame

\* A step that writes one tick, as the tick of the question it works on.
LEMMA ParkWrite ==
  ASSUME ParkInv, RecordedInv', OnceInv', StampInv', Isolated, NEW p \in Procs,
         NEW s \in Questions, UNCHANGED <<store, created, recorded>>,
         WriteTick(TickOf[s], job[p].tick),
         \A r \in Procs \ {p} : job'[r] = job[r],
         \A r \in Procs \ {p} : job'[r].at \in ParkSteps => job'[r].q # s \/ ParkAt(r)',
         Unshared(s) => ParkOf(s)',
         job'[p].at \in ParkSteps /\ Unshared(job'[p].q) => ParkAt(p)',
         job'[p].at # "verdict"
  PROVE  ParkInv'
<1>1. TypeInv
  BY DEF ParkInv, RecordedInv, BaseInv
<1>2. TickOf[s] \in Ticks /\ TickOf \in [Questions -> Ticks]
  BY OperatorAssumption
<1>3. \A q \in Questions \ {s} : TickFor(q)' = TickFor(q)
  <2>1. \A q \in Questions \ {s} : TickOf[q] # TickOf[s]
    BY DEF Isolated
  <2> QED
    BY <1>1, <1>2, <2>1 DEF WriteTick, TypeInv, TypeOK, TickFor
<1>4. \A q \in Questions \ {s} : (Parks(q)' <=> Parks(q)) /\ (Waits(q)' <=> Waits(q))
  BY <1>3 DEF Parks, Waits
<1>5. ASSUME NEW q \in Questions \ {s}, Unshared(q) PROVE ParkOf(q)'
  BY <1>3, <1>4, <1>5 DEF ParkInv, ParkOf, WasSaved
<1>6. ASSUME NEW r \in Procs \ {p}, job'[r].at \in ParkSteps, Unshared(job'[r].q)
      PROVE  ParkAt(r)'
  <2>1. job'[r] = job[r] /\ ParkAt(r) /\ job[r].q \in Questions
    BY <1>1, <1>6 DEF ParkInv, TypeInv, Placed, ParkSteps, AskSteps, AnswerSteps
  <2>2. CASE job[r].q = s
    BY <1>6, <2>1, <2>2
  <2>3. CASE job[r].q # s
    <3> DEFINE q == job[r].q
    <3>1. (Parks(q) <=> ~OutOfBand(q, TickFor(q))) /\ (Waits(q) <=> IsAwaitingHuman(TickFor(q)))
      BY DEF Parks, Waits
    <3>2. TickFor(q)' = TickFor(q)
      BY <1>3, <2>1, <2>3 DEF TickFor
    <3> QED
      BY <1>3, <2>1, <2>3 DEF ParkAt, Parks, Waits, TickFor
  <2> QED
    BY <2>2, <2>3
<1> QED
  BY <1>5, <1>6 DEF ParkInv, Unshared

\* Nothing but a shared tick is written by a person.
LEMMA ParkVerdict ==
  ASSUME ParkInv, RecordedInv', OnceInv', StampInv', NEW p \in Procs, WriteVerdict(p)
  PROVE  ParkInv'
<1>1. TypeInv
  BY DEF ParkInv, RecordedInv, BaseInv
<1>2. job[p].on \in Shared /\ job[p].on \in Ticks
  BY <1>1 DEF WriteVerdict, ParkInv, TypeInv, Placed
<1>3. /\ UNCHANGED <<store, created, recorded>>
      /\ WriteTick(job[p].on, job[p].tick)
      /\ job'[p].at = "idle" /\ \A r \in Procs \ {p} : job'[r] = job[r]
  BY <1>1, BecomeIs, IdleType DEF WriteVerdict
<1>4. \A q \in Questions :
        Unshared(q) => ticks'[TickOf[q]] = ticks[TickOf[q]]
  BY <1>1, <1>2, <1>3, OperatorAssumption DEF WriteTick, TypeInv, TypeOK, Unshared
<1>5. ASSUME NEW q \in Questions, Unshared(q) PROVE ParkOf(q)'
  BY <1>3, <1>4, <1>5 DEF ParkInv, ParkOf, Parks, Waits, TickFor, WasSaved
<1>6. ASSUME NEW r \in Procs, job'[r].at \in ParkSteps, Unshared(job'[r].q)
      PROVE  ParkAt(r)'
  <2>1. job'[r] = job[r] /\ ParkAt(r) /\ job[r].q \in Questions
    BY <1>1, <1>3, <1>6
       DEF ParkInv, TypeInv, Placed, ParkSteps, AskSteps, AnswerSteps
  <2> QED
    BY <1>4, <1>6, <2>1 DEF ParkAt, Parks, Waits, TickFor
<1>7. \A r \in Procs : job'[r].at = "verdict" => job'[r].on \in Shared
  BY <1>3 DEF ParkInv
<1> QED
  BY <1>5, <1>6, <1>7 DEF ParkInv, Unshared

LEMMA SetAwaitingParks ==
  ASSUME NEW q \in Questions, NEW t \in TickFile, t.status # "closed"
  PROVE  ~OutOfBand(q, SetAwaiting(t, AwaitingOf(q)))
<1> DEFINE held == SetAwaiting(t, AwaitingOf(q))
<1>1. held.status # "closed" /\ held.awaiting = AwaitingOf(q)
  BY DEF SetAwaiting, TickFile, TickRecord
<1>2. AwaitingOf(q) # None
  BY DEF AwaitingOf, None
<1> HIDE DEF held
<1>3. ~OutOfBand(q, held)
  BY <1>1, <1>2 DEF OutOfBand, IsAwaitingHuman, GetAwaitingType
<1> QED
  BY <1>3 DEF held

LEMMA AppendSaves ==
  ASSUME NEW s \in Questions, created \in Seq(Questions), created' = Append(created, s)
  PROVE  \A x : WasSaved(x)' <=> (WasSaved(x) \/ x = s)
<1>1. /\ DOMAIN created' = 1..Len(created) + 1 /\ DOMAIN created = 1..Len(created)
      /\ Len(created) \in Nat
      /\ created'[Len(created) + 1] = s
      /\ \A i \in 1..Len(created) : created'[i] = created[i]
  OBVIOUS
<1>2. 1..Len(created) + 1 = 1..Len(created) \cup {Len(created) + 1}
  BY <1>1
<1> QED
  BY <1>1, <1>2 DEF WasSaved

\* What an effect leaves.
LEMMA EffectUnparks ==
  ASSUME StampInv, OnceInv, NEW q \in Questions
  PROVE  effects[q] >= 1 \/ store[q].applied => ~Waits(q)
BY DEF StampInv, OnceInv, Waits, TickFor

LEMMA ParkAsk ==
  ASSUME ParkInv, RecordedInv', OnceInv', StampInv', Isolated, NEW p \in Procs,
         Park(p) \/ Save(p) \/ \E q \in Questions : StartAsk(p, q)
  PROVE  ParkInv'
<1>1. TypeInv /\ BaseInv /\ Known /\ Fresh
  BY DEF ParkInv, RecordedInv, BaseInv
<1>2. ASSUME NEW q \in Questions, StartAsk(p, q) PROVE ParkInv'
  <2>1. /\ UNCHANGED <<ticks, store, created, recorded>>
        /\ job[p].at = "idle" /\ ~WasSaved(q)
    BY <1>2 DEF StartAsk, WasSaved
  <2>2. /\ job'[p].at = "park" /\ job'[p].q = q
        /\ job'[p].tick = SetAwaiting(TickFor(q), AwaitingOf(q))
        /\ \A r \in Procs \ {p} : job'[r] = job[r]
    BY <1>1, <1>2, StartShape
       DEF StartStep, StartAsk, Become, Idle, Isolated, TickFor, TypeInv, TypeOK
  <2>3. TickFor(q) \in TickFile
    BY <1>1, OperatorAssumption DEF TickFor, TypeInv, TypeOK
  <2>4. Unshared(q) => ~OutOfBand(q, job'[p].tick)
    BY <2>1, <2>2, <2>3, SetAwaitingParks DEF ParkInv, ParkOf
  <2> QED
    BY <2>1, <2>2, <2>4, ParkAside DEF ParkAt
<1>3. CASE Park(p)
  <2> PICK s \in Questions : job[p].q = s
    BY <1>1, <1>3 DEF Park, TypeInv, Placed, AskSteps
  <2>1. /\ TickOf[s] \in Ticks /\ ~WasSaved(s)
        /\ recorded[s] = Open /\ ~store[s].there
    BY <1>1, <1>3, OperatorAssumption DEF Park, Fresh, Known, AskSteps
  <2>2. /\ UNCHANGED <<store, created, recorded>> /\ WriteTick(TickOf[s], job[p].tick)
        /\ job'[p].at = "save" /\ job'[p].q = s /\ \A r \in Procs \ {p} : job'[r] = job[r]
    BY <1>1, <1>3, GotoIs DEF Park
  <2>3. \A r \in Procs \ {p} : job'[r].at \in ParkSteps => job'[r].q # s
    <3>1. \A r \in Procs \ {p} : job[r].at \in AskSteps => job[r].q # s
      BY <1>1, <1>3 DEF Park, Fresh, AskSteps
    <3>2. \A r \in Procs \ {p} : job[r].at \in AnswerSteps => job[r].q # s
      BY <1>1, <2>1 DEF Known
    <3> QED
      BY <2>2, <3>1, <3>2 DEF ParkSteps, AskSteps, AnswerSteps
  <2>4. TickFor(s)' = job[p].tick
    BY <1>1, <2>1, <2>2 DEF WriteTick, TickFor, TypeInv, TypeOK
  <2>5. Unshared(s) => ~OutOfBand(s, job[p].tick)
    BY <1>3 DEF Park, ParkInv, ParkAt, ParkSteps
  <2>6. Unshared(s) => Parks(s)' /\ TickFor(s)'.status # "closed"
    BY <2>4, <2>5 DEF Parks, OutOfBand
  <2>7. ~WasSaved(s)' /\ ~IsOpen(store'[s]) /\ recorded'[s].status = "open"
    BY <2>1, <2>2 DEF WasSaved, IsOpen, Open
  <2>9. Unshared(s) => ParkOf(s)'
    BY <2>6, <2>7 DEF ParkOf, TickFor
  <2>10. Unshared(job'[p].q) => ParkAt(p)'
    BY <2>2, <2>6 DEF ParkAt, Parks, TickFor
  <2> QED
    BY <2>1, <2>2, <2>3, <2>9, <2>10, ParkWrite
<1>4. CASE Save(p)
  <2> PICK s \in Questions : job[p].q = s
    BY <1>1, <1>4 DEF Save, TypeInv, Placed, AskSteps
  <2>1. ~WasSaved(s) /\ recorded[s] = Open
    BY <1>1, <1>4 DEF Save, Fresh, Known, AskSteps
  <2>2. /\ ticks' = ticks /\ WriteEntry(s, Asked)
        /\ job'[p].at = "idle" /\ \A r \in Procs \ {p} : job'[r] = job[r]
    BY <1>1, <1>4, BecomeIs, IdleType DEF Save
  <2>3. \A x : WasSaved(x)' <=> (WasSaved(x) \/ x = s)
    BY <1>1, <1>4, <2>1, AppendSaves DEF Save, TypeInv, TypeOK
  <2>4. \A q \in Questions \ {s} : store'[q] = store[q] /\ recorded'[q] = recorded[q]
    BY <1>1, <2>2 DEF WriteEntry, TypeInv, TypeOK
  <2>5. store'[s].there /\ recorded'[s].status = "open"
    BY <1>1, <2>1, <2>2 DEF WriteEntry, Asked, Missing, Open, TypeInv, TypeOK
  <2>6. \A q \in Questions : (Parks(q)' <=> Parks(q)) /\ (Waits(q)' <=> Waits(q))
    BY <2>2 DEF Parks, Waits, TickFor
  <2>7. \A q \in Questions \ {s} : Unshared(q) => ParkOf(q)'
    BY <2>2, <2>3, <2>4, <2>6 DEF ParkInv, ParkOf, TickFor
  <2>8. Unshared(s) => Parks(s)
    BY <1>4, <2>1 DEF Save, ParkInv, ParkAt, ParkOf, ParkSteps
  <2>9. Unshared(s) => ParkOf(s)'
    BY <2>2, <2>3, <2>5, <2>6, <2>8 DEF ParkOf, Open
  <2> QED
    BY <2>2, <2>7, <2>9, ParkSame DEF ParkSteps
<1> QED
  BY <1>2, <1>3, <1>4

LEMMA ParkAnswer ==
  ASSUME ParkInv, RecordedInv', OnceInv', StampInv', NEW p \in Procs,
         \/ Resolve(p) \/ Record(p)
         \/ \E q \in Questions, a \in Answers : StartAnswer(p, q, a)
  PROVE  ParkInv'
<1>1. TypeInv /\ Known /\ ResolutionAt(p)
  BY DEF ParkInv, RecordedInv, BaseInv
<1>2. ASSUME NEW q \in Questions, NEW a \in Answers, StartAnswer(p, q, a) PROVE ParkInv'
  <2>1. UNCHANGED <<ticks, store, created, recorded>>
    BY <1>2 DEF StartAnswer
  <2>2. /\ job'[p].at = "resolve" /\ job'[p].entry = [Missing EXCEPT !.res = Answer(a)]
        /\ \A r \in Procs \ {p} : job'[r] = job[r]
    BY <1>1, <1>2, StartShape DEF StartStep
  <2>3. job'[p].role = "answer"
    <3> DEFINE j == [Idle EXCEPT !.at = "resolve", !.role = "answer", !.q = q,
                                 !.entry.res = Answer(a)]
    <3>1. job'[p] = j
      BY <1>1, <1>2, BecomeIs DEF StartAnswer
    <3>2. j.role = "answer"
      BY IdleType DEF Job
    <3> QED
      BY <3>1, <3>2
  <2>4. job'[p].entry.res.status = "answered"
    BY <2>2 DEF Missing, Answer
  <2> QED
    BY <2>1, <2>2, <2>3, <2>4, ParkAside DEF ParkAt
<1>3. CASE Resolve(p)
  <2> PICK s \in Questions : job[p].q = s
    BY <1>1, <1>3 DEF Resolve, TypeInv, Placed, AnswerSteps
  <2>1. UNCHANGED <<ticks, store, created, recorded>>
    BY <1>3 DEF Resolve
  <2>2. Unshared(s) =>
          ~Waits(s) \/ (job[p].role = "answer" /\ job[p].entry.res.status = "answered")
    BY <1>3 DEF Resolve, ParkInv, ParkAt, ParkSteps
  <2>3. /\ \A r \in Procs \ {p} : job'[r] = job[r]
        /\ job'[p].at \in {"idle", "next", "apply", "record"}
        /\ job'[p].at = "record" =>
             job'[p].q = s /\ job'[p].role = job[p].role /\ job'[p].entry.res = job[p].entry.res
    BY <1>1, <1>3, ResolveShape DEF Moved, TypeInv, TypeOK, Entry
  <2>4. job'[p].at \in ParkSteps /\ Unshared(job'[p].q) => ParkAt(p)'
    BY <2>1, <2>2, <2>3 DEF ParkAt, ParkSteps, Waits, TickFor
  <2> QED
    BY <2>1, <2>3, <2>4, ParkAside
<1>4. CASE Record(p)
  <2> PICK s \in Questions : job[p].q = s
    BY <1>1, <1>4 DEF Record, TypeInv, Placed, AnswerSteps
  <2>1. WasSaved(s) /\ job[p].entry.there /\ job[p].entry.res # Open /\ job[p].entry \in Entry
    BY <1>1, <1>4 DEF Record, Known, AnswerSteps, ResolutionAt, TypeInv, TypeOK, Job
  <2>2. /\ UNCHANGED <<ticks, created>> /\ WriteEntry(s, job[p].entry)
        /\ job'[p].at = (IF job[p].role = "await" THEN "drain" ELSE "apply")
        /\ job'[p].q = s /\ \A r \in Procs \ {p} : job'[r] = job[r]
    BY <1>1, <1>4, GotoIs DEF Record
  <2>3. /\ store'[s] = job[p].entry /\ recorded'[s] = job[p].entry.res
        /\ \A q \in Questions \ {s} : store'[q] = store[q] /\ recorded'[q] = recorded[q]
    BY <1>1, <2>2 DEF WriteEntry, TypeInv, TypeOK
  <2>4. ~IsOpen(store'[s])
    BY <2>1, <2>3 DEF IsOpen, Entry, Resolution, Open
  <2>5. Unshared(s) =>
          ~Waits(s) \/ (job[p].role = "answer" /\ job[p].entry.res.status = "answered")
    BY <1>4 DEF Record, ParkInv, ParkAt, ParkSteps
  <2>6. \A q \in Questions : /\ (Parks(q)' <=> Parks(q)) /\ (Waits(q)' <=> Waits(q))
                             /\ (WasSaved(q)' <=> WasSaved(q))
    BY <2>2 DEF Parks, Waits, TickFor, WasSaved
  <2>7. \A q \in Questions : Unshared(q) => ParkOf(q)
    BY DEF ParkInv
  <2>8. Unshared(s) => ParkOf(s)'
    BY <2>1, <2>2, <2>3, <2>4, <2>5, <2>6, <2>7 DEF ParkOf, TickFor
  <2>9. \A q \in Questions \ {s} : Unshared(q) => ParkOf(q)'
    BY <2>2, <2>3, <2>6, <2>7 DEF ParkOf, TickFor
  <2>10. job'[p].at \in ParkSteps /\ Unshared(job'[p].q) => ParkAt(p)'
    BY <2>2, <2>5, <2>6 DEF ParkAt, ParkSteps, Waits, TickFor
  <2> QED
    BY <2>2, <2>8, <2>9, <2>10, ParkSame
<1> QED
  BY <1>2, <1>3, <1>4

\* A question that Apply gives up has had its effect, or was ruled moot.
LEMMA ApplyDrains ==
  ASSUME ParkInv, Isolated, NEW p \in Procs, Apply(p), job'[p].at = "drain",
         Unshared(job[p].q)
  PROVE  ~Waits(job[p].q)
<1> PICK s \in Questions : job[p].q = s
  BY DEF Apply, ParkInv, RecordedInv, BaseInv, TypeInv, Placed, AnswerSteps
<1>1. TypeInv /\ ResolutionAt(p) /\ job[p].at = "apply" /\ Kind[s] # "agent_relay"
  BY DEF ParkInv, RecordedInv, BaseInv, Apply, Isolated
<1>2. \/ job[p].entry.res.status # "answered"
      \/ store[s].applied
      \/ job'[p].at = "check"
  <2> DEFINE e == IF IsSettled(store[s]) THEN store[s] ELSE job[p].entry
             j == [job[p] EXCEPT !.at = "check", !.entry = e]
  <2>1. \/ job[p].entry.res.status # "answered"
        \/ store[s].applied
        \/ Become(p, j)
    BY <1>1 DEF Apply
  <2>2. j.at = "check"
    BY <1>1 DEF TypeInv, TypeOK, Job
  <2> HIDE DEF j
  <2> QED
    BY <1>1, <2>1, <2>2, BecomeIs
<1>3. CASE job[p].entry.res.status # "answered"
  <2>1. recorded[s].status = "cancelled"
    BY <1>1, <1>3 DEF ResolutionAt, TypeInv, TypeOK, Resolution, Open
  <2> QED
    BY <2>1 DEF ParkInv, ParkOf
<1>4. CASE store[s].applied
  BY <1>4, EffectUnparks DEF ParkInv
<1> QED
  BY <1>2, <1>3, <1>4

LEMMA ParkApply ==
  ASSUME ParkInv, RecordedInv', OnceInv', StampInv', Isolated, NEW p \in Procs,
         Apply(p) \/ Check(p) \/ Read(p) \/ Siblings(p) \/ Mark(p)
  PROVE  ParkInv'
<1>1. TypeInv /\ Known
  BY DEF ParkInv, RecordedInv, BaseInv
<1>2. UNCHANGED <<ticks, store, created, recorded>>
  BY DEF Apply, Check, Read, Siblings, Mark
<1> PICK s \in Questions : job[p].q = s
  BY <1>1 DEF Apply, Check, Read, Siblings, Mark, TypeInv, Placed, AnswerSteps
<1>3. WasSaved(s) /\ (Unshared(s) => ParkOf(s))
  BY <1>1 DEF Apply, Check, Read, Siblings, Mark, Known, AnswerSteps, ParkInv
<1> SUFFICES /\ \A r \in Procs \ {p} : job'[r] = job[r]
             /\ job'[p].at \notin {"park", "save", "resolve", "record", "verdict"}
             /\ job'[p].at \in ParkSteps => job'[p].q = s
             /\ job'[p].at \in {"read", "siblings", "write"} /\ Unshared(s) => Parks(s)
             /\ job'[p].at = "drain" /\ Unshared(s) => ~Waits(s)
  <2>1. (Parks(s)' <=> Parks(s)) /\ (Waits(s)' <=> Waits(s))
    BY <1>2 DEF Parks, Waits, TickFor
  <2> QED
    BY <1>2, <2>1, ParkAside DEF ParkAt, ParkSteps, Parks, Waits, TickFor
<1>4. CASE Apply(p)
  <2>1. /\ \A r \in Procs \ {p} : job'[r] = job[r]
        /\ job'[p].at = "idle" \/ (job'[p].at \in {"drain", "check", "mark"} /\ Moved(p))
    BY <1>1, <1>4, ApplyShape
  <2>2. job'[p].at = "drain" /\ Unshared(s) => ~Waits(s)
    BY <1>4, ApplyDrains
  <2> QED
    BY <2>1, <2>2 DEF Moved, ParkSteps
<1>5. CASE Check(p)
  <2>1. CASE OutOfBand(s, ticks[TickOf[s]])
    BY <1>1, <1>3, <1>5, <2>1, SettledShape
       DEF Check, Moved, ParkOf, Parks, TickFor, ParkSteps
  <2>2. CASE ~OutOfBand(s, ticks[TickOf[s]])
    <3>1. Goto(p, "read")
      BY <1>5, <2>2 DEF Check
    <3> QED
      BY <1>1, <2>2, <3>1, GotoIs DEF Parks, TickFor, ParkSteps
  <2> QED
    BY <2>1, <2>2
<1>6. CASE Read(p)
  <2>1. Unshared(s) => Parks(s)
    BY <1>6 DEF Read, ParkInv, ParkAt, ParkSteps
  <2>2. /\ \A r \in Procs \ {p} : job'[r] = job[r]
        /\ job'[p].at = "idle" \/ (job'[p].at \in {"write", "siblings"} /\ Moved(p))
    BY <1>1, <1>6, ReadShape
  <2> QED
    BY <2>1, <2>2 DEF Moved, ParkSteps
<1>7. CASE Siblings(p)
  <2>1. Unshared(s) => Parks(s)
    BY <1>7 DEF Siblings, ParkInv, ParkAt, ParkSteps
  <2> QED
    BY <1>1, <1>7, <2>1, SiblingsShape DEF Moved, ParkSteps
<1>8. CASE Mark(p)
  <2>1. ~Waits(s)
    BY <1>8, EffectUnparks DEF Mark, ParkInv, StampInv, StampAt, Isolated
  <2> QED
    BY <1>1, <1>8, <2>1, MarkShape DEF Moved, ParkSteps
<1> QED
  BY <1>4, <1>5, <1>6, <1>7, <1>8

\* The one write of a question's tick: whoever else works on it is at a step
\* that an unparked tick suits.
LEMMA ParkEffect ==
  ASSUME ParkInv, RecordedInv', OnceInv', StampInv', Isolated, NEW p \in Procs, Write(p)
  PROVE  ParkInv'
<1>1. TypeInv /\ BaseInv /\ Fresh /\ Known /\ LockHeld /\ RecordedInv
  BY DEF ParkInv, RecordedInv, BaseInv
<1> PICK s \in Questions : job[p].q = s
  BY <1>1 DEF Write, TypeInv, Placed, AnswerSteps
<1>2. /\ UNCHANGED <<store, created, recorded>> /\ WriteTick(TickOf[s], job[p].tick)
      /\ job'[p].at = "mark" /\ \A r \in Procs \ {p} : job'[r] = job[r]
  BY <1>1, GotoIs DEF Write
<1>3. WasSaved(s) /\ lock = p /\ recorded[s] # Open
  BY <1>1 DEF Write, Known, LockHeld, Holding, AnswerSteps, RecordedInv, ResolutionAt
<1>4. ~IsAwaitingHuman(job[p].tick)
  BY DEF Write, ParkInv, OnceInv, OnceAt
<1>5. TickFor(s)' = job[p].tick
  BY <1>1, <1>2, OperatorAssumption DEF WriteTick, TickFor, TypeInv, TypeOK
<1>6. ~Waits(s)' /\ ~Parks(s)'
  BY <1>4, <1>5 DEF Waits, Parks, OutOfBand
<1>7. ~IsOpen(store'[s]) /\ WasSaved(s)'
  BY <1>1, <1>2, <1>3, OpenSettled DEF RecordedInv, WasSaved
<1>8. ParkOf(s)'
  BY <1>6, <1>7 DEF ParkOf
<1>9. \A r \in Procs \ {p} : job'[r].at \in ParkSteps => job'[r].q # s \/ ParkAt(r)'
  <2> SUFFICES ASSUME NEW r \in Procs \ {p}, job'[r].at \in ParkSteps, job'[r].q = s
               PROVE  ParkAt(r)'
    OBVIOUS
  <2>1. job[r].at \in {"drain", "resolve"}
    BY <1>1, <1>2, <1>3 DEF ParkSteps, Fresh, AskSteps, LockHeld, Holding
  <2> QED
    BY <1>2, <1>6, <2>1 DEF ParkAt, Waits, TickFor
<1> QED
  BY <1>2, <1>8, <1>9, ParkWrite DEF ParkSteps

LEMMA ParkStamp ==
  ASSUME ParkInv, RecordedInv', OnceInv', StampInv', Isolated, NEW p \in Procs, Stamp(p)
  PROVE  ParkInv'
<1>1. TypeInv /\ Known /\ ResolutionAt(p)
  BY DEF ParkInv, RecordedInv, BaseInv
<1> PICK s \in Questions : job[p].q = s
  BY <1>1 DEF Stamp, TypeInv, Placed, AnswerSteps
<1>2. /\ WasSaved(s) /\ job[p].entry.there /\ job[p].entry.res = recorded[s]
      /\ recorded[s] # Open /\ job[p].entry \in Entry
  BY <1>1 DEF Stamp, Known, AnswerSteps, ResolutionAt, TypeInv, TypeOK, Job
<1>3. /\ UNCHANGED <<ticks, created>> /\ WriteEntry(s, job[p].entry)
      /\ \A r \in Procs \ {p} : job'[r] = job[r]
      /\ job'[p].at = "idle" \/ (job'[p].at = "drain" /\ job'[p].q = s)
  BY <1>1, SettledShape DEF Stamp, Moved
<1>4. store'[s] = job[p].entry /\ \A q \in Questions \ {s} : store'[q] = store[q]
  BY <1>1, <1>3 DEF WriteEntry, TypeInv, TypeOK
<1>5. \A q \in Questions : recorded'[q] = recorded[q]
  BY <1>1, <1>2, <1>3 DEF WriteEntry, TypeInv, TypeOK
<1>6. ~IsOpen(store'[s])
  BY <1>2, <1>4 DEF IsOpen, Entry, Resolution, Open
<1>7. ~Waits(s)
  BY EffectUnparks DEF Stamp, ParkInv, StampInv, StampAt
<1>8. \A q \in Questions : /\ (Parks(q)' <=> Parks(q)) /\ (Waits(q)' <=> Waits(q))
                           /\ (WasSaved(q)' <=> WasSaved(q)) /\ TickFor(q)' = TickFor(q)
  BY <1>3 DEF Parks, Waits, TickFor, WasSaved
<1>9. \A q \in Questions : Unshared(q) => ParkOf(q)
  BY DEF ParkInv
<1>10. Unshared(s) => ParkOf(s)'
  BY <1>2, <1>3, <1>4, <1>5, <1>6, <1>8, <1>9 DEF ParkOf
<1>11. \A q \in Questions \ {s} : Unshared(q) => ParkOf(q)'
  BY <1>3, <1>4, <1>5, <1>8, <1>9 DEF ParkOf
<1>12. job'[p].at \in ParkSteps /\ Unshared(job'[p].q) => ParkAt(p)'
  BY <1>3, <1>7 DEF ParkAt, ParkSteps, Waits, TickFor
<1> QED
  BY <1>3, <1>10, <1>11, <1>12, ParkSame

\* The steps of collectors and people, and of a command that dies.
LEMMA ParkRest ==
  ASSUME ParkInv, RecordedInv', OnceInv', StampInv', NoBridges, NEW p \in Procs,
         \/ \E role \in {"collect", "await"} : StartCollect(p, role)
         \/ TakeNext(p) \/ Watch(p) \/ TimeOut(p) \/ Drain(p) \/ Finish(p)
         \/ \E t \in Ticks, verdict \in Verdict : StartVerdict(p, t, verdict)
         \/ \E q \in Questions : StartDeliver(p, q)
         \/ Deliver(p) \/ Fail(p)
  PROVE  ParkInv'
<1>1. TypeInv /\ Known /\ ResolutionAt(p)
  BY DEF ParkInv, RecordedInv, BaseInv
<1>2. CASE \/ \E role \in {"collect", "await"} : StartCollect(p, role)
           \/ TakeNext(p) \/ TimeOut(p) \/ Finish(p) \/ Fail(p)
  <2>1. UNCHANGED <<ticks, store, created, recorded>>
    BY <1>2 DEF StartCollect, TakeNext, TimeOut, Finish, Fail
  <2>2. /\ \A r \in Procs \ {p} : job'[r] = job[r]
        /\ job'[p].at \in {"idle", "next", "apply", "watch"}
    <3>1. CASE \E role \in {"collect", "await"} : StartCollect(p, role)
      BY <1>1, <3>1, StartShape DEF StartStep
    <3>2. CASE TakeNext(p)
      BY <1>1, <3>2, TakeNextShape
    <3>3. CASE TimeOut(p) \/ Finish(p) \/ Fail(p)
      BY <1>1, <3>3, BecomeIs, IdleType, SkippedType DEF TimeOut, Finish, Fail
    <3> QED
      BY <1>2, <3>1, <3>2, <3>3
  <2> QED
    BY <2>1, <2>2, ParkAside DEF ParkSteps
<1>3. CASE Watch(p)
  <2> PICK s \in Questions : job[p].q = s
    BY <1>1, <1>3 DEF Watch, TypeInv, Placed, AnswerSteps
  <2>1. UNCHANGED <<ticks, store, created, recorded>>
    BY <1>3 DEF Watch
  <2>2. /\ \A r \in Procs \ {p} : job'[r] = job[r]
        /\ \/ job'[p].at \in {"idle", "next"}
           \/ job'[p].at = "resolve" /\ job'[p].q = s
    BY <1>1, <1>3, WatchShape DEF Moved
  <2>3. job'[p].at = "resolve" => ~Parks(s)
    <3> DEFINE j == [job[p] EXCEPT !.at = "next", !.q = None, !.entry = Missing]
    <3>1. Parks(s) => Become(p, Idle) \/ Become(p, j)
      BY <1>3 DEF Watch, Parks, TickFor
    <3>2. Idle.at = "idle" /\ j.at = "next"
      BY <1>1, IdleType DEF TypeInv, TypeOK, Job
    <3> HIDE DEF j
    <3> QED
      BY <1>1, <3>1, <3>2, BecomeIs
  <2>4. job'[p].at = "resolve" /\ Unshared(s) => ~Waits(s)
    BY <1>1, <1>3, <2>3 DEF Watch, Known, AnswerSteps, ParkInv, ParkOf
  <2>5. Waits(s)' <=> Waits(s)
    BY <2>1 DEF Waits, TickFor
  <2>6. job'[p].at \in ParkSteps /\ Unshared(job'[p].q) => ParkAt(p)'
    BY <2>1, <2>2, <2>4 DEF ParkAt, ParkSteps, Waits, TickFor
  <2> QED
    BY <2>1, <2>2, <2>6, ParkAside
<1>4. CASE Drain(p)
  <2> PICK s \in Questions : job[p].q = s
    BY <1>1, <1>4 DEF Drain, TypeInv, Placed, AnswerSteps
  <2>1. /\ UNCHANGED <<ticks, created, recorded>>
        /\ store'[s] = Missing /\ \A q \in Questions \ {s} : store'[q] = store[q]
    BY <1>1, <1>4 DEF Drain, TypeInv, TypeOK
  <2>2. job'[p].at = "next" /\ \A r \in Procs \ {p} : job'[r] = job[r]
    BY <1>1, <1>4, BecomeIs, SkippedType DEF Drain
  <2>3. Unshared(s) => ~Waits(s) /\ ParkOf(s)
    BY <1>4 DEF Drain, ParkInv, ParkAt, ParkSteps
  <2>4. \A q \in Questions : /\ (Parks(q)' <=> Parks(q)) /\ (Waits(q)' <=> Waits(q))
                             /\ (WasSaved(q)' <=> WasSaved(q)) /\ TickFor(q)' = TickFor(q)
    BY <2>1 DEF Parks, Waits, TickFor, WasSaved
  <2>5. Unshared(s) => ParkOf(s)'
    BY <2>1, <2>3, <2>4 DEF ParkOf, IsOpen, Missing
  <2>6. \A q \in Questions \ {s} : Unshared(q) => ParkOf(q)'
    BY <2>1, <2>4 DEF ParkInv, ParkOf
  <2> QED
    BY <2>1, <2>2, <2>5, <2>6, ParkSame DEF ParkSteps
<1>5. ASSUME NEW t \in Ticks, NEW v \in Verdict, StartVerdict(p, t, v) PROVE ParkInv'
  <2>1. UNCHANGED <<ticks, store, created, recorded>> /\ t \in Shared
    BY <1>5 DEF StartVerdict
  <2>2. /\ job'[p].at = "verdict" /\ job'[p].on = t
        /\ \A r \in Procs \ {p} : job'[r] = job[r]
    BY <1>1, <1>5, StartShape DEF StartStep, Verdict
  <2> QED
    BY <2>1, <2>2, ParkAside DEF ParkSteps
<1>6. ~Deliver(p) /\ \A q \in Questions : ~StartDeliver(p, q)
  BY <1>1 DEF Deliver, StartDeliver, ResolutionAt, NoBridges
<1> QED
  BY <1>2, <1>3, <1>4, <1>5, <1>6

LEMMA ParkInit == Init => ParkInv
<1> SUFFICES ASSUME Init PROVE ParkInv
  OBVIOUS
<1>1. \A q : ~WasSaved(q)
  BY DEF Init, WasSaved
<1>2. \A p \in Procs : job[p].at = "idle"
  BY IdleType DEF Init
<1>3. \A q \in Questions : ParkOf(q)
  BY <1>1, OperatorAssumption DEF Init, ParkOf, TickFor, NewTick, Missing, IsOpen, Open
<1>4. RecordedInv /\ OnceInv
  BY RecordedInit, OnceInit
<1>5. StampInv
  BY <1>2, InitType DEF Init, StampInv, StampAt, Missing
<1> QED
  BY <1>2, <1>3, <1>4, <1>5 DEF ParkInv, ParkSteps

LEMMA ParkNext ==
  ASSUME NoBridges, Isolated
  PROVE  ParkInv /\ [Next]_vars => ParkInv'
<1> SUFFICES ASSUME ParkInv, [Next]_vars PROVE ParkInv'
  OBVIOUS
<1>1. RecordedInv' /\ OnceInv' /\ StampInv'
  BY RecordedNext, OnceNext, StampNext DEF ParkInv
<1>2. CASE UNCHANGED vars
  BY <1>1, <1>2
     DEF vars, ParkInv, ParkOf, ParkAt, Parks, Waits, TickFor, WasSaved, Unshared
<1>3. ASSUME NEW p \in Procs, Acts(p) PROVE ParkInv'
  BY <1>1, <1>3, ParkAsk, ParkAnswer, ParkApply, ParkEffect, ParkStamp, ParkRest,
     ParkVerdict DEF Acts
<1> QED
  BY <1>2, <1>3, NextCases

-----------------------------------------------------------------------------
(***************************************************************************)
(* Questions that share a tick.  The tick is unparked by the last of their *)
(* answers, and the engine finds out which one is last by looking at the   *)
(* questions registered so far; tk ask parks the tick before it registers, *)
(* without the lock.  With one engine process nobody registers in between: *)
(* whatever it is about to write to a tick suits every question that is    *)
(* open on it.  People and bridges work on other ticks, and the questions  *)
(* of one tick all ask for text: a gate closes its tick whatever else is   *)
(* open on it.                                                             *)
(***************************************************************************)
Engine    == Askers \cup Answerers \cup Collectors
OneEngine == \A k, l \in Engine : k = l
AsksTick(q) == Kind[q] # "agent_relay"
Alike ==
  \A q, r \in Questions :
    q # r /\ TickOf[q] = TickOf[r] /\ AsksTick(q) /\ AsksTick(r)
      => Kind[q] = "ask" /\ Kind[r] = "ask"

\* The file suits the open questions of tick t, and only a gate closed it.
Suits(t, file) ==
  /\ \A r \in Questions :
       TickOf[r] = t /\ AsksTick(r) /\ IsOpen(store[r]) => ~OutOfBand(r, file)
  /\ file.status = "closed" =>
       \E g \in Questions : TickOf[g] = t /\ Kind[g] = "gate" /\ WasSaved(g)

EngineAt(p) ==
  LET at == job[p].at  q == job[p].q  res == job[p].entry.res IN
  /\ at \in {"park", "siblings", "write"} => Suits(TickOf[q], job[p].tick)
  /\ at = "park" => AsksTick(q) /\ ~OutOfBand(q, job[p].tick)
  /\ at = "save" /\ AsksTick(q) => Parks(q)
  /\ at \in {"resolve", "record", "stamp"} => res.status # "open"
  /\ at \in {"apply", "check", "read", "siblings", "write", "mark", "stamp"} => ~IsOpen(store[q])
  /\ at \in {"check", "read", "siblings", "write"} => AsksTick(q)

Elsewhere(p) ==
  LET at == job[p].at IN
  /\ at \in {"idle", "next", "verdict", "deliver"}
  /\ at = "verdict" => job[p].on \in Shared
  /\ at = "deliver" => ~Unshared(job[p].q)

SibAt(p) ==
  /\ job[p].at \notin {"idle", "verdict", "deliver"} => p \in Engine
  /\ job[p].at \in {"verdict", "deliver"} => Elsewhere(p)
  /\ job[p].at \in AskSteps \cup AnswerSteps /\ Unshared(job[p].q) => EngineAt(p)

SibInv ==
  /\ BaseInv
  /\ \A t \in Ticks \ Shared : Suits(t, ticks[t])
  /\ \A p \in Procs : SibAt(p)

\* A step of the engine: nobody else is at work on an unshared tick.
LEMMA SibStep ==
  ASSUME SibInv, BaseInv', OneEngine, NEW p \in Procs, p \in Engine,
         \A r \in Procs \ {p} : job'[r] = job[r],
         \A t \in Ticks \ Shared : Suits(t, ticks[t])',
         SibAt(p)'
  PROVE  SibInv'
<1> SUFFICES ASSUME NEW r \in Procs \ {p} PROVE SibAt(r)'
  BY DEF SibInv
<1>1. job'[r] = job[r] /\ SibAt(r) /\ r \notin Engine
  BY DEF SibInv, OneEngine
<1> QED
  BY <1>1 DEF SibAt, Elsewhere, AskSteps, AnswerSteps, Unshared

\* One that opens no question and writes no tick.
LEMMA SibQuiet ==
  ASSUME SibInv, BaseInv', OneEngine, NEW p \in Procs, p \in Engine,
         UNCHANGED <<ticks, created>>,
         \A r \in Procs \ {p} : job'[r] = job[r],
         \A q \in Questions : IsOpen(store'[q]) => IsOpen(store[q]),
         SibAt(p)'
  PROVE  SibInv'
<1>1. \A t \in Ticks \ Shared : Suits(t, ticks[t])'
  BY DEF SibInv, Suits, WasSaved
<1> QED
  BY <1>1, SibStep

\* One that writes a tick, as a file that suits it.
LEMMA SibWrite ==
  ASSUME SibInv, BaseInv', OneEngine, NEW p \in Procs, p \in Engine,
         NEW s \in Questions, UNCHANGED <<store, created>>,
         WriteTick(TickOf[s], job[p].tick),
         Unshared(s) => Suits(TickOf[s], job[p].tick),
         \A r \in Procs \ {p} : job'[r] = job[r],
         SibAt(p)'
  PROVE  SibInv'
<1>1. TickOf[s] \in Ticks /\ ticks' = [ticks EXCEPT ![TickOf[s]] = job[p].tick]
      /\ ticks \in [Ticks -> TickFile]
  BY OperatorAssumption DEF WriteTick, SibInv, BaseInv, TypeInv, TypeOK
<1>2. ASSUME NEW t \in Ticks \ Shared PROVE Suits(t, ticks'[t])
  BY <1>1, <1>2 DEF SibInv, Unshared
<1>3. \A t \in Ticks \ Shared : Suits(t, ticks[t])'
  BY <1>2 DEF Suits, WasSaved
<1> QED
  BY <1>3, SibStep

\* A step of anybody on the shared ticks, or one that does nothing.
LEMMA SibOutside ==
  ASSUME SibInv, BaseInv', NEW p \in Procs, created' = created,
         \A t \in Ticks \ Shared : ticks'[t] = ticks[t],
         \A q \in Questions : Unshared(q) => store'[q] = store[q],
         \A r \in Procs \ {p} : job'[r] = job[r],
         Elsewhere(p)', job'[p].at # "next"
  PROVE  SibInv'
<1>1. TickOf \in [Questions -> Ticks]
  BY OperatorAssumption
<1>3. ASSUME NEW t \in Ticks \ Shared, NEW file, Suits(t, file)
      PROVE  /\ \A r \in Questions :
                  TickOf[r] = t /\ AsksTick(r) /\ IsOpen(store'[r]) => ~OutOfBand(r, file)
             /\ file.status = "closed" =>
                  \E g \in Questions : TickOf[g] = t /\ Kind[g] = "gate" /\ WasSaved(g)'
  BY <1>3 DEF Suits, Unshared, WasSaved
<1>4. \A t \in Ticks \ Shared : Suits(t, ticks[t])'
  BY <1>3 DEF SibInv, Suits
<1>5. ASSUME NEW r \in Procs \ {p} PROVE SibAt(r)'
  <2>1. job'[r] = job[r] /\ SibAt(r)
    BY DEF SibInv
  <2>2. job[r].at \in AskSteps \cup AnswerSteps => job[r].q \in Questions
    BY DEF SibInv, BaseInv, TypeInv, Placed
  <2>3. ASSUME job[r].at \in AskSteps \cup AnswerSteps, Unshared(job[r].q)
        PROVE  EngineAt(r)'
    <3> DEFINE q == job[r].q
    <3>1. /\ q \in Questions /\ TickOf[q] \in Ticks \ Shared /\ EngineAt(r)
          /\ store'[q] = store[q] /\ ticks'[TickOf[q]] = ticks[TickOf[q]]
      BY <1>1, <2>1, <2>2, <2>3 DEF SibAt, Unshared
    <3>2. job[r].at \in {"park", "siblings", "write"} => Suits(TickOf[q], job[r].tick)
      BY <3>1 DEF EngineAt
    <3>3. job[r].at \in {"park", "siblings", "write"} => Suits(TickOf[job[r].q], job[r].tick)'
      BY <1>3, <2>1, <3>1, <3>2 DEF Suits
    <3>4. Parks(q) => ~OutOfBand(q, ticks'[TickOf[q]])
      BY <3>1 DEF Parks, TickFor
    <3> QED
      BY <2>1, <3>1, <3>3, <3>4 DEF EngineAt, Parks, TickFor
  <2> QED
    BY <2>1, <2>3 DEF SibAt, Elsewhere, Unshared
<1>6. SibAt(p)'
  BY DEF SibAt, Elsewhere, AskSteps, AnswerSteps, Unshared
<1> QED
  BY <1>4, <1>5, <1>6 DEF SibInv

LEMMA SibAsk ==
  ASSUME SibInv, BaseInv', OneEngine, Alike, NEW p \in Procs,
         Park(p) \/ Save(p) \/ \E q \in Questions : StartAsk(p, q)
  PROVE  SibInv'
<1>1. TypeInv /\ SibAt(p)
  BY DEF SibInv, BaseInv
<1>2. ASSUME NEW q \in Questions, StartAsk(p, q) PROVE SibInv'
  <2> DEFINE t == TickOf[q]
             held == SetAwaiting(ticks[t], AwaitingOf(q))
             j == [Idle EXCEPT !.at   = IF Kind[q] = "agent_relay" THEN "save" ELSE "park",
                               !.role = "ask", !.q = q, !.tick = held]
  <2>1. /\ UNCHANGED <<ticks, store, created>> /\ p \in Engine
        /\ ~WasSaved(q) /\ t \in Ticks /\ ticks[t] \in TickFile
    BY <1>1, <1>2, OperatorAssumption DEF StartAsk, Engine, TypeInv, TypeOK
  <2>2. /\ job'[p].at = IF AsksTick(q) THEN "park" ELSE "save"
        /\ job'[p].q = q /\ job'[p].tick = held
        /\ \A r \in Procs \ {p} : job'[r] = job[r]
    <3>1. job'[p] = j /\ \A r \in Procs \ {p} : job'[r] = job[r]
      BY <1>1, <1>2, BecomeIs DEF StartAsk
    <3>2. /\ j.at = IF AsksTick(q) THEN "park" ELSE "save"
          /\ j.q = q /\ j.tick = held
      <4> HIDE DEF held
      <4> QED
        BY IdleType DEF Job, AsksTick
    <3> QED
      BY <3>1, <3>2
  <2>3. ASSUME AsksTick(q), Unshared(q) PROVE ~OutOfBand(q, held) /\ Suits(t, held)
    <3>1. ticks[t].status # "closed"
      BY <2>1, <2>3 DEF SibInv, Suits, Unshared, Alike, AsksTick
    <3>2. held.status # "closed" /\ ~OutOfBand(q, held)
      BY <2>1, <3>1, SetAwaitingParks DEF OutOfBand
    <3>3. ASSUME NEW r \in Questions, TickOf[r] = t, AsksTick(r), IsOpen(store[r])
          PROVE  ~OutOfBand(r, held)
      <4>1. r # q
        BY <2>1, <3>3 DEF SibInv, BaseInv, Known, IsOpen
      <4>2. AwaitingOf(r) = AwaitingOf(q)
        BY <2>3, <3>3, <4>1 DEF Alike, AwaitingOf
      <4> QED
        BY <3>2, <4>2 DEF OutOfBand
    <3> QED
      BY <3>2, <3>3 DEF Suits
  <2> HIDE DEF held, j
  <2>4. Unshared(q) /\ AsksTick(q) => Suits(TickOf[job[p].q], job[p].tick)'
    BY <2>1, <2>2, <2>3 DEF Suits, WasSaved
  <2>5. SibAt(p)'
    BY <2>1, <2>2, <2>3, <2>4 DEF SibAt, EngineAt, Unshared
  <2> QED
    BY <2>1, <2>2, <2>5, SibQuiet
<1>3. CASE Park(p)
  <2> PICK s \in Questions : job[p].q = s
    BY <1>1, <1>3 DEF Park, TypeInv, Placed, AskSteps
  <2>1. /\ UNCHANGED <<store, created>> /\ WriteTick(TickOf[s], job[p].tick)
        /\ job[p].at = "park" /\ p \in Engine
        /\ job'[p].at = "save" /\ job'[p].q = s /\ \A r \in Procs \ {p} : job'[r] = job[r]
    BY <1>1, <1>3, GotoIs DEF Park, SibAt
  <2>2. Unshared(s) => Suits(TickOf[s], job[p].tick) /\ ~OutOfBand(s, job[p].tick)
    BY <1>1, <2>1 DEF SibAt, EngineAt, AskSteps
  <2>3. ticks'[TickOf[s]] = job[p].tick
    BY <1>1, <2>1, OperatorAssumption DEF WriteTick, TypeInv, TypeOK
  <2>4. SibAt(p)'
    BY <2>1, <2>2, <2>3 DEF SibAt, EngineAt, Unshared, Parks, TickFor
  <2> QED
    BY <2>1, <2>2, <2>4, SibWrite
<1>4. CASE Save(p)
  <2> PICK s \in Questions : job[p].q = s
    BY <1>1, <1>4 DEF Save, TypeInv, Placed, AskSteps
  <2>1. /\ ticks' = ticks /\ WriteEntry(s, Asked) /\ created' = Append(created, s)
        /\ job[p].at = "save" /\ p \in Engine
        /\ job'[p].at = "idle" /\ \A r \in Procs \ {p} : job'[r] = job[r]
    BY <1>1, <1>4, BecomeIs, IdleType DEF Save, SibAt
  <2>2. \A x : WasSaved(x)' <=> (WasSaved(x) \/ x = s)
    BY <1>1, <2>1, AppendSaves DEF TypeInv, TypeOK
  <2>3. Unshared(s) /\ AsksTick(s) => ~OutOfBand(s, ticks[TickOf[s]])
    BY <1>1, <2>1 DEF SibAt, EngineAt, AskSteps, Parks, TickFor
  <2>4. \A q \in Questions \ {s} : store'[q] = store[q]
    BY <1>1, <2>1 DEF WriteEntry, TypeInv, TypeOK
  <2>5. ASSUME NEW t \in Ticks \ Shared PROVE Suits(t, ticks[t])'
    BY <2>1, <2>2, <2>3, <2>4 DEF SibInv, Suits, Unshared
  <2>6. SibAt(p)'
    BY <2>1 DEF SibAt, AskSteps, AnswerSteps
  <2> QED
    BY <2>1, <2>5, <2>6, SibStep
<1> QED
  BY <1>2, <1>3, <1>4

LEMMA SibAnswer ==
  ASSUME SibInv, BaseInv', OneEngine, NEW p \in Procs,
         \/ Resolve(p) \/ Record(p)
         \/ \E q \in Questions, a \in Answers : StartAnswer(p, q, a)
  PROVE  SibInv'
<1>1. TypeInv /\ SibAt(p)
  BY DEF SibInv, BaseInv
<1>2. ASSUME NEW q \in Questions, NEW a \in Answers, StartAnswer(p, q, a) PROVE SibInv'
  <2>1. /\ job'[p].at = "resolve" /\ job'[p].entry = [Missing EXCEPT !.res = Answer(a)]
        /\ \A r \in Procs \ {p} : job'[r] = job[r]
    BY <1>1, <1>2, StartShape DEF StartStep
  <2>2. UNCHANGED <<ticks, store, created>> /\ p \in Engine
    BY <1>2 DEF StartAnswer, Engine
  <2>3. job'[p].entry.res.status = "answered"
    BY <2>1 DEF Missing, Answer
  <2>4. SibAt(p)'
    BY <2>1, <2>2, <2>3 DEF SibAt, EngineAt
  <2> QED
    BY <2>1, <2>2, <2>4, SibQuiet
<1>3. CASE Resolve(p)
  <2> PICK s \in Questions : job[p].q = s
    BY <1>1, <1>3 DEF Resolve, TypeInv, Placed, AnswerSteps
  <2>1. UNCHANGED <<ticks, store, created>> /\ p \in Engine /\ job[p].at = "resolve"
    BY <1>1, <1>3 DEF Resolve, SibAt
  <2>2. store[s] \in Entry /\ (Unshared(s) => job[p].entry.res.status # "open")
    BY <1>1, <2>1 DEF SibAt, EngineAt, AnswerSteps, TypeInv, TypeOK
  <2>3. /\ \A r \in Procs \ {p} : job'[r] = job[r]
        /\ \/ job'[p].at \in {"idle", "next"}
           \/ job'[p].at = "apply" /\ job'[p].q = s /\ ~IsOpen(store[s])
           \/ job'[p].at = "record" /\ job'[p].q = s /\ job'[p].entry.res = job[p].entry.res
    BY <1>1, <1>3, <2>2, ResolveShape DEF Moved, Entry, IsOpen, IsSettled
  <2>4. SibAt(p)'
    BY <2>1, <2>2, <2>3 DEF SibAt, EngineAt, AskSteps, AnswerSteps, Unshared
  <2> QED
    BY <2>1, <2>3, <2>4, SibQuiet
<1>4. CASE Record(p)
  <2> PICK s \in Questions : job[p].q = s
    BY <1>1, <1>4 DEF Record, TypeInv, Placed, AnswerSteps
  <2>1. /\ UNCHANGED <<ticks, created>> /\ store' = [store EXCEPT ![s] = job[p].entry]
        /\ p \in Engine /\ job[p].at = "record"
        /\ job'[p].at \in {"drain", "apply"} /\ job'[p].q = s
        /\ \A r \in Procs \ {p} : job'[r] = job[r]
    BY <1>1, <1>4, GotoIs DEF Record, SibAt, WriteEntry
  <2>2. Unshared(s) => job[p].entry.res.status # "open"
    BY <1>1, <2>1 DEF SibAt, EngineAt, AnswerSteps
  <2>3. Unshared(s) => ~IsOpen(store'[s])
    BY <1>1, <2>1, <2>2 DEF IsOpen, TypeInv, TypeOK
  <2>4. SibAt(p)'
    BY <2>1, <2>3 DEF SibAt, EngineAt, AskSteps, AnswerSteps, Unshared
  <2>5. ASSUME NEW t \in Ticks \ Shared PROVE Suits(t, ticks[t])'
    <3>1. \A r \in Questions : TickOf[r] = t /\ IsOpen(store'[r]) => IsOpen(store[r])
      BY <1>1, <2>1, <2>3 DEF Unshared, TypeInv, TypeOK
    <3> QED
      BY <2>1, <3>1 DEF SibInv, Suits, WasSaved
  <2> QED
    BY <2>1, <2>4, <2>5, SibStep
<1> QED
  BY <1>2, <1>3, <1>4

\* What the engine makes of a tick in memory.
LEMMA AddNoteKeeps ==
  ASSUME NEW t \in TickFile, NEW line \in NoteLines, NEW r
  PROVE  /\ AddNote(t, line).status = t.status
         /\ OutOfBand(r, AddNote(t, line)) <=> OutOfBand(r, t)
<1>1. /\ AddNote(t, line).status = t.status
      /\ AddNote(t, line).awaiting = t.awaiting
      /\ AddNote(t, line).manual = t.manual
  BY DEF AddNote, TickFile, TickRecord
<1> QED
  BY <1>1 DEF OutOfBand, IsAwaitingHuman, GetAwaitingType

LEMMA SibRead ==
  ASSUME SibInv, BaseInv', OneEngine, Alike, NEW p \in Procs, Read(p)
  PROVE  SibInv'
<1>1. TypeInv /\ SibAt(p) /\ job[p].at = "read" /\ p \in Engine
  BY DEF SibInv, BaseInv, Read, SibAt
<1> PICK s \in Questions : job[p].q = s
  BY <1>1 DEF TypeInv, Placed, AnswerSteps
<1> DEFINE t == TickOf[s]
           a == job[p].entry.res.answer
           new == WithAnswer(s, ticks[t], a)
<1>2. UNCHANGED <<ticks, store, created>> /\ WasSaved(s)
  BY <1>1 DEF Read, SibInv, BaseInv, Known, AnswerSteps
<1>3. t \in Ticks /\ ticks[t] \in TickFile /\ a \in Answers \cup {None}
  BY <1>1, OperatorAssumption DEF TypeInv, TypeOK, Job, Entry, Resolution
<1>4. ASSUME Unshared(s) PROVE Suits(t, new)
  <2>1. AsksTick(s) /\ ~IsOpen(store[s]) /\ Suits(t, ticks[t])
    BY <1>1, <1>3, <1>4 DEF SibAt, EngineAt, AnswerSteps, SibInv, Unshared
  <2>2. CASE Kind[s] = "gate"
    <3>1. \A r \in Questions : TickOf[r] = t /\ AsksTick(r) => r = s
      BY <2>1, <2>2 DEF Alike
    <3> QED
      BY <1>2, <2>1, <2>2, <3>1 DEF Suits
  <2>3. CASE Kind[s] # "gate"
    <3>1. new = AddNote(ticks[t], <<s, a>>) /\ <<s, a>> \in NoteLines
      BY <1>3, <2>3 DEF WithAnswer, NoteLines
    <3> HIDE DEF new, a
    <3> QED
      BY <1>3, <2>1, <3>1, AddNoteKeeps DEF Suits
  <2> QED
    BY <2>2, <2>3
<1> HIDE DEF new, a
<1>5. /\ \A r \in Procs \ {p} : job'[r] = job[r]
      /\ \/ job'[p].at = "idle"
         \/ job'[p].at \in {"write", "siblings"} /\ job'[p].q = s /\ job'[p].tick = new
  BY <1>1, ReadShape DEF Moved, new, a
<1>6. Unshared(s) /\ job'[p].at # "idle" => Suits(TickOf[job[p].q], job[p].tick)'
  BY <1>2, <1>4, <1>5 DEF Suits, WasSaved
<1>7. Unshared(s) => ~IsOpen(store[s]) /\ AsksTick(s)
  BY <1>1 DEF SibAt, EngineAt, AnswerSteps
<1>8. SibAt(p)'
  BY <1>1, <1>2, <1>5, <1>6, <1>7 DEF SibAt, EngineAt, AskSteps, AnswerSteps, Unshared
<1> QED
  BY <1>1, <1>2, <1>5, <1>8, SibQuiet

LEMMA SibSiblings ==
  ASSUME SibInv, BaseInv', OneEngine, NEW p \in Procs, Siblings(p)
  PROVE  SibInv'
<1>1. TypeInv /\ SibAt(p) /\ job[p].at = "siblings" /\ p \in Engine
  BY DEF SibInv, BaseInv, Siblings, SibAt
<1> PICK s \in Questions : job[p].q = s
  BY <1>1 DEF TypeInv, Placed, AnswerSteps
<1> DEFINE new == IF OtherOpen(s) THEN job[p].tick ELSE ClearAwaiting(job[p].tick)
<1>2. UNCHANGED <<ticks, store, created>> /\ job[p].tick \in TickFile
  BY <1>1 DEF Siblings, TypeInv, TypeOK, Job
<1>3. Unshared(s) => AsksTick(s) /\ ~IsOpen(store[s]) /\ Suits(TickOf[s], job[p].tick)
  BY <1>1 DEF SibAt, EngineAt, AnswerSteps
<1>4. ASSUME Unshared(s) PROVE Suits(TickOf[s], new)
  <2>1. CASE OtherOpen(s)
    BY <1>3, <1>4, <2>1
  <2>2. CASE ~OtherOpen(s)
    <3>1. new.status = job[p].tick.status
      BY <1>2, <2>2 DEF ClearAwaiting, SetAwaiting, TickFile, TickRecord
    <3>2. \A r \in Questions : ~(TickOf[r] = TickOf[s] /\ AsksTick(r) /\ IsOpen(store[r]))
      BY <1>3, <1>4, <2>2 DEF OtherOpen, AsksTick
    <3> HIDE DEF new
    <3> QED
      BY <1>3, <1>4, <3>1, <3>2 DEF Suits
  <2> QED
    BY <2>1, <2>2
<1> HIDE DEF new
<1>5. /\ \A r \in Procs \ {p} : job'[r] = job[r]
      /\ job'[p].at = "write" /\ job'[p].q = s /\ job'[p].tick = new
  BY <1>1, SiblingsShape DEF Moved, new
<1>6. Unshared(s) => Suits(TickOf[job[p].q], job[p].tick)'
  BY <1>2, <1>4, <1>5 DEF Suits, WasSaved
<1>7. SibAt(p)'
  BY <1>1, <1>2, <1>3, <1>5, <1>6 DEF SibAt, EngineAt, AnswerSteps, Unshared
<1> QED
  BY <1>1, <1>2, <1>5, <1>7, SibQuiet

LEMMA SibApply ==
  ASSUME SibInv, BaseInv', OneEngine, NEW p \in Procs,
         Apply(p) \/ Check(p) \/ Write(p) \/ Mark(p) \/ Stamp(p)
  PROVE  SibInv'
<1>1. /\ TypeInv /\ SibAt(p) /\ p \in Engine
      /\ job[p].at \in {"apply", "check", "write", "mark", "stamp"}
  BY DEF SibInv, BaseInv, Apply, Check, Write, Mark, Stamp, SibAt
<1> PICK s \in Questions : job[p].q = s
  BY <1>1 DEF TypeInv, Placed, AnswerSteps
<1>2. Unshared(s) => ~IsOpen(store[s])
  BY <1>1 DEF SibAt, EngineAt, AnswerSteps
<1>3. CASE Apply(p)
  <2>1. UNCHANGED <<ticks, store, created>>
    BY <1>3 DEF Apply
  <2>2. /\ \A r \in Procs \ {p} : job'[r] = job[r]
        /\ \/ job'[p].at = "idle"
           \/ /\ job'[p].at \in {"drain", "check", "mark"} /\ job'[p].q = s
              /\ job'[p].at = "check" => AsksTick(s)
    BY <1>1, <1>3, ApplyShape DEF Moved, AsksTick
  <2>3. SibAt(p)'
    BY <1>1, <1>2, <2>1, <2>2 DEF SibAt, EngineAt, AskSteps, AnswerSteps, Unshared
  <2> QED
    BY <1>1, <2>1, <2>2, <2>3, SibQuiet
<1>4. CASE Check(p)
  <2>1. UNCHANGED <<ticks, store, created>> /\ (Unshared(s) => AsksTick(s))
    BY <1>1, <1>4 DEF Check, SibAt, EngineAt, AnswerSteps
  <2>2. /\ \A r \in Procs \ {p} : job'[r] = job[r]
        /\ \/ job'[p].at = "idle"
           \/ job'[p].at \in {"drain", "read"} /\ job'[p].q = s
    BY <1>1, <1>4, SettledShape, GotoIs DEF Check, Moved
  <2>3. SibAt(p)'
    BY <1>1, <1>2, <2>1, <2>2 DEF SibAt, EngineAt, AskSteps, AnswerSteps, Unshared
  <2> QED
    BY <1>1, <2>1, <2>2, <2>3, SibQuiet
<1>5. CASE Write(p)
  <2>1. /\ UNCHANGED <<store, created>> /\ WriteTick(TickOf[s], job[p].tick)
        /\ job'[p].at = "mark" /\ job'[p].q = s /\ \A r \in Procs \ {p} : job'[r] = job[r]
    BY <1>1, <1>5, GotoIs DEF Write
  <2>2. Unshared(s) => Suits(TickOf[s], job[p].tick)
    BY <1>1, <1>5 DEF Write, SibAt, EngineAt, AnswerSteps
  <2>3. SibAt(p)'
    BY <1>1, <1>2, <2>1 DEF SibAt, EngineAt, AskSteps, AnswerSteps, Unshared
  <2> QED
    BY <1>1, <2>1, <2>2, <2>3, SibWrite
<1>6. CASE Mark(p)
  <2>1. UNCHANGED <<ticks, store, created>> /\ store[s] \in Entry
    BY <1>1, <1>6 DEF Mark, TypeInv, TypeOK
  <2>2. /\ \A r \in Procs \ {p} : job'[r] = job[r]
        /\ \/ job'[p].at = "idle"
           \/ job'[p].at \in {"drain", "stamp"} /\ job'[p].q = s
        /\ job'[p].at = "stamp" => job'[p].entry.res.status # "open"
    BY <1>1, <1>6, <2>1, MarkShape DEF Moved, IsSettled, Entry
  <2>3. SibAt(p)'
    BY <1>1, <1>2, <2>1, <2>2 DEF SibAt, EngineAt, AskSteps, AnswerSteps, Unshared
  <2> QED
    BY <1>1, <2>1, <2>2, <2>3, SibQuiet
<1>7. CASE Stamp(p)
  <2>1. /\ UNCHANGED <<ticks, created>> /\ store' = [store EXCEPT ![s] = job[p].entry]
        /\ \A r \in Procs \ {p} : job'[r] = job[r]
        /\ \/ job'[p].at = "idle"
           \/ job'[p].at = "drain" /\ job'[p].q = s
    BY <1>1, <1>7, SettledShape DEF Stamp, WriteEntry, Moved
  <2>2. Unshared(s) => job[p].entry.res.status # "open"
    BY <1>1, <1>7 DEF Stamp, SibAt, EngineAt, AnswerSteps
  <2>3. SibAt(p)'
    BY <1>1, <2>1 DEF SibAt, EngineAt, AskSteps, AnswerSteps, Unshared
  <2>4. ASSUME NEW t \in Ticks \ Shared PROVE Suits(t, ticks[t])'
    <3>1. \A r \in Questions : TickOf[r] = t /\ IsOpen(store'[r]) => IsOpen(store[r])
      BY <1>1, <2>1, <2>2 DEF IsOpen, Unshared, TypeInv, TypeOK
    <3> QED
      BY <2>1, <3>1 DEF SibInv, Suits, WasSaved
  <2> QED
    BY <1>1, <2>1, <2>3, <2>4, SibStep
<1> QED
  BY <1>3, <1>4, <1>5, <1>6, <1>7

LEMMA SibCollect ==
  ASSUME SibInv, BaseInv', OneEngine, NEW p \in Procs,
         \/ \E role \in {"collect", "await"} : StartCollect(p, role)
         \/ TakeNext(p) \/ Watch(p) \/ TimeOut(p) \/ Drain(p) \/ Finish(p)
  PROVE  SibInv'
<1>1. TypeInv /\ SibAt(p)
  BY DEF SibInv, BaseInv
<1>2. UNCHANGED <<ticks, created>> /\ p \in Engine
  BY <1>1 DEF StartCollect, TakeNext, Watch, TimeOut, Drain, Finish, SibAt, Engine
<1>3. \A q \in Questions : IsOpen(store'[q]) => IsOpen(store[q])
  <2>1. CASE Drain(p)
    BY <1>1, <2>1 DEF Drain, IsOpen, Missing, TypeInv, TypeOK
  <2>2. CASE ~Drain(p)
    BY <2>2 DEF StartCollect, TakeNext, Watch, TimeOut, Finish
  <2> QED
    BY <2>1, <2>2
<1> SUFFICES (\A r \in Procs \ {p} : job'[r] = job[r]) /\ SibAt(p)'
  BY <1>2, <1>3, SibQuiet
<1>4. CASE \E role \in {"collect", "await"} : StartCollect(p, role)
  BY <1>1, <1>2, <1>4, StartShape DEF StartStep, SibAt, AskSteps, AnswerSteps
<1>5. CASE TakeNext(p)
  BY <1>1, <1>2, <1>5, TakeNextShape
     DEF TakeNext, SibAt, EngineAt, AskSteps, AnswerSteps, IsSettled, IsOpen
<1>6. CASE Watch(p)
  BY <1>1, <1>2, <1>6, WatchShape DEF SibAt, EngineAt, AskSteps, AnswerSteps, Moot
<1>7. CASE TimeOut(p) \/ Drain(p) \/ Finish(p)
  BY <1>1, <1>2, <1>7, BecomeIs, IdleType, SkippedType
     DEF TimeOut, Drain, Finish, SibAt, AskSteps, AnswerSteps
<1> QED
  BY <1>4, <1>5, <1>6, <1>7

LEMMA SibRest ==
  ASSUME SibInv, BaseInv', NEW p \in Procs,
         \/ \E t \in Ticks, verdict \in Verdict : StartVerdict(p, t, verdict)
         \/ \E q \in Questions : StartDeliver(p, q)
         \/ WriteVerdict(p) \/ Deliver(p) \/ Fail(p)
  PROVE  SibInv'
<1>1. TypeInv /\ SibAt(p) /\ TickOf \in [Questions -> Ticks]
  BY OperatorAssumption DEF SibInv, BaseInv
<1>2. ASSUME NEW t \in Ticks, NEW v \in Verdict, StartVerdict(p, t, v) PROVE SibInv'
  <2>1. UNCHANGED <<ticks, store, created>> /\ t \in Shared
    BY <1>2 DEF StartVerdict
  <2>2. /\ job'[p].at = "verdict" /\ job'[p].on = t
        /\ \A r \in Procs \ {p} : job'[r] = job[r]
    BY <1>1, <1>2, StartShape DEF StartStep, Verdict
  <2> QED
    BY <2>1, <2>2, SibOutside DEF Elsewhere
<1>3. ASSUME NEW q \in Questions, StartDeliver(p, q) PROVE SibInv'
  <2>1. UNCHANGED <<ticks, store, created>> /\ TickOf[q] \in Shared
    BY <1>3 DEF StartDeliver
  <2>2. /\ job'[p].at = "deliver" /\ job'[p].q = q
        /\ \A r \in Procs \ {p} : job'[r] = job[r]
    BY <1>1, <1>3, StartShape DEF StartStep
  <2> QED
    BY <2>1, <2>2, SibOutside DEF Elsewhere, Unshared
<1>4. CASE WriteVerdict(p)
  <2>1. /\ UNCHANGED <<store, created>>
        /\ ticks' = [ticks EXCEPT ![job[p].on] = job[p].tick] /\ job[p].on \in Shared
        /\ job'[p].at = "idle" /\ \A r \in Procs \ {p} : job'[r] = job[r]
    BY <1>1, <1>4, BecomeIs, IdleType DEF WriteVerdict, WriteTick, SibAt, Elsewhere
  <2>2. \A t \in Ticks \ Shared : ticks'[t] = ticks[t]
    BY <1>1, <2>1 DEF TypeInv, TypeOK
  <2> QED
    BY <2>1, <2>2, SibOutside DEF Elsewhere
<1>5. CASE Deliver(p)
  <2>1. /\ UNCHANGED <<ticks, created>>
        /\ store' = [store EXCEPT ![job[p].q] = job[p].entry] /\ ~Unshared(job[p].q)
        /\ job'[p].at = "idle" /\ \A r \in Procs \ {p} : job'[r] = job[r]
    BY <1>1, <1>5, BecomeIs, IdleType DEF Deliver, WriteEntry, SibAt, Elsewhere
  <2>2. \A q \in Questions : Unshared(q) => store'[q] = store[q]
    BY <1>1, <2>1 DEF TypeInv, TypeOK
  <2> QED
    BY <2>1, <2>2, SibOutside DEF Elsewhere
<1>6. CASE Fail(p)
  <2>1. /\ UNCHANGED <<ticks, store, created>>
        /\ job'[p].at = "idle" /\ \A r \in Procs \ {p} : job'[r] = job[r]
    BY <1>1, <1>6, BecomeIs, IdleType DEF Fail
  <2> QED
    BY <2>1, SibOutside DEF Elsewhere
<1> QED
  BY <1>2, <1>3, <1>4, <1>5, <1>6

LEMMA SibNext ==
  ASSUME OneEngine, Alike
  PROVE  SibInv /\ [Next]_vars => SibInv'
<1> SUFFICES ASSUME SibInv, [Next]_vars PROVE SibInv'
  OBVIOUS
<1>1. BaseInv'
  BY BaseNext DEF SibInv
<1>2. CASE UNCHANGED vars
  BY <1>1, <1>2 DEF vars, SibInv, Suits, SibAt, EngineAt, Elsewhere, Parks, TickFor, WasSaved
<1>3. CASE Next
  BY <1>1, <1>3, NextCases, SibAsk, SibAnswer, SibRead, SibSiblings, SibApply, SibCollect,
     SibRest DEF Acts
<1> QED
  BY <1>2, <1>3

\* The tick of an open question stays parked in the state the question asked for,
\* in two settings: each tick is asked about once, by any commands that crash as
\* they please; or ticks collect any number of questions for a text, from one engine
\* process.  With two processes and two questions on a tick it does not hold: tk ask
\* parks the tick outside the lock and may register after the look at the siblings.
THEOREM OpenKeepsPark ==
  ASSUME (NoBridges /\ Isolated) \/ (OneEngine /\ Alike)
  PROVE  Spec => []OpenIsParked
<1>1. CASE NoBridges /\ Isolated
  <2>1. ParkInv => OpenIsParked
    BY DEF ParkInv, ParkOf, OpenIsParked, Parks, TickFor, Unshared
  <2>2. ParkInv /\ [Next]_vars => ParkInv'
    BY <1>1, ParkNext
  <2> QED
    BY <2>1, <2>2, ParkInit, PTL DEF Spec
<1>2. CASE OneEngine /\ Alike
  <2>1. SibInv => OpenIsParked
    BY OperatorAssumption DEF SibInv, Suits, OpenIsParked, AsksTick
  <2>2. Init => SibInv
    <3> SUFFICES ASSUME Init PROVE SibInv
      OBVIOUS
    <3>1. \A p \in Procs : job[p].at = "idle"
      BY IdleType DEF Init
    <3>2. \A t \in Ticks : Suits(t, ticks[t])
      BY DEF Init, Suits, NewTick, IsOpen, Missing
    <3>3. \A p \in Procs : SibAt(p)
      BY <3>1 DEF SibAt, AskSteps, AnswerSteps
    <3> QED
      BY BaseInit, <3>2, <3>3 DEF SibInv
  <2>3. SibInv /\ [Next]_vars => SibInv'
    BY <1>2, SibNext
  <2> QED
    BY <2>1, <2>2, <2>3, PTL DEF Spec
<1> QED
  BY <1>1, <1>2

-----------------------------------------------------------------------------
(***************************************************************************)
(* A tick of the engine waits for a human only while there is a question   *)
(* to answer.                                                              *)
(***************************************************************************)
\* A step moves one process.
LEMMA OthersStay ==
  ASSUME TypeInv, NEW p \in Procs, Acts(p)
  PROVE  \A r \in Procs \ {p} : job'[r] = job[r]
<1> SUFFICES \E j : Become(p, j)
  BY BecomeIs
<1>1. CASE \/ Park(p) \/ Save(p) \/ \E q \in Questions : StartAsk(p, q)
           \/ Resolve(p) \/ Record(p)
           \/ \E q \in Questions, a \in Answers : StartAnswer(p, q, a)
  BY <1>1 DEF Park, Save, StartAsk, Resolve, Record, StartAnswer, Goto
<1>2. CASE \/ Apply(p) \/ Check(p) \/ Read(p) \/ Siblings(p) \/ Write(p)
           \/ Mark(p) \/ Stamp(p)
  BY <1>2 DEF Apply, Check, Read, Siblings, Write, Mark, Stamp, Goto
<1>3. CASE \/ \E role \in {"collect", "await"} : StartCollect(p, role)
           \/ TakeNext(p) \/ Watch(p) \/ TimeOut(p) \/ Drain(p) \/ Finish(p)
  BY <1>3 DEF StartCollect, TakeNext, Watch, TimeOut, Drain, Finish
<1>4. CASE \/ \E t \in Ticks, verdict \in Verdict : StartVerdict(p, t, verdict)
           \/ \E q \in Questions : StartDeliver(p, q)
           \/ WriteVerdict(p) \/ Deliver(p) \/ Fail(p)
  BY <1>4 DEF StartVerdict, StartDeliver, WriteVerdict, Deliver, Fail
<1> QED
  BY <1>1, <1>2, <1>3, <1>4 DEF Acts

\* Most steps write no tick and save no question.
LEMMA QuietStep ==
  ASSUME NEW p \in Procs, Acts(p),
         ~(Park(p) \/ Save(p) \/ Write(p) \/ WriteVerdict(p) \/ Fail(p))
  PROVE  UNCHANGED <<ticks, created>> /\ job[p].at # "save"
<1>1. CASE \/ \E q \in Questions : StartAsk(p, q)
           \/ Resolve(p) \/ Record(p)
           \/ \E q \in Questions, a \in Answers : StartAnswer(p, q, a)
  BY <1>1 DEF StartAsk, Resolve, Record, StartAnswer
<1>2. CASE Apply(p) \/ Check(p) \/ Read(p) \/ Siblings(p) \/ Mark(p) \/ Stamp(p)
  BY <1>2 DEF Apply, Check, Read, Siblings, Mark, Stamp
<1>3. CASE \/ \E role \in {"collect", "await"} : StartCollect(p, role)
           \/ TakeNext(p) \/ Watch(p) \/ TimeOut(p) \/ Drain(p) \/ Finish(p)
  BY <1>3 DEF StartCollect, TakeNext, Watch, TimeOut, Drain, Finish
<1>4. CASE \/ \E t \in Ticks, verdict \in Verdict : StartVerdict(p, t, verdict)
           \/ \E q \in Questions : StartDeliver(p, q)
           \/ Deliver(p)
  BY <1>4 DEF StartVerdict, StartDeliver, Deliver
<1> QED
  BY <1>1, <1>2, <1>3, <1>4 DEF Acts

\* Nobody parks a tick and dies before the question is saved.
AskedFor(t) ==
  \E q \in Questions :
    /\ TickOf[q] = t
    /\ WasSaved(q) \/ \E p \in Procs : job[p].at = "save" /\ job[p].q = q

AskedInv ==
  /\ ParkInv
  /\ \A t \in Ticks \ Shared : IsAwaitingHuman(ticks[t]) => AskedFor(t)

LEMMA AskedNext ==
  ASSUME NoBridges, Isolated, MaxFaults = 0
  PROVE  AskedInv /\ [Next]_vars => AskedInv'
<1> SUFFICES ASSUME AskedInv, [Next]_vars PROVE AskedInv'
  OBVIOUS
<1>1. ParkInv /\ ParkInv' /\ TypeInv
  BY ParkNext DEF AskedInv, ParkInv, RecordedInv, BaseInv
<1>2. CASE UNCHANGED vars
  BY <1>1, <1>2 DEF vars, AskedInv, AskedFor, WasSaved
<1> SUFFICES ASSUME NEW p \in Procs, Acts(p) PROVE AskedInv'
  BY <1>2, NextCases
<1>3. ASSUME NEW t \in Ticks \ Shared, IsAwaitingHuman(ticks'[t]) PROVE AskedFor(t)'
  <2>1. CASE Park(p)
    <3> PICK s \in Questions : job[p].q = s
      BY <1>1, <2>1 DEF Park, TypeInv, Placed, AskSteps
    <3>1. /\ job'[p].at = "save" /\ job'[p].q = s
          /\ \A r \in Procs \ {p} : job'[r] = job[r]
          /\ ticks' = [ticks EXCEPT ![TickOf[s]] = job[p].tick] /\ created' = created
      BY <1>1, <2>1, GotoIs DEF Park, WriteTick
    <3>2. CASE t = TickOf[s]
      BY <3>1, <3>2 DEF AskedFor
    <3>3. CASE t # TickOf[s]
      <4>1. AskedFor(t)
        BY <1>1, <1>3, <3>1, <3>3 DEF TypeInv, TypeOK, AskedInv
      <4> QED
        BY <2>1, <3>1, <4>1 DEF AskedFor, WasSaved, Park
    <3> QED
      BY <3>2, <3>3
  <2>2. CASE Save(p)
    <3> PICK s \in Questions : job[p].q = s
      BY <1>1, <2>2 DEF Save, TypeInv, Placed, AskSteps
    <3>1. AskedFor(t)
      BY <1>3, <2>2 DEF Save, AskedInv
    <3>2. \A x : WasSaved(x)' <=> (WasSaved(x) \/ x = s)
      BY <1>1, <2>2, AppendSaves DEF Save, TypeInv, TypeOK
    <3>3. \A r \in Procs \ {p} : job'[r] = job[r]
      BY <1>1, <2>2, BecomeIs DEF Save
    <3> QED
      BY <3>1, <3>2, <3>3 DEF AskedFor
  <2>3. CASE Write(p)
    <3> PICK s \in Questions : job[p].q = s
      BY <1>1, <2>3 DEF Write, TypeInv, Placed, AnswerSteps
    <3>1. /\ \A r \in Procs \ {p} : job'[r] = job[r]
          /\ ticks' = [ticks EXCEPT ![TickOf[s]] = job[p].tick] /\ created' = created
      BY <1>1, <2>3, GotoIs DEF Write, WriteTick
    <3>2. WasSaved(s)
      BY <1>1, <2>3 DEF Write, ParkInv, RecordedInv, BaseInv, Known, AnswerSteps
    <3>3. CASE t = TickOf[s]
      BY <3>1, <3>2, <3>3 DEF AskedFor, WasSaved
    <3>4. CASE t # TickOf[s]
      <4>1. AskedFor(t)
        BY <1>1, <1>3, <3>1, <3>4 DEF TypeInv, TypeOK, AskedInv
      <4> QED
        BY <2>3, <3>1, <4>1 DEF AskedFor, WasSaved, Write
    <3> QED
      BY <3>3, <3>4
  <2>4. CASE WriteVerdict(p)
    <3>1. /\ \A r \in Procs \ {p} : job'[r] = job[r]
          /\ ticks' = [ticks EXCEPT ![job[p].on] = job[p].tick] /\ created' = created
      BY <1>1, <2>4, BecomeIs DEF WriteVerdict, WriteTick
    <3>2. job[p].on \in Shared
      BY <1>1, <2>4 DEF WriteVerdict, ParkInv
    <3>3. AskedFor(t)
      BY <1>1, <1>3, <3>1, <3>2 DEF TypeInv, TypeOK, AskedInv
    <3> QED
      BY <2>4, <3>1, <3>3 DEF AskedFor, WasSaved, WriteVerdict
  <2>5. CASE Fail(p)
    BY <1>1, <2>5 DEF Fail, TypeInv, TypeOK
  <2>6. CASE ~(Park(p) \/ Save(p) \/ Write(p) \/ WriteVerdict(p) \/ Fail(p))
    <3>1. UNCHANGED <<ticks, created>> /\ job[p].at # "save"
      BY <2>6, QuietStep
    <3>2. \A r \in Procs \ {p} : job'[r] = job[r]
      BY <1>1, OthersStay
    <3> QED
      BY <1>3, <3>1, <3>2 DEF AskedInv, AskedFor, WasSaved
  <2> QED
    BY <2>1, <2>2, <2>3, <2>4, <2>5, <2>6
<1> QED
  BY <1>1, <1>3 DEF AskedInv

\* A tick that waits for a human has a question, if commands run to their end.
THEOREM ParkedIsAsked ==
  ASSUME NoBridges, Isolated, MaxFaults = 0
  PROVE  Spec => []ParkedHasQuestion
<1>1. Init => AskedInv
  <2>1. Init => \A t \in Ticks : ~IsAwaitingHuman(ticks[t])
    BY DEF Init, NewTick, IsAwaitingHuman
  <2> QED
    BY <2>1, ParkInit DEF AskedInv
<1>2. AskedInv => ParkedHasQuestion
  <2> SUFFICES ASSUME AskedInv, NEW t \in Ticks \ Shared, IsAwaitingHuman(ticks[t])
               PROVE  \/ \E q \in Questions : /\ TickOf[q] = t /\ Kind[q] # "agent_relay"
                                             /\ store[q].there /\ ~store[q].applied
                      \/ \E p \in Procs : job[p].q # None /\ TickOf[job[p].q] = t
    BY DEF ParkedHasQuestion
  <2>1. PICK q \in Questions :
          /\ TickOf[q] = t
          /\ WasSaved(q) \/ \E p \in Procs : job[p].at = "save" /\ job[p].q = q
    BY DEF AskedInv, AskedFor
  <2>2. Waits(q) /\ Unshared(q) /\ Kind[q] # "agent_relay"
    BY <2>1 DEF Waits, Unshared, TickFor, Isolated
  <2>3. CASE WasSaved(q)
    <3>1. store[q].there
      BY <2>2, <2>3 DEF AskedInv, ParkInv, ParkOf
    <3>2. ~store[q].applied
      BY <2>2, EffectUnparks DEF AskedInv, ParkInv
    <3> QED
      BY <2>1, <2>2, <3>1, <3>2
  <2>4. CASE \E p \in Procs : job[p].at = "save" /\ job[p].q = q
    BY <2>1, <2>4, OperatorAssumption
  <2> QED
    BY <2>1, <2>3, <2>4
<1> QED
  BY <1>1, <1>2, AskedNext, PTL DEF Spec

-----------------------------------------------------------------------------
(***************************************************************************)
(* An answer is deleted only once it has taken effect, or its question was *)
(* found moot.  A collector deletes a question that it has settled, and    *)
(* settles one in one of these ways: it applied the answer; the entry was  *)
(* stamped before; it found the tick decided, and then so does the history *)
(* of the tick's writes; or somebody ruled the question moot, who had seen *)
(* that himself.                                                           *)
(***************************************************************************)
Ruled(res) == res.status = "cancelled"

DropAt(p) ==
  LET at == job[p].at  q == job[p].q  e == job[p].entry IN
  /\ at \in AnswerSteps /\ Ruled(e.res) => q \in moot
  /\ at \in {"record", "stamp", "deliver"} => e.there
  /\ at \in {"resolve", "record", "apply"} => e.res.status # "open"
  /\ at \in {"resolve", "record"} /\ job[p].role = "await" => Ruled(e.res)
  /\ at = "drain" => effects[q] >= 1 \/ q \in moot

DropInv ==
  /\ BaseInv /\ StampInv
  /\ \A q \in Questions : WasSaved(q) /\ OutOfBand(q, ticks[TickOf[q]]) => q \in moot
  /\ \A q \in Questions : Ruled(store[q].res) => q \in moot
  /\ \A p \in Procs : DropAt(p)

LEMMA DropStep ==
  ASSUME DropInv, BaseInv', StampInv', NEW p \in Procs,
         \A r \in Procs \ {p} : job'[r] = job[r],
         moot \subseteq moot', \A q \in Questions : effects'[q] >= effects[q],
         \A q \in Questions : WasSaved(q)' /\ OutOfBand(q, ticks'[TickOf[q]]) => q \in moot',
         \A q \in Questions : Ruled(store'[q].res) => q \in moot',
         DropAt(p)'
  PROVE  DropInv'
<1> SUFFICES ASSUME NEW r \in Procs \ {p} PROVE DropAt(r)'
  BY DEF DropInv
<1>1. job'[r] = job[r] /\ DropAt(r)
  BY DEF DropInv
<1>2. job[r].at \in AnswerSteps => job[r].q \in Questions
  BY DEF DropInv, BaseInv, TypeInv, Placed
<1>3. \A q \in Questions : effects[q] \in Nat /\ effects'[q] \in Nat
  BY DEF DropInv, BaseInv, TypeInv, TypeOK
<1> QED
  BY <1>1, <1>2, <1>3 DEF DropAt, AnswerSteps

\* Steps that write no tick and no entry, and count no effect.
LEMMA DropSame ==
  ASSUME DropInv, BaseInv', StampInv', NEW p \in Procs,
         UNCHANGED <<ticks, store, created, effects, moot>>,
         \A r \in Procs \ {p} : job'[r] = job[r],
         DropAt(p)'
  PROVE  DropInv'
<1>1. \A q \in Questions : effects'[q] >= effects[q] /\ (WasSaved(q)' <=> WasSaved(q))
  BY DEF DropInv, BaseInv, TypeInv, TypeOK, WasSaved
<1> QED
  BY <1>1, DropStep DEF DropInv

\* A write of a tick makes moot what it takes out of its state.
LEMMA DropWrite ==
  ASSUME DropInv, NEW t \in Ticks, NEW new, WriteTick(t, new), created' = created
  PROVE  /\ moot \subseteq moot'
         /\ \A q \in Questions : WasSaved(q)' /\ OutOfBand(q, ticks'[TickOf[q]]) => q \in moot'
<1>1. ticks' = [ticks EXCEPT ![t] = new] /\ TickOf \in [Questions -> Ticks]
      /\ ticks \in [Ticks -> TickFile]
  BY OperatorAssumption DEF WriteTick, DropInv, BaseInv, TypeInv, TypeOK
<1>2. ASSUME NEW q \in Questions, WasSaved(q), OutOfBand(q, ticks'[TickOf[q]])
      PROVE  q \in moot'
  <2>1. CASE TickOf[q] = t
    BY <1>1, <1>2, <2>1 DEF WriteTick
  <2>2. CASE TickOf[q] # t
    BY <1>1, <1>2, <2>2 DEF WriteTick, DropInv
  <2> QED
    BY <2>1, <2>2
<1> QED
  BY <1>2 DEF WriteTick, WasSaved

LEMMA DropAsk ==
  ASSUME DropInv, BaseInv', StampInv', NEW p \in Procs,
         Park(p) \/ Save(p) \/ \E q \in Questions : StartAsk(p, q)
  PROVE  DropInv'
<1>1. TypeInv /\ \A q \in Questions : effects[q] \in Nat
  BY DEF DropInv, BaseInv, TypeInv, TypeOK
<1>2. ASSUME NEW q \in Questions, StartAsk(p, q) PROVE DropInv'
  <2>1. job'[p].at \in AskSteps /\ \A r \in Procs \ {p} : job'[r] = job[r]
    BY <1>1, <1>2, StartShape DEF StartStep
  <2>2. UNCHANGED <<ticks, store, created, effects, moot>>
    BY <1>2 DEF StartAsk
  <2> QED
    BY <2>1, <2>2, DropSame DEF DropAt, AskSteps, AnswerSteps
<1>3. CASE Park(p)
  <2>1. job[p].q \in Questions /\ TickOf[job[p].q] \in Ticks
    BY <1>1, <1>3, OperatorAssumption DEF Park, TypeInv, Placed, AskSteps
  <2>2. job'[p].at = "save" /\ \A r \in Procs \ {p} : job'[r] = job[r]
    BY <1>1, <1>3, GotoIs DEF Park
  <2>3. UNCHANGED <<store, created, effects>> /\ WriteTick(TickOf[job[p].q], job[p].tick)
    BY <1>3 DEF Park
  <2>4. /\ moot \subseteq moot'
        /\ \A q \in Questions : WasSaved(q)' /\ OutOfBand(q, ticks'[TickOf[q]]) => q \in moot'
    BY <2>1, <2>3, DropWrite
  <2>5. DropAt(p)'
    BY <2>2 DEF DropAt, AnswerSteps
  <2> QED
    BY <1>1, <2>2, <2>3, <2>4, <2>5, DropStep DEF DropInv
<1>4. CASE Save(p)
  <2> PICK s \in Questions : job[p].q = s
    BY <1>1, <1>4 DEF Save, TypeInv, Placed, AskSteps
  <2>1. /\ UNCHANGED <<ticks, effects>> /\ WriteEntry(s, Asked)
        /\ created' = Append(created, s)
        /\ moot' = IF OutOfBand(s, ticks[TickOf[s]]) THEN moot \cup {s} ELSE moot
        /\ job'[p].at = "idle" /\ \A r \in Procs \ {p} : job'[r] = job[r]
    BY <1>1, <1>4, BecomeIs, IdleType DEF Save
  <2>2. \A x : WasSaved(x)' <=> (WasSaved(x) \/ x = s)
    BY <1>1, <2>1, AppendSaves DEF TypeInv, TypeOK
  <2>3. \A q \in Questions : WasSaved(q)' /\ OutOfBand(q, ticks'[TickOf[q]]) => q \in moot'
    BY <2>1, <2>2 DEF DropInv
  <2>4. ~Ruled(Asked.res)
    BY DEF Ruled, Asked, Missing, Open
  <2>5. \A q \in Questions : Ruled(store'[q].res) => q \in moot'
    BY <1>1, <2>1, <2>4 DEF DropInv, WriteEntry, TypeInv, TypeOK
  <2>6. DropAt(p)'
    BY <2>1 DEF DropAt, AnswerSteps
  <2> QED
    BY <1>1, <2>1, <2>3, <2>5, <2>6, DropStep
<1> QED
  BY <1>2, <1>3, <1>4

LEMMA DropAnswer ==
  ASSUME DropInv, BaseInv', StampInv', NEW p \in Procs,
         \/ Resolve(p) \/ Record(p)
         \/ \E q \in Questions, a \in Answers : StartAnswer(p, q, a)
  PROVE  DropInv'
<1>1. TypeInv /\ DropAt(p) /\ \A q \in Questions : effects[q] \in Nat
  BY DEF DropInv, BaseInv, TypeInv, TypeOK
<1>2. ASSUME NEW q \in Questions, NEW a \in Answers, StartAnswer(p, q, a) PROVE DropInv'
  <2>1. /\ job'[p].at = "resolve" /\ job'[p].entry = [Missing EXCEPT !.res = Answer(a)]
        /\ \A r \in Procs \ {p} : job'[r] = job[r]
    BY <1>1, <1>2, StartShape DEF StartStep
  <2>2. job'[p].role = "answer"
    <3> DEFINE j == [Idle EXCEPT !.at = "resolve", !.role = "answer", !.q = q,
                                 !.entry.res = Answer(a)]
    <3>1. job'[p] = j
      BY <1>1, <1>2, BecomeIs DEF StartAnswer
    <3>2. j.role = "answer"
      BY IdleType DEF Job
    <3> QED
      BY <3>1, <3>2
  <2>3. UNCHANGED <<ticks, store, created, effects, moot>>
    BY <1>2 DEF StartAnswer
  <2>4. job'[p].entry.res.status = "answered"
    BY <2>1 DEF Missing, Answer
  <2> QED
    BY <2>1, <2>2, <2>3, <2>4, DropSame DEF DropAt, Ruled
<1>3. CASE Resolve(p)
  <2> PICK s \in Questions : job[p].q = s
    BY <1>1, <1>3 DEF Resolve, TypeInv, Placed, AnswerSteps
  <2>1. UNCHANGED <<ticks, store, created, effects, moot>> /\ job[p].at = "resolve"
    BY <1>3 DEF Resolve
  <2>2. store[s] \in Entry /\ (Ruled(store[s].res) => s \in moot)
    BY <1>1 DEF DropInv, TypeInv, TypeOK
  <2>3. DropAt(p)'
    <3>1. CASE job'[p].at \in {"idle", "next"}
      BY <3>1 DEF DropAt, AnswerSteps
    <3>2. CASE job'[p].at = "apply"
      BY <1>1, <1>3, <2>1, <2>2, <3>2, ResolveShape DEF DropAt, IsSettled, Moved
    <3>3. CASE job'[p].at = "record"
      <4>1. /\ job'[p].q = s /\ job'[p].role = job[p].role /\ IsOpen(store[s])
            /\ job'[p].entry = [store[s] EXCEPT !.res = job[p].entry.res]
        BY <1>1, <1>3, <3>3, ResolveShape DEF Moved
      <4>2. job'[p].entry.res = job[p].entry.res /\ job'[p].entry.there
        BY <2>2, <4>1 DEF Entry, IsOpen
      <4> QED
        BY <1>1, <2>1, <3>3, <4>1, <4>2 DEF DropAt, AnswerSteps
    <3> QED
      BY <1>1, <1>3, <3>1, <3>2, <3>3, ResolveShape
  <2> QED
    BY <1>1, <1>3, <2>1, <2>3, ResolveShape, DropSame
<1>4. CASE Record(p)
  <2> PICK s \in Questions : job[p].q = s
    BY <1>1, <1>4 DEF Record, TypeInv, Placed, AnswerSteps
  <2>1. /\ UNCHANGED <<ticks, created, effects, moot>> /\ WriteEntry(s, job[p].entry)
        /\ job[p].at = "record"
        /\ job'[p].at = (IF job[p].role = "await" THEN "drain" ELSE "apply")
        /\ job'[p].q = s /\ job'[p].role = job[p].role /\ job'[p].entry = job[p].entry
        /\ \A r \in Procs \ {p} : job'[r] = job[r]
    BY <1>1, <1>4, GotoIs DEF Record
  <2>2. \A q \in Questions : Ruled(store'[q].res) => q \in moot'
    BY <1>1, <2>1 DEF DropInv, DropAt, WriteEntry, AnswerSteps, TypeInv, TypeOK
  <2>3. DropAt(p)'
    BY <1>1, <2>1 DEF DropAt, AnswerSteps
  <2>4. \A q \in Questions : effects'[q] >= effects[q] /\ (WasSaved(q)' <=> WasSaved(q))
    BY <1>1, <2>1 DEF WasSaved
  <2> QED
    BY <1>1, <2>1, <2>2, <2>3, <2>4, DropStep DEF DropInv
<1> QED
  BY <1>2, <1>3, <1>4

\* Apply gives a question up when it is stamped, or was ruled moot.
LEMMA DropApply ==
  ASSUME DropInv, BaseInv', StampInv', NEW p \in Procs, Apply(p)
  PROVE  DropInv'
<1>1. TypeInv /\ DropAt(p) /\ job[p].at = "apply"
  BY DEF DropInv, BaseInv, Apply
<1> PICK s \in Questions : job[p].q = s
  BY <1>1 DEF TypeInv, Placed, AnswerSteps
<1> DEFINE fresh == store[s]
           e == IF IsSettled(fresh) THEN fresh ELSE job[p].entry
           relay == Kind[s] = "agent_relay"
           at == IF relay THEN "mark" ELSE "check"
           j == [job[p] EXCEPT !.at = at, !.entry = e]
<1>2. UNCHANGED <<ticks, store, created, effects, moot>>
  BY DEF Apply
<1>3. /\ fresh \in Entry /\ job[p].entry \in Entry
      /\ Ruled(fresh.res) => s \in moot
      /\ Ruled(job[p].entry.res) => s \in moot
      /\ job[p].entry.res.status # "open"
      /\ fresh.applied => effects[s] >= 1
  BY <1>1 DEF DropInv, DropAt, AnswerSteps, StampInv, TypeInv, TypeOK, Job
<1>4. e \in Entry /\ (Ruled(e.res) => s \in moot) /\ e.res.status # "open"
  BY <1>3 DEF IsSettled
<1>5. \/ /\ Become(p, Settled(p))
         /\ \/ job[p].entry.res.status # "answered"
            \/ fresh.applied
            \/ e.res.status # "answered"
      \/ Become(p, j)
  BY DEF Apply
<1>6. \A x \in {e, job[p].entry} : x.res.status # "answered" => s \in moot
  BY <1>3, <1>4 DEF Ruled, Entry, Resolution
<1>7. CASE Become(p, j)
  <2>1. j.at = at /\ j.entry = e /\ j.q = s
    BY <1>1 DEF TypeInv, TypeOK, Job
  <2> HIDE DEF j
  <2>2. job'[p] = j /\ \A r \in Procs \ {p} : job'[r] = job[r]
    BY <1>1, <1>7, BecomeIs
  <2>3. DropAt(p)'
    BY <1>2, <1>4, <2>1, <2>2 DEF DropAt
  <2> QED
    BY <1>2, <2>2, <2>3, DropSame
<1>8. CASE Become(p, Settled(p)) /\ (s \in moot \/ effects[s] >= 1)
  <2>1. /\ \A r \in Procs \ {p} : job'[r] = job[r]
        /\ \/ job'[p].at = "idle"
           \/ job'[p].at = "drain" /\ job'[p].q = s /\ job'[p].entry = job[p].entry
    BY <1>1, <1>8, SettledShape DEF Moved
  <2>2. DropAt(p)'
    BY <1>2, <1>3, <1>8, <2>1 DEF DropAt, AnswerSteps
  <2> QED
    BY <1>2, <2>1, <2>2, DropSame
<1> QED
  BY <1>3, <1>5, <1>6, <1>7, <1>8

LEMMA DropCheck ==
  ASSUME DropInv, BaseInv', StampInv', NEW p \in Procs,
         Check(p) \/ Read(p) \/ Siblings(p)
  PROVE  DropInv'
<1>1. TypeInv /\ DropAt(p) /\ job[p].at \in {"check", "read", "siblings"}
  BY DEF DropInv, BaseInv, Check, Read, Siblings
<1> PICK s \in Questions : job[p].q = s
  BY <1>1 DEF TypeInv, Placed, AnswerSteps
<1>2. UNCHANGED <<ticks, store, created, effects, moot>>
  BY DEF Check, Read, Siblings
<1>3. WasSaved(s) /\ (Ruled(job[p].entry.res) => s \in moot)
  BY <1>1 DEF DropInv, BaseInv, Known, DropAt, AnswerSteps
<1> SUFFICES /\ \A r \in Procs \ {p} : job'[r] = job[r]
             /\ \/ job'[p].at = "idle"
                \/ /\ job'[p].at \in {"drain", "read", "siblings", "write"}
                   /\ job'[p].q = s /\ job'[p].entry = job[p].entry
                   /\ job'[p].at = "drain" => s \in moot
  <2>1. DropAt(p)'
    BY <1>2, <1>3 DEF DropAt, AnswerSteps
  <2> QED
    BY <1>2, <2>1, DropSame
<1>4. CASE Check(p)
  <2>1. CASE OutOfBand(s, ticks[TickOf[s]])
    <3>1. s \in moot /\ Become(p, Settled(p))
      BY <1>3, <1>4, <2>1 DEF DropInv, Check
    <3> QED
      BY <1>1, <3>1, SettledShape DEF Moved
  <2>2. CASE ~OutOfBand(s, ticks[TickOf[s]])
    <3>1. Goto(p, "read")
      BY <1>4, <2>2 DEF Check
    <3> QED
      BY <1>1, <3>1, GotoIs
  <2> QED
    BY <2>1, <2>2
<1>5. CASE Read(p) \/ Siblings(p)
  BY <1>1, <1>5, ReadShape, SiblingsShape DEF Moved
<1> QED
  BY <1>4, <1>5

LEMMA DropEffect ==
  ASSUME DropInv, BaseInv', StampInv', NEW p \in Procs, Write(p) \/ Mark(p)
  PROVE  DropInv'
<1>1. /\ TypeInv /\ DropAt(p) /\ StampAt(p) /\ job[p].at \in {"write", "mark"}
      /\ effects \in [Questions -> Nat]
  BY DEF DropInv, StampInv, BaseInv, Write, Mark, TypeInv, TypeOK
<1> PICK s \in Questions : job[p].q = s
  BY <1>1 DEF TypeInv, Placed, AnswerSteps
<1>2. UNCHANGED <<store, created>>
  BY DEF Write, Mark
<1>3. effects' = effects \/ effects' = [effects EXCEPT ![s] = @ + 1]
  BY DEF Write, Mark
<1>4. /\ \A q \in Questions : effects[q] \in Nat /\ effects'[q] >= effects[q]
      /\ Mark(p) => effects'[s] >= 1
  <2>1. \A q \in Questions : effects[q] \in Nat /\ effects'[q] >= effects[q]
    BY <1>1, <1>3
  <2>2. ASSUME Mark(p), Kind[s] = "agent_relay" PROVE effects'[s] >= 1
    BY <1>1, <2>2 DEF Mark
  <2>3. ASSUME Mark(p), Kind[s] # "agent_relay" PROVE effects'[s] >= 1
    BY <1>1, <2>3 DEF Mark, StampAt
  <2> QED
    BY <2>1, <2>2, <2>3
<1>5. /\ moot \subseteq moot'
      /\ \A q \in Questions : WasSaved(q)' /\ OutOfBand(q, ticks'[TickOf[q]]) => q \in moot'
  <2>1. CASE Write(p)
    <3>1. TickOf[s] \in Ticks /\ WriteTick(TickOf[s], job[p].tick)
      BY <2>1, OperatorAssumption DEF Write
    <3> QED
      BY <1>2, <3>1, DropWrite
  <2>2. CASE Mark(p)
    BY <2>2 DEF Mark, DropInv, WasSaved
  <2> QED
    BY <2>1, <2>2
<1>6. (\A r \in Procs \ {p} : job'[r] = job[r]) /\ DropAt(p)'
  <2>1. CASE Write(p)
    BY <1>1, <1>5, <2>1, GotoIs DEF Write, DropAt, AnswerSteps
  <2>2. CASE Mark(p)
    <3>1. /\ store[s] \in Entry /\ moot' = moot
          /\ Ruled(store[s].res) => s \in moot
      BY <1>1, <2>2 DEF DropInv, Mark, TypeInv, TypeOK
    <3>2. CASE Become(p, Settled(p))
      <4>1. /\ \A r \in Procs \ {p} : job'[r] = job[r]
            /\ \/ job'[p].at = "idle"
               \/ job'[p].at = "drain" /\ job'[p].q = s /\ job'[p].entry = job[p].entry
        BY <1>1, <3>2, SettledShape DEF Moved
      <4> QED
        BY <1>1, <1>4, <2>2, <3>1, <4>1 DEF DropAt, AnswerSteps
    <3>3. CASE job'[p].at = "stamp"
      <4>1. /\ \A r \in Procs \ {p} : job'[r] = job[r]
            /\ job'[p].q = s /\ job'[p].entry = [store[s] EXCEPT !.applied = TRUE]
            /\ store[s].there
        BY <1>1, <2>2, <3>3, MarkShape DEF Moved, IsSettled
      <4> QED
        BY <3>1, <3>3, <4>1 DEF DropAt, Entry
    <3> QED
      <4> DEFINE j == [job[p] EXCEPT !.at = "stamp",
                                     !.entry = [store[s] EXCEPT !.applied = TRUE]]
      <4>1. Become(p, Settled(p)) \/ Become(p, j)
        BY <2>2 DEF Mark
      <4>2. j.at = "stamp"
        BY <1>1 DEF TypeInv, TypeOK, Job
      <4> HIDE DEF j
      <4> QED
        BY <1>1, <3>2, <3>3, <4>1, <4>2, BecomeIs
  <2> QED
    BY <2>1, <2>2
<1> QED
  BY <1>2, <1>4, <1>5, <1>6, DropStep DEF DropInv

LEMMA DropRest ==
  ASSUME DropInv, BaseInv', StampInv', NEW p \in Procs,
         \/ \E role \in {"collect", "await"} : StartCollect(p, role)
         \/ TakeNext(p) \/ TimeOut(p) \/ Finish(p) \/ Fail(p)
         \/ \E t \in Ticks, verdict \in Verdict : StartVerdict(p, t, verdict)
         \/ \E q \in Questions : StartDeliver(p, q)
  PROVE  DropInv'
<1>1. TypeInv
  BY DEF DropInv, BaseInv
<1>2. UNCHANGED <<ticks, store, created, effects, moot>>
  BY DEF StartCollect, TakeNext, TimeOut, Finish, Fail, StartVerdict, StartDeliver
<1>3. \A q \in Questions : store[q] \in Entry /\ (Ruled(store[q].res) => q \in moot)
  BY <1>1 DEF DropInv, TypeInv, TypeOK
<1> SUFFICES (\A r \in Procs \ {p} : job'[r] = job[r]) /\ DropAt(p)'
  BY <1>2, DropSame
<1>4. CASE \/ \E role \in {"collect", "await"} : StartCollect(p, role)
           \/ \E t \in Ticks, verdict \in Verdict : StartVerdict(p, t, verdict)
  BY <1>1, <1>4, StartShape DEF StartStep, Verdict, DropAt, AnswerSteps
<1>5. CASE TimeOut(p) \/ Finish(p) \/ Fail(p)
  BY <1>1, <1>5, BecomeIs, IdleType, SkippedType
     DEF TimeOut, Finish, Fail, DropAt, AnswerSteps
<1>6. CASE TakeNext(p)
  BY <1>1, <1>2, <1>3, <1>6, TakeNextShape DEF DropAt, AnswerSteps, IsSettled
<1>7. ASSUME NEW q \in Questions, StartDeliver(p, q)
      PROVE  (\A r \in Procs \ {p} : job'[r] = job[r]) /\ DropAt(p)'
  <2>1. /\ job'[p].at = "deliver" /\ job'[p].q = q
        /\ job'[p].entry = [store[q] EXCEPT !.ref = TRUE]
        /\ \A r \in Procs \ {p} : job'[r] = job[r]
    BY <1>1, <1>7, StartShape DEF StartStep
  <2>2. store[q].there
    BY <1>7 DEF StartDeliver, IsOpen
  <2> QED
    BY <1>2, <1>3, <2>1, <2>2 DEF DropAt, Entry
<1> QED
  BY <1>4, <1>5, <1>6, <1>7

\* A collector that waits rules a question moot when it has seen its tick so.
LEMMA DropWatch ==
  ASSUME DropInv, BaseInv', StampInv', NEW p \in Procs, Watch(p)
  PROVE  DropInv'
<1>1. TypeInv /\ job[p] \in Job /\ job[p].entry \in Entry
  BY DEF DropInv, BaseInv, TypeInv, TypeOK, Job
<1> PICK s \in Questions : job[p].q = s
  BY <1>1 DEF Watch, TypeInv, Placed, AnswerSteps
<1>2. UNCHANGED <<ticks, store, created, effects, moot>> /\ WasSaved(s)
  BY DEF Watch, DropInv, BaseInv, Known, AnswerSteps
<1> DEFINE j == [job[p] EXCEPT !.at = "resolve", !.entry.res = Moot]
           k == [job[p] EXCEPT !.at = "next", !.q = None, !.entry = Missing]
<1>3. \/ Become(p, Idle) \/ Become(p, k)
      \/ Become(p, j) /\ OutOfBand(s, ticks[TickOf[s]])
  BY DEF Watch
<1>4. j.at = "resolve" /\ j.q = s /\ j.entry.res = Moot
  BY <1>1 DEF Job, Entry
<1>5. k.at = "next"
  BY <1>1 DEF Job
<1> HIDE DEF j, k
<1>6. CASE Become(p, Idle) \/ Become(p, k)
  <2>1. job'[p].at \in {"idle", "next"} /\ \A r \in Procs \ {p} : job'[r] = job[r]
    BY <1>1, <1>5, <1>6, BecomeIs, IdleType
  <2> QED
    BY <1>2, <2>1, DropSame DEF DropAt, AnswerSteps
<1>7. CASE Become(p, j) /\ OutOfBand(s, ticks[TickOf[s]])
  <2>1. s \in moot
    BY <1>2, <1>7 DEF DropInv
  <2>2. job'[p] = j /\ \A r \in Procs \ {p} : job'[r] = job[r]
    BY <1>1, <1>7, BecomeIs
  <2> QED
    BY <1>2, <1>4, <2>1, <2>2, DropSame DEF DropAt, Ruled, Moot
<1> QED
  BY <1>3, <1>6, <1>7

LEMMA DropFiles ==
  ASSUME DropInv, BaseInv', StampInv', NEW p \in Procs,
         Stamp(p) \/ Drain(p) \/ Deliver(p) \/ WriteVerdict(p)
  PROVE  DropInv'
<1>1. /\ TypeInv /\ DropAt(p) /\ StampAt(p)
      /\ \A q \in Questions : effects[q] \in Nat
  BY DEF DropInv, StampInv, BaseInv, TypeInv, TypeOK
<1>2. CASE WriteVerdict(p)
  <2>1. /\ UNCHANGED <<store, created, effects>> /\ WriteTick(job[p].on, job[p].tick)
        /\ job[p].on \in Ticks
        /\ job'[p].at = "idle" /\ \A r \in Procs \ {p} : job'[r] = job[r]
    BY <1>1, <1>2, BecomeIs, IdleType DEF WriteVerdict, TypeInv, Placed
  <2>2. /\ moot \subseteq moot'
        /\ \A q \in Questions : WasSaved(q)' /\ OutOfBand(q, ticks'[TickOf[q]]) => q \in moot'
    BY <2>1, DropWrite
  <2>3. DropAt(p)'
    BY <2>1 DEF DropAt, AnswerSteps
  <2> QED
    BY <1>1, <2>1, <2>2, <2>3, DropStep DEF DropInv
<1>3. CASE Stamp(p) \/ Drain(p) \/ Deliver(p)
  <2> PICK s \in Questions : job[p].q = s
    BY <1>1, <1>3 DEF Stamp, Drain, Deliver, TypeInv, Placed, AnswerSteps
  <2>1. UNCHANGED <<ticks, created, effects, moot>>
    BY <1>3 DEF Stamp, Drain, Deliver
  <2>2. PICK e \in Entry : store' = [store EXCEPT ![s] = e] /\ (Ruled(e.res) => s \in moot)
    <3>1. job[p].entry \in Entry
      BY <1>1 DEF TypeInv, TypeOK, Job
    <3>2. ~Ruled(Missing.res) /\ Missing \in Entry
      BY EntryType DEF Ruled, Missing, Open
    <3> QED
      BY <1>1, <1>3, <3>1, <3>2 DEF Stamp, Drain, Deliver, WriteEntry, DropAt, AnswerSteps
  <2>3. \A q \in Questions : Ruled(store'[q].res) => q \in moot'
    BY <1>1, <2>1, <2>2 DEF DropInv, TypeInv, TypeOK
  <2>4. \A q \in Questions : effects'[q] >= effects[q] /\ (WasSaved(q)' <=> WasSaved(q))
    BY <1>1, <2>1 DEF WasSaved
  <2>5. (\A r \in Procs \ {p} : job'[r] = job[r]) /\ DropAt(p)'
    <3>1. CASE Drain(p) \/ Deliver(p)
      BY <1>1, <3>1, BecomeIs, IdleType, SkippedType DEF Drain, Deliver, DropAt, AnswerSteps
    <3>2. CASE Stamp(p)
      <4>1. /\ \A r \in Procs \ {p} : job'[r] = job[r]
            /\ \/ job'[p].at = "idle"
               \/ job'[p].at = "drain" /\ job'[p].q = s /\ job'[p].entry = job[p].entry
        BY <1>1, <3>2, SettledShape DEF Stamp, Moved
      <4>2. effects[s] >= 1 /\ (Ruled(job[p].entry.res) => s \in moot)
        BY <1>1, <3>2 DEF Stamp, StampAt, DropAt, AnswerSteps
      <4> QED
        BY <2>1, <4>1, <4>2 DEF DropAt, AnswerSteps
    <3> QED
      BY <1>3, <3>1, <3>2
  <2> QED
    BY <2>1, <2>3, <2>4, <2>5, DropStep DEF DropInv
<1> QED
  BY <1>2, <1>3

LEMMA DropNext == DropInv /\ [Next]_vars => DropInv'
<1> SUFFICES ASSUME DropInv, [Next]_vars PROVE DropInv'
  OBVIOUS
<1>1. BaseInv' /\ StampInv'
  BY BaseNext, StampNext DEF DropInv
<1>2. CASE UNCHANGED vars
  BY <1>1, <1>2 DEF vars, DropInv, DropAt, WasSaved
<1>3. CASE Next
  BY <1>1, <1>3, NextCases, DropAsk, DropAnswer, DropApply, DropCheck, DropEffect,
     DropRest, DropWatch, DropFiles DEF Acts
<1> QED
  BY <1>2, <1>3

\* Only a collector's deletion takes an entry off the disk.
LEMMA DropRemoves ==
  ASSUME DropInv, Next, NEW q \in Questions, store[q].there, ~store'[q].there
  PROVE  effects[q] >= 1 \/ q \in moot
<1>1. TypeInv
  BY DEF DropInv, BaseInv
<1>2. store' # store
  OBVIOUS
<1> PICK p \in Procs : Acts(p)
  BY NextCases
<1>3. Save(p) \/ Record(p) \/ Stamp(p) \/ Deliver(p) \/ Drain(p)
  <2>1. CASE \/ Park(p) \/ \E x \in Questions : StartAsk(p, x)
             \/ Resolve(p) \/ \E x \in Questions, a \in Answers : StartAnswer(p, x, a)
    BY <1>2, <2>1 DEF StartAsk, Park, StartAnswer, Resolve
  <2>2. CASE Apply(p) \/ Check(p) \/ Read(p) \/ Siblings(p) \/ Write(p) \/ Mark(p)
    BY <1>2, <2>2 DEF Apply, Check, Read, Siblings, Write, Mark
  <2>3. CASE \/ \E role \in {"collect", "await"} : StartCollect(p, role)
             \/ TakeNext(p) \/ Watch(p) \/ TimeOut(p) \/ Finish(p)
    BY <1>2, <2>3 DEF StartCollect, TakeNext, Watch, TimeOut, Finish
  <2>4. CASE \/ \E t \in Ticks, verdict \in Verdict : StartVerdict(p, t, verdict)
             \/ \E x \in Questions : StartDeliver(p, x)
             \/ WriteVerdict(p) \/ Fail(p)
    BY <1>2, <2>4 DEF StartVerdict, WriteVerdict, StartDeliver, Fail
  <2> QED
    BY <2>1, <2>2, <2>3, <2>4 DEF Acts
<1>4. DropAt(p) /\ job[p].q \in Questions
  BY <1>1, <1>3 DEF DropInv, TypeInv, Placed, AskSteps, AnswerSteps, Save, Record, Stamp,
     Deliver, Drain
<1>5. Asked.there
  BY DEF Asked, Missing
<1>6. CASE Drain(p)
  <2>1. q = job[p].q
    BY <1>1, <1>4, <1>6 DEF Drain, TypeInv, TypeOK
  <2> QED
    BY <1>4, <1>6, <2>1 DEF Drain, DropAt
<1>7. CASE Save(p) \/ Record(p) \/ Stamp(p) \/ Deliver(p)
  <2>1. \E e : e.there /\ store' = [store EXCEPT ![job[p].q] = e]
    BY <1>4, <1>5, <1>7 DEF Save, Record, Stamp, Deliver, WriteEntry, DropAt
  <2> QED
    BY <1>1, <1>4, <2>1 DEF TypeInv, TypeOK
<1> QED
  BY <1>3, <1>6, <1>7

\* No answer is deleted before it has taken effect, unless its tick was decided
\* otherwise: for any questions, on ticks of their own or not, and any processes,
\* people, bridges, texts given to gates, and crashes.
THEOREM AnswersAreNotDropped == Spec => NoAnswerDropped
<1>1. Init => DropInv
  <2> SUFFICES ASSUME Init PROVE DropInv
    OBVIOUS
  <2>1. \A p \in Procs : job[p].at = "idle"
    BY IdleType DEF Init
  <2>2. \A q : ~WasSaved(q)
    BY DEF Init, WasSaved
  <2>3. StampInv
    BY InitType, <2>1 DEF Init, StampInv, StampAt, Missing
  <2>4. \A p \in Procs : DropAt(p)
    BY <2>1 DEF DropAt, AnswerSteps
  <2>5. \A q \in Questions : ~Ruled(store[q].res)
    BY DEF Init, Ruled, Missing, Open
  <2> QED
    BY BaseInit, <2>2, <2>3, <2>4, <2>5 DEF DropInv
<1>2. DropInv /\ [Next]_vars
        => [\A q \in Questions :
              store[q].there /\ store[q].res.status = "answered" /\ ~store'[q].there
              => effects[q] > 0 \/ q \in moot]_vars
  <2> SUFFICES ASSUME DropInv, Next, NEW q \in Questions, store[q].there, ~store'[q].there
               PROVE  effects[q] > 0 \/ q \in moot
    OBVIOUS
  <2>1. effects[q] \in Nat
    BY DEF DropInv, BaseInv, TypeInv, TypeOK
  <2> QED
    BY <2>1, DropRemoves
<1> QED
  BY <1>1, <1>2, DropNext, PTL DEF Spec, NoAnswerDropped
=============================================================================
