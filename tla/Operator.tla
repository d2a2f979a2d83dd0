------------------------------ MODULE Operator ------------------------------
(***************************************************************************)
(* Operator questions (internal/operator, tk ask, tk answer, tk ask        *)
(* --collect): many tk processes share one repository and talk only        *)
(* through files.                                                          *)
(*                                                                         *)
(*   - one JSON file per question under .tick/pending (PendingStore);      *)
(*   - one JSON file per tick (tick.Store);                                *)
(*   - .apply.lock, an flock held while a question is resolved or applied. *)
(*                                                                         *)
(* A file is read or replaced (temp file and rename) in one step, and      *)
(* nothing else is atomic: between two file operations any other process   *)
(* may run, and the process may die, which frees its lock.  Taking the     *)
(* lock is merged with the read that follows it, and releasing it with the *)
(* write before it.  A directory listing is one step.                      *)
(*                                                                         *)
(* Time appears only as order: CreatedAt is the order of saving, AppliedAt *)
(* is present or not.                                                      *)
(*                                                                         *)
(* A definition named Def_Change is a faulty variant of the Def below it.  *)
(* No specification uses it; it is there to show that a property can fail. *)
(***************************************************************************)
EXTENDS Tick, Naturals

CONSTANTS
  Ticks,          \* ticks questions are asked about
  Questions,      \* question ids
  TickOf,         \* TickOf[q]: the tick q is asked about
  Kind,           \* Kind[q]: "ask", "gate" or "agent_relay"
  Askers,         \* processes that run tk ask
  Answerers,      \* processes that run tk answer
  Collectors,     \* processes that run tk ask --collect, with or without --wait
  Humans,         \* processes that run tk approve and tk reject
  Bridges,        \* processes that post questions on a channel (MarkDelivered)
  Shared,         \* the ticks humans and bridges handle beside the engine
  FreeText,       \* gates asked with allow_other: they accept a text as well
  MaxFaults       \* bound: how many commands die or return an error half way

Procs == Askers \cup Answerers \cup Collectors \cup Humans \cup Bridges

ASSUME OperatorAssumption ==
  /\ TickOf \in [Questions -> Ticks]
  /\ Kind \in [Questions -> {"ask", "gate", "agent_relay"}]
  /\ FreeText \subseteq Questions
  /\ Shared \subseteq Ticks
  /\ MaxFaults \in Nat
  /\ None \notin Procs \cup Questions \cup Ticks

-----------------------------------------------------------------------------
\* What tk answer accepts for a question: a button of a gate, or one of two texts.
Buttons == {"approve", "reject"}
Texts   == {"text1", "text2"}
Answers == Buttons \cup Texts
AnswersTo(q) ==
  CASE Kind[q] # "gate" -> Texts
    [] q \in FreeText   -> Answers
    [] OTHER            -> Buttons

\* A resolution; "open" is a nil Resolution.
Resolution == [status : {"answered"}, answer : Answers]
                \cup [status : {"open", "cancelled"}, answer : {None}]
Open      == [status |-> "open", answer |-> None]
Moot      == [status |-> "cancelled", answer |-> None]    \* outOfBandOutcome
Answer(a) == [status |-> "answered", answer |-> a]

\* A pending entry.  Tick, kind and awaiting value follow from the question.
Entry   == [there : BOOLEAN, ref : BOOLEAN, res : Resolution, applied : BOOLEAN]
Missing == [there |-> FALSE, ref |-> FALSE, res |-> Open, applied |-> FALSE]
Asked   == [Missing EXCEPT !.there = TRUE]

IsSettled_IfThere(e) == e.there
IsSettled(e) == e.there /\ e.res.status # "open"
IsOpen_IfThere(e) == e.there
IsOpen(e)    == e.there /\ e.res.status = "open"

\* defaultAwaiting: the state a question parks its tick in.
AwaitingOf(q) == IF Kind[q] = "gate" THEN "approval" ELSE "input"

NoteLines == (Questions \X (Answers \cup {None})) \cup {<<"human", "feedback">>}
TickFile  == TickRecord(NoteLines)

OutOfBand_IfClosed(q, t) == t.status = "closed"

\* OutOfBand: the tick t has left the state question q was parked in.
OutOfBand(q, t) ==
  \/ t.status = "closed"
  \/ ~IsAwaitingHuman(t)
  \/ GetAwaitingType(t) # AwaitingOf(q)

WithAnswer_VerdictOnly(q, t, answer) ==
  IF Kind[q] = "gate"
  THEN Decide(t, IF answer = "approve" THEN "approved" ELSE "rejected")
  ELSE AddNote(t, <<q, answer>>)

\* What Apply makes of a tick before it looks at sibling questions: the note,
\* then for a gate the verdict.
WithAnswer(q, t, answer) ==
  LET noted == AddNote(t, <<q, answer>>) IN
  IF Kind[q] = "gate"
  THEN Decide(noted, IF answer = "approve" THEN "approved" ELSE "rejected")
  ELSE noted

-----------------------------------------------------------------------------
VARIABLES
  ticks,      \* ticks[t]: the tick file
  store,      \* store[q]: the pending file of q, or Missing
  created,    \* the questions saved so far, oldest first
  lock,       \* who holds .apply.lock, or None
  job,        \* job[p]: where p is in its command, and what it holds in memory
  faults,     \* how many commands have failed half way
  recorded,   \* history: the resolution last written for each question
  effects,    \* history: how often each question's answer took effect
  moot        \* history: questions whose tick was not in their state at some time
              \* since they were saved

vars == <<ticks, store, created, lock, job, faults, recorded, effects, moot>>

Steps == {"idle", "park", "save", "resolve", "record", "apply", "check", "read",
          "siblings", "write", "mark", "stamp", "next", "watch", "drain",
          "verdict", "deliver"}
Roles == {"none", "ask", "answer", "collect", "await", "human", "bridge"}

\* role: the command; q: its current question; entry, tick: the copies it read;
\* on: the tick a human decides; todo: a collector's snapshot, not yet drained.
Job == [at : Steps, role : Roles, q : Questions \cup {None}, entry : Entry,
        tick : TickFile, on : Ticks \cup {None}, todo : SUBSET Questions]
Idle == [at |-> "idle", role |-> "none", q |-> None, entry |-> Missing,
         tick |-> NewTick(None), on |-> None, todo |-> {}]

TypeOK ==
  /\ ticks \in [Ticks -> TickFile]
  /\ store \in [Questions -> Entry]
  /\ created \in Seq(Questions)
  /\ lock \in Procs \cup {None}
  /\ job \in [Procs -> Job]
  /\ faults \in 0..MaxFaults
  /\ recorded \in [Questions -> Resolution]
  /\ effects \in [Questions -> Nat]
  /\ moot \subseteq Questions

Init ==
  /\ ticks = [t \in Ticks |-> NewTick(None)]
  /\ store = [q \in Questions |-> Missing]
  /\ created = <<>>
  /\ lock = None
  /\ job = [p \in Procs |-> Idle]
  /\ faults = 0
  /\ recorded = [q \in Questions |-> Open]
  /\ effects = [q \in Questions |-> 0]
  /\ moot = {}

-----------------------------------------------------------------------------
(***************************************************************************)
(* File operations, and how a process moves.                               *)
(***************************************************************************)
Become(p, j) == job' = [job EXCEPT ![p] = j]
Goto(p, at)  == Become(p, [job[p] EXCEPT !.at = at])

WasSaved(q) == \E i \in DOMAIN created : created[i] = q

WriteTick(t, new) ==
  /\ ticks' = [ticks EXCEPT ![t] = new]
  /\ moot' = moot \cup {q \in Questions : /\ WasSaved(q)
                                         /\ TickOf[q] = t
                                         /\ OutOfBand(q, new)}

WriteEntry(q, e) ==
  /\ store' = [store EXCEPT ![q] = e]
  /\ recorded' = [recorded EXCEPT ![q] = e.res]

\* q is the first of the questions in S in the order of List.
IsOldest(q, S) ==
  /\ q \in S
  /\ \E i \in DOMAIN created :
       /\ created[i] = q
       /\ \A k \in 1..(i - 1) : created[k] \notin S

Acquire(p)  == lock' = p          \* the caller has seen the lock free
Released(p) == IF lock = p THEN None ELSE lock

\* Where a process goes once its current question is settled, or given up.
Settled(p)   == IF job[p].role = "answer" THEN Idle
                ELSE [job[p] EXCEPT !.at = "drain"]
Skipped(p)   == [job[p] EXCEPT !.at = "next", !.q = None, !.entry = Missing,
                               !.todo = @ \ {job[p].q}]

-----------------------------------------------------------------------------
(***************************************************************************)
(* tk ask: read the tick, park it, save the question.  No lock is taken.   *)
(***************************************************************************)
StartAsk(p, q) ==
  /\ p \in Askers
  /\ job[p].at = "idle"
  /\ ~WasSaved(q)
  /\ \A r \in Procs : job[r].role = "ask" => job[r].q # q
  /\ Become(p, [Idle EXCEPT
       !.at   = IF Kind[q] = "agent_relay" THEN "save" ELSE "park",
       !.role = "ask", !.q = q,
       !.tick = SetAwaiting(ticks[TickOf[q]], AwaitingOf(q))])
  /\ UNCHANGED <<ticks, store, created, lock, faults, recorded, effects, moot>>

Park(p) ==
  /\ job[p].at = "park"
  /\ WriteTick(TickOf[job[p].q], job[p].tick)
  /\ Goto(p, "save")
  /\ UNCHANGED <<store, created, lock, faults, recorded, effects>>

Save(p) ==
  LET q == job[p].q IN
  /\ job[p].at = "save"
  /\ WriteEntry(q, Asked)
  /\ created' = Append(created, q)
  /\ moot' = IF OutOfBand(q, ticks[TickOf[q]]) THEN moot \cup {q} ELSE moot
  /\ Become(p, Idle)
  /\ UNCHANGED <<ticks, lock, faults, effects>>

-----------------------------------------------------------------------------
(***************************************************************************)
(* tk answer: pick the question, resolve it, apply it.                     *)
(***************************************************************************)

\* The oldest open question of a tick, or an agent relay named by its id.
StartAnswer(p, q, a) ==
  /\ p \in Answerers
  /\ job[p].at = "idle"
  /\ a \in AnswersTo(q)
  /\ \/ Kind[q] = "agent_relay" /\ store[q].there
     \/ IsOldest(q, {r \in Questions : /\ TickOf[r] = TickOf[q]
                                      /\ Kind[r] # "agent_relay"
                                      /\ IsOpen(store[r])})
  /\ Become(p, [Idle EXCEPT !.at = "resolve", !.role = "answer", !.q = q,
                            !.entry.res = Answer(a)])
  /\ UNCHANGED <<ticks, store, created, lock, faults, recorded, effects, moot>>

\* Resolve, up to its write: under the lock, a question that is gone or already
\* resolved is left alone.  A waiting collector then applies the answer it lost to.
Resolve(p) ==
  LET q == job[p].q  e == store[q]  waiting == job[p].role = "await" IN
  /\ job[p].at = "resolve"
  /\ lock = None
  /\ \/ /\ ~e.there
        /\ Become(p, IF waiting THEN Skipped(p) ELSE Idle)
        /\ UNCHANGED lock
     \/ /\ IsSettled(e)
        /\ Become(p, IF waiting THEN [job[p] EXCEPT !.at = "apply", !.entry = e]
                                ELSE Idle)
        /\ UNCHANGED lock
     \/ /\ IsOpen(e)
        /\ Become(p, [job[p] EXCEPT !.at = "record",
                                    !.entry = [e EXCEPT !.res = job[p].entry.res]])
        /\ Acquire(p)
  /\ UNCHANGED <<ticks, store, created, faults, recorded, effects, moot>>

\* The write of Resolve.  A collector that ruled the question moot is done with it.
Record(p) ==
  /\ job[p].at = "record"
  /\ WriteEntry(job[p].q, job[p].entry)
  /\ Goto(p, IF job[p].role = "await" THEN "drain" ELSE "apply")
  /\ lock' = None
  /\ UNCHANGED <<ticks, created, faults, effects, moot>>

-----------------------------------------------------------------------------
(***************************************************************************)
(* Engine.Apply.  Every step from "check" to "stamp" is under the lock.    *)
(***************************************************************************)

\* Entry: a resolution that is not an answer changes nothing and takes no lock.
\* The stored entry replaces the caller's copy, unless it is gone; an answer
\* already stamped is left alone.
Apply(p) ==
  LET q == job[p].q  fresh == store[q]
      e == IF IsSettled(fresh) THEN fresh ELSE job[p].entry
      relay == Kind[q] = "agent_relay"
      answered(x) == x.res.status = "answered"
  IN
  /\ job[p].at = "apply"
  /\ \/ /\ ~answered(job[p].entry) /\ ~relay
        /\ Become(p, Settled(p))
        /\ UNCHANGED lock
     \/ /\ answered(job[p].entry) \/ relay
        /\ lock = None
        /\ \/ /\ \/ fresh.there /\ fresh.applied
                 \/ relay /\ ~answered(e)
              /\ Become(p, Settled(p))
              /\ UNCHANGED lock
           \/ /\ ~(fresh.there /\ fresh.applied)
              /\ relay => answered(e)
              /\ Become(p, [job[p] EXCEPT !.at = IF relay THEN "mark" ELSE "check",
                                          !.entry = e])
              /\ Acquire(p)
  /\ UNCHANGED <<ticks, store, created, faults, recorded, effects, moot>>

Check_Skipped(p) ==
  /\ job[p].at = "check"
  /\ Goto(p, "read")
  /\ UNCHANGED <<ticks, store, created, lock, faults, recorded, effects, moot>>

\* The out-of-band check reads the tick a first time.
Check(p) ==
  /\ job[p].at = "check"
  /\ IF OutOfBand(job[p].q, ticks[TickOf[job[p].q]])
     THEN Become(p, Settled(p)) /\ lock' = None
     ELSE Goto(p, "read") /\ UNCHANGED lock
  /\ UNCHANGED <<ticks, store, created, faults, recorded, effects, moot>>

Read_Drains(p) ==
  LET q == job[p].q  answer == job[p].entry.res.answer  gate == Kind[q] = "gate" IN
  /\ job[p].at = "read"
  /\ IF gate /\ answer \notin Buttons
     THEN Become(p, Settled(p)) /\ lock' = None
     ELSE /\ Become(p, [job[p] EXCEPT !.at   = IF gate THEN "write" ELSE "siblings",
                                      !.tick = WithAnswer(q, ticks[TickOf[q]], answer)])
          /\ UNCHANGED lock
  /\ UNCHANGED <<ticks, store, created, faults, recorded, effects, moot>>

\* The tick is read again, and changed in memory.  A gate whose answer names no
\* button makes Apply, and the command that called it, return an error.
Read(p) ==
  LET q == job[p].q  answer == job[p].entry.res.answer  gate == Kind[q] = "gate" IN
  /\ job[p].at = "read"
  /\ IF gate /\ answer \notin Buttons
     THEN Become(p, Idle) /\ lock' = None
     ELSE /\ Become(p, [job[p] EXCEPT !.at   = IF gate THEN "write" ELSE "siblings",
                                      !.tick = WithAnswer(q, ticks[TickOf[q]], answer)])
          /\ UNCHANGED lock
  /\ UNCHANGED <<ticks, store, created, faults, recorded, effects, moot>>

OtherOpen_Never(q) == FALSE
OtherOpen_Always(q) == TRUE

\* otherOpen: the last answer of a tick unparks it, not the first.
OtherOpen(q) ==
  \E r \in Questions \ {q} : /\ TickOf[r] = TickOf[q]
                             /\ Kind[r] # "agent_relay"
                             /\ IsOpen(store[r])

Siblings(p) ==
  /\ job[p].at = "siblings"
  /\ Become(p, [job[p] EXCEPT !.at = "write",
                  !.tick = IF OtherOpen(job[p].q) THEN @ ELSE ClearAwaiting(@)])
  /\ UNCHANGED <<ticks, store, created, lock, faults, recorded, effects, moot>>

Write(p) ==
  LET q == job[p].q IN
  /\ job[p].at = "write"
  /\ WriteTick(TickOf[q], job[p].tick)
  /\ effects' = [effects EXCEPT ![q] = @ + 1]
  /\ Goto(p, "mark")
  /\ UNCHANGED <<store, created, lock, faults, recorded>>

\* MarkApplied reads the entry; one that is gone, or was never resolved, is left
\* so.  An agent relay has no tick: its answer takes effect when Apply returns it.
Mark(p) ==
  LET q == job[p].q  e == store[q] IN
  /\ job[p].at = "mark"
  /\ effects' = IF Kind[q] = "agent_relay" THEN [effects EXCEPT ![q] = @ + 1]
                                           ELSE effects
  /\ IF IsSettled(e)
     THEN /\ Become(p, [job[p] EXCEPT !.at = "stamp",
                                      !.entry = [e EXCEPT !.applied = TRUE]])
          /\ UNCHANGED lock
     ELSE Become(p, Settled(p)) /\ lock' = None
  /\ UNCHANGED <<ticks, store, created, faults, recorded, moot>>

Stamp_KeepsLock(p) ==
  /\ job[p].at = "stamp"
  /\ WriteEntry(job[p].q, job[p].entry)
  /\ Become(p, Settled(p))
  /\ UNCHANGED <<ticks, created, lock, faults, effects, moot>>

Stamp(p) ==
  /\ job[p].at = "stamp"
  /\ WriteEntry(job[p].q, job[p].entry)
  /\ Become(p, Settled(p))
  /\ lock' = None
  /\ UNCHANGED <<ticks, created, faults, effects, moot>>

-----------------------------------------------------------------------------
(***************************************************************************)
(* tk ask --collect: take the questions there are now, oldest first, and   *)
(* settle, print and delete each one.  With --wait it polls (Await) until  *)
(* the question is resolved, its tick has moved on, or the time is up.     *)
(***************************************************************************)
StartCollect(p, role) ==
  /\ p \in Collectors
  /\ job[p].at = "idle"
  /\ Become(p, [Idle EXCEPT !.at = "next", !.role = role,
                            !.todo = {q \in Questions : store[q].there}])
  /\ UNCHANGED <<ticks, store, created, lock, faults, recorded, effects, moot>>

TakeNext(p) ==
  /\ job[p].at = "next"
  /\ \E q \in job[p].todo :
       LET e == store[q]  here == [job[p] EXCEPT !.q = q, !.entry = e] IN
       /\ IsOldest(q, job[p].todo)
       /\ Become(p,
            CASE IsSettled(e)                -> [here EXCEPT !.at = "apply"]
              [] IsOpen(e) /\ job[p].role = "await"    -> [here EXCEPT !.at = "watch"]
              [] OTHER -> [job[p] EXCEPT !.todo = @ \ {q}])
  /\ UNCHANGED <<ticks, store, created, lock, faults, recorded, effects, moot>>

\* The tick of an unresolved question is read.  An agent relay has none, which
\* is an error that ends the command.
Watch(p) ==
  LET q == job[p].q IN
  /\ job[p].at = "watch"
  /\ Become(p,
       IF Kind[q] = "agent_relay" THEN Idle
       ELSE IF OutOfBand(q, ticks[TickOf[q]])
            THEN [job[p] EXCEPT !.at = "resolve", !.entry.res = Moot]
            ELSE [job[p] EXCEPT !.at = "next", !.q = None, !.entry = Missing])
  /\ UNCHANGED <<ticks, store, created, lock, faults, recorded, effects, moot>>

\* The time is up: the question is left open and the next one is looked at.
TimeOut(p) ==
  /\ job[p].at = "watch"
  /\ Kind[job[p].q] # "agent_relay"
  /\ ~OutOfBand(job[p].q, ticks[TickOf[job[p].q]])
  /\ Become(p, Skipped(p))
  /\ UNCHANGED <<ticks, store, created, lock, faults, recorded, effects, moot>>

Drain(p) ==
  /\ job[p].at = "drain"
  /\ store' = [store EXCEPT ![job[p].q] = Missing]
  /\ Become(p, Skipped(p))
  /\ UNCHANGED <<ticks, created, lock, faults, recorded, effects, moot>>

Finish(p) ==
  /\ job[p].at = "next"
  /\ job[p].todo = {}
  /\ Become(p, Idle)
  /\ UNCHANGED <<ticks, store, created, lock, faults, recorded, effects, moot>>

-----------------------------------------------------------------------------
(***************************************************************************)
(* Who does not take the lock: tk approve and tk reject, which read and    *)
(* replace the tick, and a channel bridge, which reads and replaces the    *)
(* entry to record the message it posted (MarkDelivered).                  *)
(***************************************************************************)
StartVerdict(p, t, verdict) ==
  LET file  == ticks[t]
      noted == IF verdict = "rejected" THEN AddNote(file, <<"human", "feedback">>)
                                       ELSE file
  IN
  /\ p \in Humans
  /\ t \in Shared
  /\ job[p].at = "idle"
  /\ IsAwaitingHuman(file)
  /\ Become(p, [Idle EXCEPT !.at = "verdict", !.role = "human", !.on = t,
                            !.tick = Decide(noted, verdict)])
  /\ UNCHANGED <<ticks, store, created, lock, faults, recorded, effects, moot>>

WriteVerdict(p) ==
  /\ job[p].at = "verdict"
  /\ WriteTick(job[p].on, job[p].tick)
  /\ Become(p, Idle)
  /\ UNCHANGED <<store, created, lock, faults, recorded, effects>>

StartDeliver(p, q) ==
  /\ p \in Bridges
  /\ TickOf[q] \in Shared
  /\ job[p].at = "idle"
  /\ IsOpen(store[q]) /\ ~store[q].ref
  /\ Become(p, [Idle EXCEPT !.at = "deliver", !.role = "bridge", !.q = q,
                            !.entry = [store[q] EXCEPT !.ref = TRUE]])
  /\ UNCHANGED <<ticks, store, created, lock, faults, recorded, effects, moot>>

Deliver(p) ==
  /\ job[p].at = "deliver"
  /\ WriteEntry(job[p].q, job[p].entry)
  /\ Become(p, Idle)
  /\ UNCHANGED <<ticks, created, lock, faults, effects, moot>>

\* A command dies, or one of its file operations returns an error (a lock wait
\* of 30 seconds included): it ends where it is, and its lock is freed.
Fail(p) ==
  /\ job[p].at # "idle"
  /\ faults < MaxFaults
  /\ faults' = faults + 1
  /\ Become(p, Idle)
  /\ lock' = Released(p)
  /\ UNCHANGED <<ticks, store, created, recorded, effects, moot>>

-----------------------------------------------------------------------------
\* A step of a command that is under way; StartStep is a user's decision.
Step(p) ==
  \/ Park(p) \/ Save(p)
  \/ Resolve(p) \/ Record(p)
  \/ Apply(p) \/ Check(p) \/ Read(p) \/ Siblings(p) \/ Write(p) \/ Mark(p) \/ Stamp(p)
  \/ TakeNext(p) \/ Watch(p) \/ Drain(p) \/ Finish(p)
  \/ WriteVerdict(p) \/ Deliver(p)

StartStep(p) ==
  \/ \E q \in Questions : StartAsk(p, q)
  \/ \E q \in Questions, a \in Answers : StartAnswer(p, q, a)
  \/ \E role \in {"collect", "await"} : StartCollect(p, role)
  \/ \E t \in Ticks, verdict \in {"approved", "rejected"} : StartVerdict(p, t, verdict)
  \/ \E q \in Questions : StartDeliver(p, q)

Next == \E p \in Procs : Step(p) \/ StartStep(p) \/ TimeOut(p) \/ Fail(p)

Spec == Init /\ [][Next]_vars

\* A command that is running keeps running; users start none, and no wait ends
\* by its timeout.  The lock is taken finitely often, so polling for it every few
\* milliseconds needs no strong fairness.
FairSpec == Spec /\ \A p \in Procs : WF_vars(Step(p))

-----------------------------------------------------------------------------
(***************************************************************************)
(* Properties.                                                             *)
(***************************************************************************)

\* The first resolution of a question wins: once one is recorded, no later
\* write of any process (Resolve, MarkApplied) replaces it by another.
\* (PendingStore.Resolve, pending.go:316.)
FirstResolutionWins ==
  [][\A q \in Questions : recorded[q] # Open => recorded'[q] = recorded[q]]_vars

\* An answer takes effect at most once, whatever mix of tk answer and tk ask
\* --collect carries it.  (Engine.Apply, engine.go:220.)
AtMostOnce == \A q \in Questions : effects[q] <= 1

\* Only the recorded answer takes effect: a note on a tick names the resolution
\* that won, never one that lost the race; a question ruled moot leaves no note.
NotesAreAnswers ==
  \A t \in Ticks : \A q \in Questions : \A a \in Answers :
    (\E i \in DOMAIN ticks[t].notes : ticks[t].notes[i] = <<q, a>>)
      => TickOf[q] = t /\ recorded[q] = Answer(a)

\* The stamp comes last: an entry marked applied has had its effect, so no crash
\* can leave an answer that is stamped and was never applied. (engine.go:327.)
StampedLast == \A q \in Questions : store[q].applied => effects[q] >= 1

\* An open question stays on disk until it is resolved: only a settled entry is
\* ever removed.  (askCollectFlow, ask.go:352.)
OpenStaysOnDisk ==
  [][\A q \in Questions : IsOpen(store[q]) => store'[q].there]_vars

\* While a question is open its tick, if the engine alone handles it, is parked
\* in the state the question asked for, so that nobody rules the question moot
\* unasked. (engine.go:310.)
OpenIsParked ==
  \A q \in Questions :
    IsOpen(store[q]) /\ Kind[q] # "agent_relay" /\ TickOf[q] \notin Shared
      => ~OutOfBand(q, ticks[TickOf[q]])

\* A parked tick has an open question, or a command about to ask or to answer
\* one, or an answer not yet applied: no tick waits for a human with nothing to
\* answer.
ParkedHasQuestion ==
  \A t \in Ticks \ Shared : IsAwaitingHuman(ticks[t]) =>
    \/ \E q \in Questions : /\ TickOf[q] = t /\ Kind[q] # "agent_relay"
                            /\ store[q].there /\ ~store[q].applied
    \/ \E p \in Procs : job[p].q # None /\ TickOf[job[p].q] = t

\* An answer stamped as applied is in the notes of its tick.
NoLostAnswer ==
  \A q \in Questions :
    store[q].applied /\ Kind[q] # "agent_relay" =>
      \E i \in DOMAIN ticks[TickOf[q]].notes :
        ticks[TickOf[q]].notes[i] = <<q, store[q].res.answer>>

\* An answer leaves the disk only once it has taken effect, or its tick was found
\* decided otherwise: a collector that deletes what it has printed drops no answer
\* it could not apply, such as a text given to a gate (engine.go:279), nor one that
\* a crash left between the tick and the stamp. (askCollectFlow, ask.go:394.)
NoAnswerDropped ==
  [][\A q \in Questions :
       store[q].there /\ store[q].res.status = "answered" /\ ~store'[q].there
       => effects[q] > 0 \/ q \in moot]_vars

\* A command, once started, ends: no command waits for ever on the lock, and a
\* waiting collector does not outlive the last open question it waits for.
CommandsEnd ==
  \A p \in Procs :
    job[p].at # "idle" ~>
      \/ job[p].at = "idle"
      \/ job[p].role = "await" /\ \E q \in job[p].todo : IsOpen(store[q])

\* The engine implements the lifecycle a question is promised (module Question):
\* every write of an entry settles it, or leaves it as it was, and every write of
\* a tick is the one effect of its answer.
Answered(r) == r.status = "answered"
Promise == INSTANCE Question WITH outcome <- recorded, effect <- effects,
                                  Unsettled <- Open, IsAnswer <- Answered
ImplementsQuestion == Promise!Spec
=============================================================================
