-------------------------- MODULE Lifecycle_proofs --------------------------
(***************************************************************************)
(* Theorems about Lifecycle, for any set of ticks, any hierarchy and any   *)
(* flag combinations of tk update.                                         *)
(***************************************************************************)
EXTENDS Lifecycle, TLAPS

-----------------------------------------------------------------------------
(***************************************************************************)
(* What the functions on ticks return.  Each lemma gives the type of the   *)
(* result, the fields the function leaves alone, and what it does to the   *)
(* two pairs of fields the stamps are about.                               *)
(***************************************************************************)

\* A tick a command has in hand, which may carry a line not yet written.
Whole == TickRecord({RoutedLine})

Stamped(x) == /\ x.closedAt <=> x.status = "closed"
              /\ x.reason => x.status = "closed"
Started(x) == /\ x.status = "in_progress" => x.started
              /\ x.status = "open" => ~x.started

LEMMA Widen == ASSUME NEW x \in TickFile PROVE x \in Whole
<1>1. x.notes \in Seq({RoutedLine})
  BY DEF TickFile, TickRecord
<1> QED
  BY <1>1 DEF TickFile, Whole, TickRecord

LEMMA BareFacts ==
  ASSUME NEW x \in Whole
  PROVE  /\ Bare(x) \in TickFile
         /\ Bare(x).status = x.status /\ Bare(x).requires = x.requires
         /\ Bare(x).awaiting = x.awaiting /\ Bare(x).manual = x.manual
         /\ Bare(x).verdict = x.verdict /\ Bare(x).started = x.started
         /\ Bare(x).closedAt = x.closedAt /\ Bare(x).reason = x.reason
<1>1. <<>> \in Seq({})
  OBVIOUS
<1> QED
  BY <1>1 DEF Bare, Whole, TickFile, TickRecord

LEMMA SetAwaitingFacts ==
  ASSUME NEW t \in Whole, NEW v \in Awaiting \cup {None}
  PROVE  /\ SetAwaiting(t, v) \in Whole
         /\ SetAwaiting(t, v) = [t EXCEPT !.awaiting = v, !.manual = FALSE]
  BY DEF SetAwaiting, Whole, TickRecord

LEMMA ProcessVerdictFacts ==
  ASSUME NEW t \in Whole
  PROVE  LET u == ProcessVerdict(t) IN
         /\ u \in Whole
         /\ u.requires = t.requires /\ u.started = t.started /\ u.reason = t.reason
         /\ \/ u.status = t.status /\ u.closedAt = t.closedAt
            \/ u.status = "closed" /\ u.closedAt = TRUE
<1> DEFINE c == ClearAwaiting(t)
<1>1. c \in Whole /\ c = [t EXCEPT !.awaiting = None, !.manual = FALSE]
  BY SetAwaitingFacts DEF ClearAwaiting
<1>2. CASE t.verdict = None \/ t.awaiting = None
  BY <1>2 DEF ProcessVerdict
<1>3. CASE ~(t.verdict = None \/ t.awaiting = None) /\ Closes(t.awaiting, t.verdict)
  <2>1. ProcessVerdict(t) = [c EXCEPT !.verdict = @, !.status = "closed", !.closedAt = @ \/ TRUE]
    BY <1>3 DEF ProcessVerdict
  <2>2. ProcessVerdict(t) = [c EXCEPT !.status = "closed", !.closedAt = TRUE]
    BY <1>1, <2>1 DEF Whole, TickRecord
  <2> HIDE DEF c
  <2> QED
    BY <1>1, <2>2 DEF Whole, TickRecord, Status
<1>4. CASE ~(t.verdict = None \/ t.awaiting = None) /\ ~Closes(t.awaiting, t.verdict)
  <2>1. ProcessVerdict(t) = [c EXCEPT !.verdict = None, !.status = @, !.closedAt = @ \/ FALSE]
    BY <1>4 DEF ProcessVerdict
  <2> HIDE DEF c
  <2> QED
    BY <1>1, <2>1 DEF Whole, TickRecord
<1> QED
  BY <1>2, <1>3, <1>4

LEMMA DecideFacts ==
  ASSUME NEW t \in Whole, NEW v \in Verdict
  PROVE  LET u == Decide(t, v) IN
         /\ u \in Whole
         /\ u.requires = t.requires /\ u.started = t.started /\ u.reason = t.reason
         /\ \/ u.status = t.status /\ u.closedAt = t.closedAt
            \/ u.status = "closed" /\ u.closedAt = TRUE
<1> DEFINE n == NormalizeManual(t)
           d == [n EXCEPT !.verdict = v]
<1>1. n \in Whole /\ n.requires = t.requires /\ n.started = t.started
      /\ n.reason = t.reason /\ n.status = t.status /\ n.closedAt = t.closedAt
  <2>1. CASE t.awaiting = None /\ t.manual
    <3>1. n = SetAwaiting(t, "work")
      BY <2>1 DEF NormalizeManual
    <3>2. "work" \in Awaiting \cup {None}
      BY DEF Awaiting
    <3>3. n \in Whole /\ n = [t EXCEPT !.awaiting = "work", !.manual = FALSE]
      BY <3>1, <3>2, SetAwaitingFacts
    <3> HIDE DEF n
    <3> QED
      BY <3>3 DEF Whole, TickRecord
  <2>2. CASE ~(t.awaiting = None /\ t.manual)
    BY <2>2 DEF NormalizeManual
  <2> QED
    BY <2>1, <2>2
<1> HIDE DEF n
<1>2. d \in Whole /\ d.requires = t.requires /\ d.started = t.started
      /\ d.reason = t.reason /\ d.status = t.status /\ d.closedAt = t.closedAt
  BY <1>1 DEF Whole, TickRecord
<1>3. Decide(t, v) = ProcessVerdict(d)
  BY DEF Decide, n
<1> HIDE DEF d
<1> QED
  BY <1>2, <1>3, ProcessVerdictFacts

LEMMA DecideStamps ==
  ASSUME NEW t \in Whole, NEW v \in Verdict
  PROVE  /\ Stamped(t) => Stamped(Decide(t, v))
         /\ Started(t) => Started(Decide(t, v))
<1> DEFINE u == Decide(t, v)
<1>1. /\ u.started = t.started /\ u.reason = t.reason
      /\ \/ u.status = t.status /\ u.closedAt = t.closedAt
         \/ u.status = "closed" /\ u.closedAt = TRUE
  BY DecideFacts
<1> HIDE DEF u
<1>2. /\ Stamped(t) => Stamped(u)
      /\ Started(t) => Started(u)
  BY <1>1 DEF Stamped, Started
<1> QED
  BY <1>2 DEF u

LEMMA HandleCloseFacts ==
  ASSUME NEW t \in TickFile, NEW r \in BOOLEAN
  PROVE  LET u == HandleClose(t, r) IN
         /\ u \in Whole
         /\ u.requires = t.requires
         /\ HasRequiredGate(t) =>
              /\ u.awaiting = t.requires /\ u.status = t.status /\ u.started = t.started
              /\ u.closedAt = t.closedAt /\ u.reason = t.reason
         /\ ~HasRequiredGate(t) => u.status = "closed" /\ u.closedAt = TRUE
<1>1. CASE HasRequiredGate(t)
  <2> DEFINE s == SetAwaiting(t, t.requires)
  <2>1. t.requires \in Requires /\ t.requires \in Awaiting
    BY <1>1 DEF HasRequiredGate, TickFile, TickRecord, Requires, Awaiting
  <2>2. s \in Whole /\ s = [t EXCEPT !.awaiting = t.requires, !.manual = FALSE]
    BY <2>1, Widen, SetAwaitingFacts
  <2>3. HandleClose(t, r) = [s EXCEPT !.notes = Append(@, RoutedLine)]
    BY <1>1 DEF HandleClose, AddNote
  <2>4. Append(s.notes, RoutedLine) \in Seq({RoutedLine})
    <3>1. s.notes \in Seq({RoutedLine})
      BY <2>2 DEF Whole, TickRecord
    <3> HIDE DEF s
    <3> DEFINE n == s.notes
               R == {RoutedLine}
    <3>2. n \in Seq(R) /\ RoutedLine \in R
      BY <3>1
    <3> HIDE DEF n, R
    <3>3. Append(n, RoutedLine) \in Seq(R)
      BY <3>2
    <3> QED
      BY <3>3 DEF n, R
  <2> HIDE DEF s
  <2> QED
    BY <1>1, <2>2, <2>3, <2>4, Widen DEF Whole, TickRecord
<1>2. CASE ~HasRequiredGate(t)
  BY <1>2, Widen DEF HandleClose, Whole, TickRecord, Status
<1> QED
  BY <1>1, <1>2

-----------------------------------------------------------------------------
(***************************************************************************)
(* What tk update does to a tick, flag by flag.                            *)
(***************************************************************************)

\* A change that leaves the tick with whoever had it, and its gate in place.
Keeps(t, u) == /\ IsAwaitingHuman(t) => IsAwaitingHuman(u)
               /\ u.status = "closed" => t.status = "closed"
               /\ HasRequiredGate(t) => HasRequiredGate(u)

\* A change that Handoff allows a runner.
Obeys(t, u) ==
  /\ Holder(t) = "human" => Holder(u) = "human"
  /\ Holder(u) = "done" /\ Holder(t) # "done" => ~HasRequiredGate(t)
  /\ HasRequiredGate(t) => HasRequiredGate(u)

\* A call of tk update that takes away no gate in so many words.
Safe(f) == /\ f.status # "closed" /\ f.manual # "false"
           /\ f.awaiting # None /\ f.requires # None

LEMMA KeepsObeys ==
  ASSUME NEW t, NEW u, Keeps(t, u)
  PROVE  Obeys(t, u)
  BY DEF Keeps, Obeys, Holder

LEMMA WithStatusFacts ==
  ASSUME NEW t \in Whole, NEW s \in Status \cup {Unset}
  PROVE  LET u == WithStatus(t, s) IN
         /\ u \in Whole
         /\ Stamped(t) => Stamped(u)
         /\ Started(t) => Started(u)
         /\ s # "closed" => Keeps(t, u)
<1>1. CASE s = Unset
  <2>1. WithStatus(t, s) = t
    BY <1>1 DEF WithStatus, Unset
  <2> QED
    BY <2>1 DEF Keeps
<1>2. CASE s = "in_progress" /\ t.status = "in_progress"
  <2>1. WithStatus(t, s) = [t EXCEPT !.closedAt = FALSE, !.reason = FALSE]
    BY <1>2 DEF WithStatus, Unset
  <2> QED
    BY <1>2, <2>1
    DEF Keeps, Stamped, Started, IsAwaitingHuman, HasRequiredGate, Whole, TickRecord
<1>3. CASE s = "in_progress" /\ t.status # "in_progress"
  <2>1. WithStatus(t, s) = [t EXCEPT !.status = "in_progress", !.started = TRUE,
                                     !.closedAt = FALSE, !.reason = FALSE]
    BY <1>3 DEF WithStatus, Unset, Start, Whole, TickRecord
  <2> QED
    BY <1>3, <2>1
    DEF Keeps, Stamped, Started, IsAwaitingHuman, HasRequiredGate, Whole, TickRecord, Status
<1>4. CASE s = "open"
  <2>1. WithStatus(t, s) = [t EXCEPT !.status = "open", !.started = FALSE,
                                     !.closedAt = FALSE, !.reason = FALSE]
    BY <1>4 DEF WithStatus, Unset, Release, Whole, TickRecord
  <2> QED
    BY <1>4, <2>1
    DEF Keeps, Stamped, Started, IsAwaitingHuman, HasRequiredGate, Whole, TickRecord, Status
<1>5. CASE s = "closed"
  <2>1. WithStatus(t, s) = [t EXCEPT !.status = "closed", !.closedAt = TRUE]
    BY <1>5 DEF WithStatus, Unset
  <2> QED
    BY <1>5, <2>1 DEF Stamped, Started, Whole, TickRecord, Status
<1> QED
  BY <1>1, <1>2, <1>3, <1>4, <1>5 DEF Status

\* Parking a tick touches neither its status nor its stamps nor its gate.
LEMMA SetAwaitingKeeps ==
  ASSUME NEW t \in Whole, NEW v \in Awaiting \cup {None}
  PROVE  LET u == SetAwaiting(t, v) IN
         /\ u \in Whole
         /\ Stamped(t) => Stamped(u)
         /\ Started(t) => Started(u)
         /\ v # None => Keeps(t, u)
<1> DEFINE u == SetAwaiting(t, v)
<1>1. u \in Whole /\ u = [t EXCEPT !.awaiting = v, !.manual = FALSE]
  BY SetAwaitingFacts
<1> HIDE DEF u
<1>2. /\ Stamped(t) => Stamped(u)
      /\ Started(t) => Started(u)
      /\ v # None => Keeps(t, u)
  BY <1>1 DEF Keeps, Stamped, Started, IsAwaitingHuman, HasRequiredGate, Whole, TickRecord
<1> QED
  BY <1>1, <1>2 DEF u

LEMMA WithManualFacts ==
  ASSUME NEW t \in Whole, NEW f \in Flags
  PROVE  LET u == WithManual(t, f) IN
         /\ u \in Whole
         /\ Stamped(t) => Stamped(u)
         /\ Started(t) => Started(u)
         /\ Safe(f) => Keeps(t, u)
<1>1. CASE f.manual = "true" /\ f.awaiting = Unset
  <2>1. WithManual(t, f) = SetAwaiting(t, "work")
    BY <1>1 DEF WithManual
  <2>2. "work" \in Awaiting \cup {None} /\ "work" # None
    BY DEF Awaiting, None
  <2> QED
    BY <2>1, <2>2, SetAwaitingKeeps
<1>2. CASE ~(f.manual = "true" /\ f.awaiting = Unset) /\ f.manual = "false"
  <2>1. WithManual(t, f) = SetAwaiting(t, None)
    BY <1>2 DEF WithManual, ClearAwaiting
  <2>2. None \in Awaiting \cup {None} /\ ~Safe(f)
    BY <1>2 DEF Safe
  <2> QED
    BY <2>1, <2>2, SetAwaitingKeeps
<1>3. CASE ~(f.manual = "true" /\ f.awaiting = Unset) /\ f.manual # "false"
  <2>1. WithManual(t, f) = t
    BY <1>3 DEF WithManual
  <2> QED
    BY <2>1 DEF Keeps
<1> QED
  BY <1>1, <1>2, <1>3

LEMMA WithRequiresFacts ==
  ASSUME NEW t \in Whole, NEW f \in Flags
  PROVE  LET u == WithRequires(t, f) IN
         /\ u \in Whole
         /\ Stamped(t) => Stamped(u)
         /\ Started(t) => Started(u)
         /\ Safe(f) => Keeps(t, u)
<1>1. CASE f.requires = Unset
  <2>1. WithRequires(t, f) = t
    BY <1>1 DEF WithRequires
  <2> QED
    BY <2>1 DEF Keeps
<1>2. CASE f.requires # Unset
  <2>1. WithRequires(t, f) = [t EXCEPT !.requires = f.requires]
        /\ f.requires \in Requires \cup {None}
    BY <1>2 DEF WithRequires, Flags
  <2> QED
    BY <2>1
    DEF Safe, Keeps, Stamped, Started, IsAwaitingHuman, HasRequiredGate, Whole, TickRecord
<1> QED
  BY <1>1, <1>2

LEMMA WithAwaitingFacts ==
  ASSUME NEW t \in Whole, NEW f \in Flags
  PROVE  LET u == WithAwaiting(t, f) IN
         /\ u \in Whole
         /\ Stamped(t) => Stamped(u)
         /\ Started(t) => Started(u)
         /\ Safe(f) => Keeps(t, u)
<1>1. CASE f.awaiting = Unset
  <2>1. WithAwaiting(t, f) = t
    BY <1>1 DEF WithAwaiting
  <2> QED
    BY <2>1 DEF Keeps
<1>2. CASE f.awaiting # Unset
  <2>1. WithAwaiting(t, f) = SetAwaiting(t, f.awaiting) /\ f.awaiting \in Awaiting \cup {None}
    BY <1>2 DEF WithAwaiting, Flags
  <2>2. Safe(f) => f.awaiting # None
    BY DEF Safe
  <2> QED
    BY <2>1, <2>2, SetAwaitingKeeps
<1> QED
  BY <1>1, <1>2

LEMMA WithVerdictFacts ==
  ASSUME NEW t \in Whole, NEW f \in Flags
  PROVE  LET u == WithVerdict(t, f) IN
         /\ u \in Whole
         /\ Stamped(t) => Stamped(u)
         /\ Started(t) => Started(u)
         /\ f.verdict = Unset => Keeps(t, u)
<1>1. CASE f.verdict = Unset
  <2>1. WithVerdict(t, f) = t
    BY <1>1 DEF WithVerdict
  <2> QED
    BY <2>1 DEF Keeps
<1>2. CASE f.verdict # Unset
  <2> DEFINE d == [t EXCEPT !.verdict = f.verdict]
             u == WithVerdict(t, f)
  <2>1. d \in Whole /\ d.started = t.started /\ d.reason = t.reason
        /\ d.status = t.status /\ d.closedAt = t.closedAt
    BY <1>2 DEF Flags, Whole, TickRecord
  <2>2. u = ProcessVerdict(d)
    BY <1>2 DEF WithVerdict
  <2> HIDE DEF d, u
  <2>3. /\ u \in Whole
        /\ u.started = t.started /\ u.reason = t.reason
        /\ \/ u.status = t.status /\ u.closedAt = t.closedAt
           \/ u.status = "closed" /\ u.closedAt = TRUE
    BY <2>1, <2>2, ProcessVerdictFacts
  <2>4. /\ Stamped(t) => Stamped(u)
        /\ Started(t) => Started(u)
    BY <2>3 DEF Stamped, Started
  <2> QED
    BY <1>2, <2>3, <2>4 DEF u
<1> QED
  BY <1>1, <1>2

LEMMA UpdatedFacts ==
  ASSUME NEW t \in Whole, NEW f \in Flags
  PROVE  LET u == Updated(t, f) IN
         /\ u \in Whole
         /\ Stamped(t) => Stamped(u)
         /\ Started(t) => Started(u)
         /\ Safe(f) /\ f.verdict = Unset => Keeps(t, u)
<1> DEFINE a == WithStatus(t, f.status)
           b == WithManual(a, f)
           c == WithRequires(b, f)
           d == WithAwaiting(c, f)
           u == WithVerdict(d, f)
<1>1. a \in Whole /\ (Stamped(t) => Stamped(a)) /\ (Started(t) => Started(a))
      /\ (Safe(f) => Keeps(t, a))
  <2>1. f.status \in Status \cup {Unset}
    BY DEF Flags
  <2> QED
    BY <2>1, WithStatusFacts DEF Safe
<1> HIDE DEF a
<1>2. b \in Whole /\ (Stamped(a) => Stamped(b)) /\ (Started(a) => Started(b))
      /\ (Safe(f) => Keeps(a, b))
  BY <1>1, WithManualFacts
<1> HIDE DEF b
<1>3. c \in Whole /\ (Stamped(b) => Stamped(c)) /\ (Started(b) => Started(c))
      /\ (Safe(f) => Keeps(b, c))
  BY <1>2, WithRequiresFacts
<1> HIDE DEF c
<1>4. d \in Whole /\ (Stamped(c) => Stamped(d)) /\ (Started(c) => Started(d))
      /\ (Safe(f) => Keeps(c, d))
  BY <1>3, WithAwaitingFacts
<1> HIDE DEF d
<1>5. u \in Whole /\ (Stamped(d) => Stamped(u)) /\ (Started(d) => Started(u))
      /\ (f.verdict = Unset => Keeps(d, u))
  BY <1>4, WithVerdictFacts
<1> HIDE DEF u
<1>6. Safe(f) /\ f.verdict = Unset => Keeps(t, u)
  BY <1>1, <1>2, <1>3, <1>4, <1>5 DEF Keeps
<1>7. Updated(t, f) = u
  BY DEF Updated, a, b, c, d, u
<1> QED
  BY <1>1, <1>2, <1>3, <1>4, <1>5, <1>6, <1>7

-----------------------------------------------------------------------------
(***************************************************************************)
(* The other functions that commands write with.                           *)
(***************************************************************************)

LEMMA ForceClosedFacts ==
  ASSUME NEW t \in TickFile, NEW r \in BOOLEAN
  PROVE  LET u == ForceClosed(t, r) IN
         /\ u \in Whole
         /\ u.status = "closed"
         /\ u.requires = t.requires
         /\ Stamped(u) /\ Started(u)
<1> DEFINE c == ClearAwaiting(t)
<1>1. c \in Whole /\ c = [t EXCEPT !.awaiting = None, !.manual = FALSE]
  BY Widen, SetAwaitingFacts DEF ClearAwaiting
<1>2. c.requires = t.requires
  BY <1>1 DEF TickFile, TickRecord
<1>3. ForceClosed(t, r) = [c EXCEPT !.status = "closed", !.closedAt = TRUE,
                                    !.reason = r, !.verdict = None]
  BY DEF ForceClosed
<1> HIDE DEF c
<1> QED
  BY <1>1, <1>2, <1>3 DEF Stamped, Started, Whole, TickRecord, Status

LEMMA ReleaseFacts ==
  ASSUME NEW t \in TickFile
  PROVE  LET u == [Release(t) EXCEPT !.closedAt = FALSE, !.reason = FALSE] IN
         u \in Whole /\ Stamped(u) /\ Started(u) /\ Keeps(t, u)
<1> DEFINE u == [Release(t) EXCEPT !.closedAt = FALSE, !.reason = FALSE]
<1>1. u = [t EXCEPT !.status = "open", !.started = FALSE, !.closedAt = FALSE, !.reason = FALSE]
  BY DEF Release, TickFile, TickRecord
<1>2. t \in Whole
  BY Widen
<1> HIDE DEF u
<1>3. u \in Whole /\ Stamped(u) /\ Started(u) /\ Keeps(t, u)
  BY <1>1, <1>2
  DEF Keeps, Stamped, Started, IsAwaitingHuman, HasRequiredGate, Whole, TickRecord, Status
<1> QED
  BY <1>3 DEF u

LEMMA HandleCloseStamps ==
  ASSUME NEW t \in TickFile, NEW r \in BOOLEAN
  PROVE  LET u == HandleClose(t, r) IN
         /\ Stamped(t) => Stamped(u)
         /\ Started(t) => Started(u)
         /\ HasRequiredGate(t) => Keeps(t, u)
<1> DEFINE u == HandleClose(t, r)
<1>1. u \in Whole /\ u.requires = t.requires
  BY HandleCloseFacts
<1>2. CASE HasRequiredGate(t)
  <2>1. /\ u.awaiting = t.requires /\ u.status = t.status /\ u.started = t.started
        /\ u.closedAt = t.closedAt /\ u.reason = t.reason
    BY <1>2, HandleCloseFacts
  <2> HIDE DEF u
  <2>2. /\ Stamped(t) => Stamped(u)
        /\ Started(t) => Started(u)
    BY <2>1 DEF Stamped, Started
  <2>3. Keeps(t, u)
    BY <1>1, <1>2, <2>1 DEF Keeps, IsAwaitingHuman, HasRequiredGate
  <2> QED
    BY <2>2, <2>3 DEF u
<1>3. CASE ~HasRequiredGate(t)
  <2>1. u.status = "closed" /\ u.closedAt = TRUE
    BY <1>3, HandleCloseFacts
  <2> HIDE DEF u
  <2>2. Stamped(u) /\ Started(u)
    BY <2>1 DEF Stamped, Started
  <2> QED
    BY <1>3, <2>2 DEF u
<1> QED
  BY <1>2, <1>3

-----------------------------------------------------------------------------
(***************************************************************************)
(* A step of the specification writes at most one tick file.               *)
(***************************************************************************)

CliOnly     == Surfaces \subseteq {"cli"}
SafeUpdates == \A f \in Updates : Safe(f)

\* What holds of every file in the store and of every copy in hand.
Sound(x) == /\ x \in TickFile
            /\ Stamped(x)
            /\ CliOnly => Started(x)

\* What a command writes over the file old, acting for actor.
Proper(old, new, actor) ==
  /\ new \in Whole
  /\ Stamped(new)
  /\ CliOnly => Started(new)
  /\ Isolated /\ SafeUpdates /\ actor = "runner" => Obeys(old, new)

WritesOne ==
  \E t \in Ticks, new \in Whole, actor \in Actors, lines \in SUBSET Line :
    Write(t, new, actor, lines) /\ Proper(ticks[t], new, actor)

LEMMA LogLineType ==
  ASSUME NEW t \in Ticks, NEW old, NEW new, NEW noted, NEW actor \in Actors
  PROVE  LogLine(t, DetectChange(old, new, noted), actor) \in SUBSET Line
<1> DEFINE a == DetectChange(old, new, noted)
<1>1. a \in Actions \cup {None}
  BY DEF DetectChange, Actions
<1> HIDE DEF a
<1>2. LogLine(t, a, actor) \in SUBSET Line
  BY <1>1 DEF LogLine, Line
<1> QED
  BY <1>2 DEF a

LEMMA WriteAsOne ==
  ASSUME NEW t \in Ticks, NEW new, NEW noted, NEW actor \in Actors,
         WriteAs(t, new, noted, actor), Proper(ticks[t], new, actor)
  PROVE  WritesOne
<1> DEFINE lines == LogLine(t, DetectChange(ticks[t], new, noted), actor)
<1>1. lines \in SUBSET Line
  BY LogLineType
<1>2. Write(t, new, actor, lines)
  BY DEF WriteAs
<1> HIDE DEF lines
<1>3. new \in Whole
  BY DEF Proper
<1> QED
  BY <1>1, <1>2, <1>3 DEF WritesOne

LEMMA WriteSilentlyOne ==
  ASSUME NEW t \in Ticks, NEW new,
         WriteSilently(t, new), Proper(ticks[t], new, "human")
  PROVE  WritesOne
<1>1. Write(t, new, "human", {}) /\ "human" \in Actors /\ {} \in SUBSET Line /\ new \in Whole
  BY DEF WriteSilently, Actors, Proper
<1> QED
  BY <1>1 DEF WritesOne

\* Whatever the actor, a change that keeps the tick where it is will do; and a
\* human may make any change.
LEMMA ProperByHuman ==
  ASSUME NEW old, NEW new \in Whole, Stamped(new), CliOnly => Started(new)
  PROVE  Proper(old, new, "human")
  BY DEF Proper

LEMMA ProperByKeeping ==
  ASSUME NEW old, NEW new \in Whole, NEW actor, Stamped(new), CliOnly => Started(new),
         Keeps(old, new)
  PROVE  Proper(old, new, actor)
  BY KeepsObeys DEF Proper

LEMMA StampFacts ==
  ASSUME NEW who \in Actors, NEW from \in From
  PROVE  /\ Stamp(who, from) \in Actors
         /\ MayDecide(who, from) => Stamp(who, from) = "human"
  BY DEF Stamp, MayDecide, Actors, From

-----------------------------------------------------------------------------
(***************************************************************************)
(* The commands, one by one.                                               *)
(***************************************************************************)

LEMMA UpdateWrites ==
  ASSUME NEW t \in Ticks, NEW f \in Updates, NEW who \in Actors, NEW from \in From,
         Sound(ticks[t]), Update(t, f, who, from)
  PROVE  WritesOne
<1> DEFINE u == Updated(ticks[t], f)
           actor == IF f.verdict = Unset THEN who ELSE Stamp(who, from)
<1>1. f \in Flags
  BY LifecycleAssumption
<1>2. ticks[t] \in Whole
  BY Widen DEF Sound
<1>3. /\ u \in Whole
      /\ Stamped(ticks[t]) => Stamped(u)
      /\ Started(ticks[t]) => Started(u)
      /\ Safe(f) /\ f.verdict = Unset => Keeps(ticks[t], u)
  BY <1>1, <1>2, UpdatedFacts
<1>4. /\ actor \in Actors
      /\ f.verdict # Unset => actor = "human"
  BY StampFacts DEF Update
<1>5. WriteAs(t, u, FALSE, actor)
  BY DEF Update
<1> HIDE DEF u, actor
<1>6. SafeUpdates => Safe(f)
  BY DEF SafeUpdates
<1>7. Proper(ticks[t], u, actor)
  BY <1>3, <1>4, <1>6, KeepsObeys DEF Proper, Sound
<1> QED
  BY <1>4, <1>5, <1>7, WriteAsOne

\* A verdict: the result of Decide is sound, and a human's name is on it.
LEMMA DecideProper ==
  ASSUME NEW t \in Ticks, NEW v \in Verdict, Sound(ticks[t])
  PROVE  Proper(ticks[t], Decide(ticks[t], v), "human")
<1>1. ticks[t] \in Whole
  BY Widen DEF Sound
<1> DEFINE u == Decide(ticks[t], v)
<1>2. u \in Whole /\ (Stamped(ticks[t]) => Stamped(u)) /\ (Started(ticks[t]) => Started(u))
  BY <1>1, DecideFacts, DecideStamps
<1> HIDE DEF u
<1>3. Proper(ticks[t], u, "human")
  BY <1>2, ProperByHuman DEF Sound
<1> QED
  BY <1>3 DEF u

LEMMA ApproveWrites ==
  ASSUME NEW t \in Ticks, NEW who \in Actors, NEW from \in From,
         Sound(ticks[t]), Approve(t, who, from)
  PROVE  WritesOne
<1> DEFINE new      == Decide(ticks[t], "approved")
           closes   == Closes(GetAwaitingType(ticks[t]), "approved")
           actor    == Stamp(who, from)
           inferred == LogLine(t, DetectChange(ticks[t], new, FALSE), actor)
           explicit == IF closes THEN {} ELSE LogLine(t, "approve", actor)
<1>1. actor = "human" /\ actor \in Actors
  BY StampFacts DEF Approve
<1>2. Write(t, new, actor, inferred \cup explicit)
  BY DEF Approve
<1>3. inferred \in SUBSET Line
  BY <1>1, LogLineType
<1>4. explicit \in SUBSET Line
  BY <1>1 DEF LogLine, Line, Actions
<1>5. Proper(ticks[t], new, "human")
  BY DecideProper DEF Verdict
<1> HIDE DEF new, actor, inferred, explicit
<1>6. inferred \cup explicit \in SUBSET Line
  BY <1>3, <1>4
<1>7. new \in Whole
  BY <1>5 DEF Proper
<1> QED
  BY <1>1, <1>2, <1>5, <1>6, <1>7 DEF WritesOne

LEMMA RejectWrites ==
  ASSUME NEW t \in Ticks, NEW who \in Actors, NEW from \in From,
         Sound(ticks[t]), Reject(t, who, from)
  PROVE  WritesOne
<1>1. Stamp(who, from) = "human" /\ "human" \in Actors
  BY StampFacts DEF Reject, Actors
<1>2. WriteAs(t, Decide(ticks[t], "rejected"), TRUE, "human")
  BY <1>1 DEF Reject
<1>3. Proper(ticks[t], Decide(ticks[t], "rejected"), "human")
  BY DecideProper DEF Verdict
<1> QED
  BY <1>1, <1>2, <1>3, WriteAsOne

LEMMA ReopenWrites ==
  ASSUME NEW t \in Ticks, NEW who \in Actors, Sound(ticks[t]), Reopen(t, who)
  PROVE  WritesOne
<1> DEFINE u == [Release(ticks[t]) EXCEPT !.closedAt = FALSE, !.reason = FALSE]
<1>1. u \in Whole /\ Stamped(u) /\ Started(u) /\ Keeps(ticks[t], u)
  BY ReleaseFacts DEF Sound
<1>2. WriteAs(t, u, FALSE, who)
  BY DEF Reopen
<1> HIDE DEF u
<1>3. Proper(ticks[t], u, who)
  BY <1>1, ProperByKeeping
<1> QED
  BY <1>2, <1>3, WriteAsOne

\* The file a close writes over is the copy it read, or has been closed since.
Linked(file, copy) ==
  file = copy \/ (file.status = "closed" /\ file.requires = copy.requires)

LEMMA CloseOwnWrites ==
  ASSUME NEW t \in Ticks, NEW copy, NEW who \in Actors, NEW from \in From,
         NEW force \in BOOLEAN, NEW reason \in BOOLEAN,
         Sound(copy), Isolated => Linked(ticks[t], copy),
         MayClose(copy, who, from, force), CloseOwn(t, copy, who, from, force, reason)
  PROVE  WritesOne
<1> DEFINE h == HandleClose(copy, reason)
           p == ForceClosed(copy, reason)
           actor == IF ClearsGate(copy, force) THEN Stamp(who, from) ELSE who
           bypass == force /\ HasRequiredGate(copy)
           routed == ~bypass /\ HasRequiredGate(copy)
<1>1. actor \in Actors /\ (ClearsGate(copy, force) => actor = "human")
  BY StampFacts DEF MayClose
<1>2. WriteAs(t, IF bypass THEN p ELSE h, routed, actor)
  BY DEF CloseOwn
<1>3. p \in Whole /\ Stamped(p) /\ Started(p)
  BY ForceClosedFacts DEF Sound
<1>4. /\ h \in Whole /\ h.requires = copy.requires
      /\ ~HasRequiredGate(copy) => h.status = "closed"
  BY HandleCloseFacts DEF Sound
<1>5. /\ Stamped(h)
      /\ CliOnly => Started(h)
      /\ HasRequiredGate(copy) => Keeps(copy, h)
  BY HandleCloseStamps DEF Sound
<1> HIDE DEF h, p, actor
<1>6. CASE bypass
  <2>1. actor = "human"
    BY <1>1, <1>6 DEF ClearsGate
  <2>2. Proper(ticks[t], p, actor)
    BY <1>3, <2>1, ProperByHuman
  <2> QED
    BY <1>1, <1>2, <1>6, <2>2, WriteAsOne
<1>7. CASE ~bypass
  <2>1. CASE actor = "runner" /\ Isolated
    <3>1. ~ClearsGate(copy, force)
      BY <1>1, <2>1
    <3>2. HasRequiredGate(copy) \/ ~IsAwaitingHuman(copy)
      BY <3>1 DEF ClearsGate
    <3>3. Obeys(copy, h)
      <4>1. CASE HasRequiredGate(copy)
        BY <1>5, <4>1, KeepsObeys
      <4>2. CASE ~HasRequiredGate(copy)
        BY <3>2, <4>2 DEF Obeys, Holder
      <4> QED
        BY <4>1, <4>2
    <3>4. Obeys(ticks[t], h)
      <4>1. CASE ticks[t] = copy
        BY <3>3, <4>1
      <4>2. CASE ticks[t].status = "closed" /\ ticks[t].requires = copy.requires
        BY <1>4, <4>2 DEF Obeys, Holder, HasRequiredGate
      <4> QED
        BY <2>1, <4>1, <4>2 DEF Linked
    <3> QED
      BY <1>1, <1>2, <1>4, <1>5, <1>7, <3>4, WriteAsOne DEF Proper
  <2>2. CASE ~(actor = "runner" /\ Isolated)
    BY <1>1, <1>2, <1>4, <1>5, <1>7, <2>2, WriteAsOne DEF Proper
  <2> QED
    BY <2>1, <2>2
<1> QED
  BY <1>6, <1>7

LEMMA CloseWrites ==
  ASSUME NEW t \in Ticks, NEW who \in Actors, NEW from \in From,
         NEW force \in BOOLEAN, NEW reason \in BOOLEAN,
         Sound(ticks[t]), Close(t, who, from, force, reason)
  PROVE  WritesOne
<1>1. MayClose(ticks[t], who, from, force) /\ CloseOwn(t, ticks[t], who, from, force, reason)
  BY DEF Close
<1>2. Linked(ticks[t], ticks[t])
  BY DEF Linked
<1> HIDE DEF Linked
<1> QED
  BY <1>1, <1>2, CloseOwnWrites

\* The terminal UI and the board, which act for a human.
LEMMA TuiWrites ==
  ASSUME NEW t \in Ticks, Sound(ticks[t]),
         \/ \E status \in Status : TuiSetStatus(t, status)
         \/ \E reason \in BOOLEAN : TuiClose(t, reason)
         \/ TuiReopen(t)
         \/ \E verdict \in Verdict, noted \in BOOLEAN : TuiDecide(t, verdict, noted)
  PROVE  WritesOne
<1>1. ticks[t] \in Whole /\ "human" \in Actors
  BY Widen DEF Sound, Actors
<1>2. ASSUME Free("tui") PROVE ~CliOnly
  BY <1>2 DEF Free, CliOnly
<1>3. ASSUME NEW status \in Status, TuiSetStatus(t, status) PROVE WritesOne
  <2> DEFINE u == [ticks[t] EXCEPT !.status = status, !.closedAt = (status = "closed"),
                                   !.reason = @ /\ status = "closed"]
  <2>1. u \in Whole /\ Stamped(u)
    BY <1>1 DEF Whole, TickRecord, Stamped
  <2>2. WriteAs(t, u, FALSE, "human") /\ ~CliOnly
    BY <1>2, <1>3 DEF TuiSetStatus
  <2> HIDE DEF u
  <2> QED
    BY <1>1, <2>1, <2>2, ProperByHuman, WriteAsOne
<1>4. ASSUME NEW reason \in BOOLEAN, TuiClose(t, reason) PROVE WritesOne
  <2> DEFINE u == [ticks[t] EXCEPT !.status = "closed", !.closedAt = TRUE, !.reason = @ \/ reason]
  <2>1. u \in Whole /\ Stamped(u)
    BY <1>1 DEF Whole, TickRecord, Stamped, Status
  <2>2. WriteAs(t, u, FALSE, "human") /\ ~CliOnly
    BY <1>2, <1>4 DEF TuiClose
  <2> HIDE DEF u
  <2> QED
    BY <1>1, <2>1, <2>2, ProperByHuman, WriteAsOne
<1>5. ASSUME TuiReopen(t) PROVE WritesOne
  <2> DEFINE u == [ticks[t] EXCEPT !.status = "open", !.closedAt = FALSE, !.reason = FALSE]
  <2>1. u \in Whole /\ Stamped(u)
    BY <1>1 DEF Whole, TickRecord, Stamped, Status
  <2>2. WriteAs(t, u, FALSE, "human") /\ ~CliOnly
    BY <1>2, <1>5 DEF TuiReopen
  <2> HIDE DEF u
  <2> QED
    BY <1>1, <2>1, <2>2, ProperByHuman, WriteAsOne
<1>6. ASSUME NEW verdict \in Verdict, NEW noted \in BOOLEAN, TuiDecide(t, verdict, noted)
      PROVE  WritesOne
  BY <1>1, <1>6, DecideProper, WriteAsOne DEF TuiDecide
<1> QED
  BY <1>3, <1>4, <1>5, <1>6

LEMMA BoardWrites ==
  ASSUME NEW t \in Ticks, Sound(ticks[t]),
         \/ \E verdict \in Verdict : BoardDecide(t, verdict)
         \/ \E requires \in Gates : BoardUpdate(t, requires)
         \/ \E reason \in BOOLEAN : BoardClose(t, reason)
         \/ BoardReopen(t)
  PROVE  WritesOne
<1>1. ticks[t] \in Whole /\ Stamped(ticks[t])
  BY Widen DEF Sound
<1>2. ASSUME Free("board") PROVE ~CliOnly
  BY <1>2 DEF Free, CliOnly
<1>3. ASSUME NEW verdict \in Verdict, BoardDecide(t, verdict) PROVE WritesOne
  BY <1>3, DecideProper, WriteSilentlyOne DEF BoardDecide
<1>4. ASSUME NEW requires \in Gates, BoardUpdate(t, requires) PROVE WritesOne
  <2> DEFINE u == [ticks[t] EXCEPT !.requires = requires]
  <2>1. requires \in Requires \cup {None}
    BY LifecycleAssumption
  <2>2. u \in Whole /\ Stamped(u)
    BY <1>1, <2>1 DEF Whole, TickRecord, Stamped
  <2>3. WriteSilently(t, u) /\ ~CliOnly
    BY <1>2, <1>4 DEF BoardUpdate
  <2> HIDE DEF u
  <2> QED
    BY <2>2, <2>3, ProperByHuman, WriteSilentlyOne
<1>5. ASSUME NEW reason \in BOOLEAN, BoardClose(t, reason) PROVE WritesOne
  <2> DEFINE u == [ticks[t] EXCEPT !.status = "closed", !.closedAt = TRUE, !.reason = @ \/ reason]
  <2>1. u \in Whole /\ Stamped(u)
    BY <1>1 DEF Whole, TickRecord, Stamped, Status
  <2>2. WriteSilently(t, u) /\ ~CliOnly
    BY <1>2, <1>5 DEF BoardClose
  <2> HIDE DEF u
  <2> QED
    BY <2>1, <2>2, ProperByHuman, WriteSilentlyOne
<1>6. ASSUME BoardReopen(t) PROVE WritesOne
  <2> DEFINE u == [ticks[t] EXCEPT !.status = "open", !.closedAt = FALSE, !.reason = FALSE,
                                   !.awaiting = None, !.verdict = None]
  <2>1. u \in Whole /\ Stamped(u)
    BY <1>1 DEF Whole, TickRecord, Stamped, Status
  <2>2. WriteSilently(t, u) /\ ~CliOnly
    BY <1>2, <1>6 DEF BoardReopen
  <2> HIDE DEF u
  <2> QED
    BY <2>1, <2>2, ProperByHuman, WriteSilentlyOne
<1> QED
  BY <1>3, <1>4, <1>5, <1>6

-----------------------------------------------------------------------------
\* A command of tk, whether or not it gives a verdict by a flag.
Command ==
  \E who \in Actors, from \in From :
    \/ \E t \in Ticks :
         \/ \E f \in Updates : Update(t, f, who, from)
         \/ Approve(t, who, from)
         \/ Reject(t, who, from)
         \/ Reopen(t, who)
         \/ \E force, reason \in BOOLEAN : Close(t, who, from, force, reason)
    \/ \E e \in Epics : StartCascade(e, who, from)

LEMMA NextCases ==
  ASSUME Next
  PROVE  /\ Command \/ CascadeStep \/ Tui \/ Board
         /\ via' \in Ways
<1>1. Cli => Command
  BY DEF Cli, Command
<1>2. VerdictFlag => Command
  BY DEF VerdictFlag, Command
<1> QED
  BY <1>1, <1>2 DEF Next, Ways

-----------------------------------------------------------------------------
(***************************************************************************)
(* The inductive invariant.  The files are sound, and so are the copies a  *)
(* forced close holds; if nothing else runs meanwhile, these are still     *)
(* what the files say, and a runner's hold no gate.                        *)
(***************************************************************************)

CascadeSound ==
  /\ Sound(cascade.copy)
  /\ \A c \in DOMAIN cascade.left :
       /\ cascade.actor = "runner" => ~Gated(cascade.left[c])
       /\ Isolated => cascade.left[c] = ticks[c]
  /\ Isolated => Linked(ticks[cascade.epic], cascade.copy)

CascadeTyped == \E left \in SUBSET Ticks : cascade \in Cascade(left)

IInv ==
  /\ \A t \in Ticks : Sound(ticks[t])
  /\ cascade # NoCascade => CascadeSound

\* No cascade under way is mistaken for none.
LEMMA CascadeFields ==
  ASSUME CascadeTyped
  PROVE  /\ cascade # NoCascade
         /\ cascade.epic \in Epics /\ cascade.epic \in Ticks
         /\ cascade.copy \in TickFile
         /\ cascade.who \in Actors /\ cascade.from \in From /\ cascade.actor \in Actors
         /\ DOMAIN cascade.left \subseteq Ticks
         /\ \A c \in DOMAIN cascade.left : cascade.left[c] \in TickFile
<1>1. PICK left \in SUBSET Ticks : cascade \in Cascade(left)
  BY DEF CascadeTyped
<1>2. /\ cascade.epic \in Epics /\ cascade.copy \in TickFile
      /\ cascade.who \in Actors /\ cascade.from \in From /\ cascade.actor \in Actors
      /\ cascade.left \in [left -> TickFile]
  BY <1>1 DEF Cascade
<1>3. cascade.epic \in Ticks /\ cascade.epic # None
  BY <1>2, LifecycleAssumption
<1>4. cascade # NoCascade
  BY <1>3 DEF NoCascade
<1> QED
  BY <1>2, <1>3, <1>4

LEMMA CascadeChildWrites ==
  ASSUME NEW c \in Ticks, CascadeTyped, CascadeSound, CascadeChild(c)
  PROVE  /\ WritesOne
         /\ ticks' = [ticks EXCEPT ![c] = Bare(ForceClosed(cascade.left[c], TRUE))]
<1> DEFINE old == cascade.left[c]
           p   == ForceClosed(old, TRUE)
<1>1. old \in TickFile /\ cascade.actor \in Actors
  BY CascadeFields DEF CascadeChild
<1>2. p \in Whole /\ Stamped(p) /\ Started(p) /\ p.requires = old.requires
  BY <1>1, ForceClosedFacts
<1>3. WriteAs(c, p, FALSE, cascade.actor)
  BY DEF CascadeChild
<1>4. /\ cascade.actor = "runner" => ~Gated(old)
      /\ Isolated => old = ticks[c]
  BY DEF CascadeSound, CascadeChild
<1> HIDE DEF old, p
<1>5. Isolated /\ cascade.actor = "runner" => Obeys(ticks[c], p)
  BY <1>4 DEF Gated, Obeys, Holder
<1>6. Proper(ticks[c], p, cascade.actor)
  BY <1>2, <1>5 DEF Proper
<1>7. WritesOne
  BY <1>1, <1>3, <1>6, WriteAsOne
<1>8. ticks' = [ticks EXCEPT ![c] = Bare(p)]
  BY <1>3 DEF WriteAs, Write
<1> QED
  BY <1>7, <1>8 DEF p, old

LEMMA CascadeEpicWrites ==
  ASSUME NEW reason \in BOOLEAN, CascadeTyped, CascadeSound, CascadeEpic(reason)
  PROVE  WritesOne
<1> DEFINE e == cascade.epic
           k == cascade.copy
           w == cascade.who
           m == cascade.from
<1>1. e \in Ticks /\ w \in Actors /\ m \in From
  BY CascadeFields
<1>2. Sound(k) /\ (Isolated => Linked(ticks[e], k))
  BY DEF CascadeSound
<1>3. MayClose(k, w, m, TRUE) /\ CloseOwn(e, k, w, m, TRUE, reason)
  BY DEF CascadeEpic
<1> HIDE DEF e, k, w, m
<1> QED
  BY <1>1, <1>2, <1>3, CloseOwnWrites

\* Every step that leaves a trace writes one file, and writes it properly.
LEMMA StepWrites ==
  ASSUME TypeOK, IInv, Next
  PROVE  WritesOne \/ UNCHANGED <<ticks, by, logged>>
<1>1. \A t \in Ticks : Sound(ticks[t])
  BY DEF IInv
<1>2. ASSUME Command PROVE WritesOne \/ UNCHANGED <<ticks, by, logged>>
  <2>1. PICK who \in Actors, from \in From :
          \/ \E t \in Ticks :
               \/ \E f \in Updates : Update(t, f, who, from)
               \/ Approve(t, who, from)
               \/ Reject(t, who, from)
               \/ Reopen(t, who)
               \/ \E force, reason \in BOOLEAN : Close(t, who, from, force, reason)
          \/ \E e \in Epics : StartCascade(e, who, from)
    BY <1>2 DEF Command
  <2>2. CASE \E e \in Epics : StartCascade(e, who, from)
    BY <2>2 DEF StartCascade
  <2>3. CASE ~ \E e \in Epics : StartCascade(e, who, from)
    <3>1. PICK t \in Ticks :
               \/ \E f \in Updates : Update(t, f, who, from)
               \/ Approve(t, who, from)
               \/ Reject(t, who, from)
               \/ Reopen(t, who)
               \/ \E force, reason \in BOOLEAN : Close(t, who, from, force, reason)
      BY <2>1, <2>3
    <3>2. Sound(ticks[t])
      BY <1>1
    <3> QED
      BY <3>1, <3>2, UpdateWrites, ApproveWrites, RejectWrites, ReopenWrites, CloseWrites
  <2> QED
    BY <2>2, <2>3
<1>3. ASSUME CascadeStep PROVE WritesOne \/ UNCHANGED <<ticks, by, logged>>
  <2>1. CASE cascade = NoCascade
    BY <1>3, <2>1 DEF CascadeStep, CascadeChild, CascadeEpic, CascadeRefused, CascadeStops
  <2>2. CASE cascade # NoCascade
    <3>1. CascadeTyped /\ CascadeSound
      BY <2>2 DEF TypeOK, IInv, CascadeTyped
    <3> QED
      BY <1>3, <3>1, CascadeChildWrites, CascadeEpicWrites
      DEF CascadeStep, CascadeRefused, CascadeStops
  <2> QED
    BY <2>1, <2>2
<1>4. ASSUME Tui PROVE WritesOne
  BY <1>1, <1>4, TuiWrites DEF Tui
<1>5. ASSUME Board PROVE WritesOne
  BY <1>1, <1>5, BoardWrites DEF Board
<1> QED
  BY <1>2, <1>3, <1>4, <1>5, NextCases

LEMMA WriteSound ==
  ASSUME ticks \in [Ticks -> TickFile], \A t \in Ticks : Sound(ticks[t]), WritesOne
  PROVE  /\ ticks' \in [Ticks -> TickFile]
         /\ \A t \in Ticks : Sound(ticks'[t])
         /\ by' \in Actors
         /\ logged' \subseteq Line
<1>1. PICK t \in Ticks, new \in Whole, actor \in Actors, lines \in SUBSET Line :
        Write(t, new, actor, lines) /\ Proper(ticks[t], new, actor)
  BY DEF WritesOne
<1> DEFINE b == Bare(new)
<1>2. /\ b \in TickFile /\ b.status = new.status /\ b.started = new.started
      /\ b.closedAt = new.closedAt /\ b.reason = new.reason
  BY BareFacts
<1>3. ticks' = [ticks EXCEPT ![t] = b] /\ by' = actor /\ logged' = lines
  BY <1>1 DEF Write
<1> HIDE DEF b
<1>4. Sound(b)
  BY <1>1, <1>2 DEF Sound, Proper, Stamped, Started
<1> QED
  BY <1>2, <1>3, <1>4

\* A tick file that a command writes has the status and the gate of the copy.
LEMMA ChildStaysLinked ==
  ASSUME ticks \in [Ticks -> TickFile], CascadeTyped, CascadeSound, Isolated,
         NEW c \in Ticks, CascadeChild(c)
  PROVE  Linked(ticks'[cascade.epic], cascade.copy)
<1> DEFINE p == ForceClosed(cascade.left[c], TRUE)
           b == Bare(p)
           e == cascade.epic
<1>1. /\ cascade.left[c] \in TickFile /\ cascade.left[c] = ticks[c] /\ e \in Ticks
  BY CascadeFields DEF CascadeSound, CascadeChild
<1>2. p \in Whole /\ p.status = "closed" /\ p.requires = ticks[c].requires
  BY <1>1, ForceClosedFacts
<1>3. ticks' = [ticks EXCEPT ![c] = b]
  BY CascadeChildWrites
<1> HIDE DEF p
<1>4. b.status = "closed" /\ b.requires = ticks[c].requires
  BY <1>2, BareFacts
<1> HIDE DEF b
<1>5. Linked(ticks[e], cascade.copy)
  BY DEF CascadeSound
<1> HIDE DEF e
<1>6. Linked(ticks'[e], cascade.copy)
  BY <1>1, <1>3, <1>4, <1>5 DEF Linked
<1> QED
  BY <1>6 DEF e

LEMMA ChildStaysSound ==
  ASSUME ticks \in [Ticks -> TickFile], CascadeTyped, CascadeSound,
         NEW c \in Ticks, CascadeChild(c)
  PROVE  CascadeTyped' /\ CascadeSound'
<1> DEFINE l == [d \in DOMAIN cascade.left \ {c} |-> cascade.left[d]]
<1>1. cascade' = [cascade EXCEPT !.closed = @ \cup {c}, !.left = l]
  BY DEF CascadeChild
<1>2. PICK left \in SUBSET Ticks : cascade \in Cascade(left)
  BY DEF CascadeTyped
<1>3. cascade.left \in [left -> TickFile]
  BY <1>2 DEF Cascade
<1>4. l \in [left \ {c} -> TickFile] /\ \A d \in left \ {c} : l[d] = cascade.left[d]
  BY <1>3
<1> HIDE DEF l
<1>5. cascade' \in Cascade(left \ {c})
  BY <1>1, <1>2, <1>4 DEF Cascade
<1>6. CascadeTyped'
  <2>1. left \ {c} \in SUBSET Ticks
    OBVIOUS
  <2> QED
    BY <1>5, <2>1 DEF CascadeTyped, Cascade, TickFile
<1>7. /\ cascade'.copy = cascade.copy /\ cascade'.epic = cascade.epic
      /\ cascade'.actor = cascade.actor /\ cascade'.left = l
  BY <1>1, <1>2 DEF Cascade
<1>8. DOMAIN l = left \ {c} /\ DOMAIN cascade.left = left
  BY <1>3, <1>4
<1>9. \A d \in DOMAIN cascade'.left :
        /\ cascade'.actor = "runner" => ~Gated(cascade'.left[d])
        /\ Isolated => cascade'.left[d] = ticks'[d]
  <2>1. ticks' = [ticks EXCEPT ![c] = Bare(ForceClosed(cascade.left[c], TRUE))]
    BY CascadeChildWrites
  <2>2. \A d \in left \ {c} : ticks'[d] = ticks[d]
    BY <2>1
  <2>3. \A d \in left : /\ cascade.actor = "runner" => ~Gated(cascade.left[d])
                        /\ Isolated => cascade.left[d] = ticks[d]
    BY <1>8 DEF CascadeSound
  <2> QED
    BY <1>4, <1>7, <1>8, <2>2, <2>3
<1>10. Isolated => Linked(ticks'[cascade'.epic], cascade'.copy)
  BY <1>7, ChildStaysLinked
<1>11. Sound(cascade'.copy)
  BY <1>7 DEF CascadeSound
<1>12. CascadeSound'
  BY <1>9, <1>10, <1>11 DEF CascadeSound, Sound, Gated, Linked, Stamped, Started,
    IsAwaitingHuman, HasRequiredGate, CliOnly
<1> QED
  BY <1>6, <1>12

LEMMA StartIsSound ==
  ASSUME \A t \in Ticks : Sound(ticks[t]), NEW e \in Epics, NEW who \in Actors,
         NEW from \in From, StartCascade(e, who, from)
  PROVE  CascadeTyped' /\ CascadeSound'
<1> DEFINE open  == OpenChildren(e)
           gated == \E c \in open : Gated(ticks[c])
           left  == [c \in open |-> ticks[c]]
           actor == IF gated THEN Stamp(who, from) ELSE who
<1>1. cascade' = [epic |-> e, copy |-> ticks[e], left |-> left,
                  closed |-> {}, who |-> who, from |-> from, actor |-> actor]
      /\ ticks' = ticks
  BY DEF StartCascade
<1>2. open \subseteq Ticks /\ e \in Ticks
  BY LifecycleAssumption DEF OpenChildren
<1>3. \A t \in Ticks : ticks[t] \in TickFile
  BY DEF Sound
<1>4. actor \in Actors /\ (gated => actor = "human")
  BY StampFacts DEF StartCascade
<1>5. left \in [open -> TickFile]
  BY <1>2, <1>3
<1>6. \A c \in open : actor = "runner" => ~Gated(ticks[c])
  BY <1>4
<1>7. \A c \in open : left[c] = ticks[c]
  OBVIOUS
<1>8. DOMAIN left = open
  OBVIOUS
<1> HIDE DEF open, gated, left, actor
<1>9. cascade' \in Cascade(open)
  BY <1>1, <1>2, <1>3, <1>4, <1>5 DEF Cascade
<1>10. CascadeTyped'
  BY <1>2, <1>9 DEF CascadeTyped, Cascade, TickFile
<1>11. /\ cascade'.copy = ticks[e] /\ cascade'.epic = e
       /\ cascade'.actor = actor /\ cascade'.left = left
  BY <1>1
<1>12. \A c \in DOMAIN cascade'.left :
        /\ cascade'.actor = "runner" => ~Gated(cascade'.left[c])
        /\ Isolated => cascade'.left[c] = ticks'[c]
  BY <1>1, <1>6, <1>7, <1>8, <1>11
<1>13. Sound(cascade'.copy) /\ Linked(ticks'[cascade'.epic], cascade'.copy)
  BY <1>1, <1>2, <1>11 DEF Linked
<1>14. CascadeSound'
  BY <1>12, <1>13 DEF CascadeSound, Sound, Gated, Linked, Stamped, Started,
    IsAwaitingHuman, HasRequiredGate, CliOnly
<1> QED
  BY <1>10, <1>14

\* What a step does to the cascade.
LEMMA CascadeInductive ==
  ASSUME TypeOK, IInv, Next
  PROVE  \/ cascade' = NoCascade
         \/ CascadeTyped' /\ CascadeSound'
<1>1. \A t \in Ticks : Sound(ticks[t])
  BY DEF IInv
<1>2. ASSUME UNCHANGED cascade, Isolated => cascade = NoCascade
      PROVE  cascade' = NoCascade \/ (CascadeTyped' /\ CascadeSound')
  <2>1. CASE cascade = NoCascade
    BY <1>2, <2>1
  <2>2. CASE cascade # NoCascade
    <3>1. CascadeTyped /\ CascadeSound /\ ~Isolated
      BY <1>2, <2>2 DEF TypeOK, IInv, CascadeTyped
    <3>2. CascadeTyped'
      BY <1>2, <3>1 DEF CascadeTyped, Cascade, TickFile
    <3>3. CascadeSound'
      BY <1>2, <3>1 DEF CascadeSound, Sound, Gated, Stamped, Started,
        IsAwaitingHuman, HasRequiredGate, CliOnly
    <3> QED
      BY <3>2, <3>3
  <2> QED
    BY <2>1, <2>2
<1>3. ASSUME Command PROVE cascade' = NoCascade \/ (CascadeTyped' /\ CascadeSound')
  <2>1. CASE \E who \in Actors, from \in From, e \in Epics : StartCascade(e, who, from)
    BY <1>1, <2>1, StartIsSound
  <2>2. CASE ~ \E who \in Actors, from \in From, e \in Epics : StartCascade(e, who, from)
    <3>1. PICK who \in Actors, from \in From, t \in Ticks :
               \/ \E f \in Updates : Update(t, f, who, from)
               \/ Approve(t, who, from)
               \/ Reject(t, who, from)
               \/ Reopen(t, who)
               \/ \E force, reason \in BOOLEAN : Close(t, who, from, force, reason)
      BY <1>3, <2>2 DEF Command
    <3>2. ASSUME NEW f \in Updates, Update(t, f, who, from)
          PROVE  UNCHANGED cascade /\ Free("cli")
      BY <3>2 DEF Update
    <3>3. ASSUME NEW force \in BOOLEAN, NEW reason \in BOOLEAN, Close(t, who, from, force, reason)
          PROVE  UNCHANGED cascade /\ Free("cli")
      BY <3>3 DEF Close
    <3>4. CASE Approve(t, who, from) \/ Reject(t, who, from) \/ Reopen(t, who)
      BY <1>2, <3>4 DEF Approve, Reject, Reopen, Free
    <3>5. CASE ~(Approve(t, who, from) \/ Reject(t, who, from) \/ Reopen(t, who))
      <4>1. UNCHANGED cascade /\ Free("cli")
        BY <3>1, <3>2, <3>3, <3>5
      <4> QED
        BY <1>2, <4>1 DEF Free
    <3> QED
      BY <3>4, <3>5
  <2> QED
    BY <2>1, <2>2
<1>4. ASSUME CascadeStep PROVE cascade' = NoCascade \/ (CascadeTyped' /\ CascadeSound')
  <2>1. CASE \E c \in Ticks : CascadeChild(c)
    <3>1. PICK c \in Ticks : CascadeChild(c)
      BY <2>1
    <3>2. CascadeTyped /\ CascadeSound /\ ticks \in [Ticks -> TickFile]
      BY <3>1 DEF CascadeChild, TypeOK, IInv, CascadeTyped
    <3> QED
      BY <3>1, <3>2, ChildStaysSound
  <2>2. CASE ~ \E c \in Ticks : CascadeChild(c)
    BY <1>4, <2>2 DEF CascadeStep, CascadeEpic, CascadeRefused, CascadeStops
  <2> QED
    BY <2>1, <2>2
<1>5. ASSUME Tui PROVE cascade' = NoCascade \/ (CascadeTyped' /\ CascadeSound')
  <2>1. UNCHANGED cascade /\ Free("tui")
    BY <1>5 DEF Tui, TuiSetStatus, TuiClose, TuiReopen, TuiDecide
  <2> QED
    BY <1>2, <2>1 DEF Free
<1>6. ASSUME Board PROVE cascade' = NoCascade \/ (CascadeTyped' /\ CascadeSound')
  <2>1. UNCHANGED cascade /\ Free("board")
    BY <1>6 DEF Board, BoardDecide, BoardUpdate, BoardClose, BoardReopen
  <2> QED
    BY <1>2, <2>1 DEF Free
<1> QED
  BY <1>3, <1>4, <1>5, <1>6, NextCases

LEMMA InitSound ==
  ASSUME Init PROVE TypeOK /\ IInv
<1>1. ASSUME NEW x \in Created PROVE Sound(x)
  <2>1. PICK c \in [requires : Gates, awaiting : Parks, manual : {FALSE, Legacy}] :
          x = Fresh(c)
    BY <1>1 DEF Created
  <2> DEFINE g == c.requires
             a == c.awaiting
             m == c.manual
  <2>2. g \in Requires \cup {None} /\ a \in Awaiting \cup {None} /\ m \in BOOLEAN
    BY LifecycleAssumption
  <2>3. x = [status |-> "open", requires |-> g, awaiting |-> a, manual |-> m,
             verdict |-> None, started |-> FALSE, closedAt |-> FALSE, reason |-> FALSE,
             notes |-> <<>>]
    BY <2>1 DEF Fresh, NewTick
  <2>4. <<>> \in Seq({})
    OBVIOUS
  <2>5. x \in TickFile
    BY <2>2, <2>3, <2>4 DEF TickFile, TickRecord, Status
  <2>6. Stamped(x) /\ Started(x)
    BY <2>3 DEF Stamped, Started
  <2> QED
    BY <2>5, <2>6 DEF Sound
<1>2. \A t \in Ticks : Sound(ticks[t])
  BY <1>1 DEF Init
<1>3. ticks \in [Ticks -> TickFile]
  <2>1. Created \subseteq TickFile
    BY <1>1 DEF Sound
  <2> QED
    BY <2>1 DEF Init
<1>4. TypeOK
  BY <1>3 DEF Init, TypeOK, Actors, Ways
<1> QED
  BY <1>2, <1>4 DEF Init, IInv

LEMMA StepSound ==
  ASSUME TypeOK, IInv, [Next]_vars PROVE TypeOK' /\ IInv'
<1>1. CASE Next
  <2>1. /\ ticks' \in [Ticks -> TickFile]
        /\ \A t \in Ticks : Sound(ticks'[t])
        /\ by' \in Actors
        /\ logged' \subseteq Line
    <3>1. /\ ticks \in [Ticks -> TickFile] /\ by \in Actors /\ logged \subseteq Line
          /\ \A t \in Ticks : Sound(ticks[t])
      BY DEF TypeOK, IInv
    <3> QED
      BY <1>1, <3>1, StepWrites, WriteSound
  <2>2. cascade' = NoCascade \/ (CascadeTyped' /\ CascadeSound')
    BY <1>1, CascadeInductive
  <2>3. TypeOK'
    BY <1>1, <2>1, <2>2, NextCases DEF TypeOK, CascadeTyped
  <2>4. IInv'
    BY <2>1, <2>2 DEF IInv, Sound, Stamped, Started, CliOnly
  <2> QED
    BY <2>3, <2>4
<1>2. CASE UNCHANGED vars
  <2>1. /\ ticks' = ticks /\ cascade' = cascade /\ by' = by /\ logged' = logged
        /\ via' = via
    BY <1>2 DEF vars
  <2>2. TypeOK'
    BY <2>1 DEF TypeOK, Cascade, Line, TickFile
  <2>3. IInv'
    BY <2>1 DEF IInv, CascadeSound, Linked, Sound, Stamped, Started, CliOnly, Gated,
      IsAwaitingHuman, HasRequiredGate
  <2> QED
    BY <2>2, <2>3
<1> QED
  BY <1>1, <1>2

\* The variables keep their types, whatever commands run.
THEOREM TypeCorrect == Spec => [](TypeOK /\ IInv)
<1>1. Init => TypeOK /\ IInv
  BY InitSound
<1>2. TypeOK /\ IInv /\ [Next]_vars => TypeOK' /\ IInv'
  BY StepSound
<1> QED
  BY <1>1, <1>2, PTL DEF Spec

\* On every surface, under every flag of tk update and through a forced close
\* that dies half way, a tick has a closing time exactly while it is closed.
THEOREM ClosedStampHolds == Spec => []ClosedStamp
<1>1. TypeOK /\ IInv => ClosedStamp
  BY DEF TypeOK, IInv, Sound, Stamped, ClosedStamp
<1> QED
  BY <1>1, TypeCorrect, PTL

\* With the command line alone, a tick in progress has its start, and an open
\* one none.  (The terminal UI breaks this: it sets a status and no start.)
THEOREM StartedStampHolds ==
  ASSUME CliOnly
  PROVE  Spec => []StartedStamp
<1>1. TypeOK /\ IInv => StartedStamp
  BY DEF TypeOK, IInv, Sound, Started, StartedStamp
<1> QED
  BY <1>1, TypeCorrect, PTL

-----------------------------------------------------------------------------
(***************************************************************************)
(* The lifecycle implements the hand-off.                                  *)
(***************************************************************************)

LEMMA WriteMoves ==
  ASSUME ticks \in [Ticks -> TickFile], WritesOne, Isolated, SafeUpdates
  PROVE  Promise!Next
<1>1. PICK t \in Ticks, new \in Whole, actor \in Actors, lines \in SUBSET Line :
        Write(t, new, actor, lines) /\ Proper(ticks[t], new, actor)
  BY DEF WritesOne
<1> DEFINE b == Bare(new)
           holder == [o \in Ticks |-> Holder(ticks[o])]
           gated  == {o \in Ticks : HasRequiredGate(ticks[o])}
<1>2. /\ b.status = new.status /\ b.requires = new.requires
      /\ b.awaiting = new.awaiting /\ b.manual = new.manual
  BY BareFacts
<1>3. ticks' = [ticks EXCEPT ![t] = b] /\ by' = actor
  BY <1>1 DEF Write
<1> HIDE DEF b
<1>4. Holder(b) = Holder(new) /\ HasRequiredGate(b) = HasRequiredGate(new)
  BY <1>2 DEF Holder, HasRequiredGate, IsAwaitingHuman
<1>5. actor = "runner" => Obeys(ticks[t], b)
  BY <1>1, <1>4 DEF Proper, Obeys
<1>6. holder' = [holder EXCEPT ![t] = Holder(b)]
  <2>1. \A o \in Ticks : ticks'[o] = IF o = t THEN b ELSE ticks[o]
    BY <1>3
  <2> QED
    BY <2>1
<1>7. gated' = IF HasRequiredGate(b) THEN gated \cup {t} ELSE gated \ {t}
  <2>1. \A o \in Ticks : ticks'[o] = IF o = t THEN b ELSE ticks[o]
    BY <1>3
  <2> QED
    BY <2>1 DEF HasRequiredGate
<1>8. actor = "runner" => /\ holder[t] = "human" => Holder(b) = "human"
                          /\ Holder(b) = "done" /\ holder[t] # "done" => t \notin gated
                          /\ t \in gated => HasRequiredGate(b)
  BY <1>5 DEF Obeys
<1>9. Promise!Move(t, Holder(b), HasRequiredGate(b), actor)
  BY <1>3, <1>6, <1>7, <1>8 DEF Promise!Move, Promise!RunnerMay
<1>10. Holder(b) \in Promise!Holders /\ HasRequiredGate(b) \in BOOLEAN
  BY DEF Holder, HasRequiredGate, Promise!Holders
<1> QED
  BY <1>9, <1>10 DEF Promise!Next, Actors

\* Whichever of the commands run, in any order and on any ticks, a runner takes
\* no tick from the human it waits for, finishes no gated tick and drops no
\* gate; provided no call of tk update takes one away in so many words, and
\* nothing else runs during a forced close.
THEOREM HandoffImplemented ==
  ASSUME Isolated, SafeUpdates
  PROVE  Spec => ImplementsHandoff
<1>1. Init => Promise!Init
  BY DEF Init, Promise!Init, Promise!Holders, Holder
<1>2. TypeOK /\ IInv /\ [Next]_vars
      => [Promise!Next]_<<[t \in Ticks |-> Holder(ticks[t])],
                          {t \in Ticks : HasRequiredGate(ticks[t])}, by>>
  <2>1. ASSUME TypeOK, IInv, Next
        PROVE  \/ Promise!Next
               \/ UNCHANGED <<ticks, by>>
    BY <2>1, StepWrites, WriteMoves DEF TypeOK
  <2> QED
    BY <2>1 DEF vars
<1> QED
  BY <1>1, <1>2, TypeCorrect, PTL DEF Spec, ImplementsHandoff, Promise!Spec

-----------------------------------------------------------------------------
(***************************************************************************)
(* An epic falls last.  A forced close listed every open child, and they   *)
(* stay the only ones while nothing else runs.                             *)
(***************************************************************************)

NoSelfParent == \A e \in Epics : Parent[e] # e

EpicInv ==
  cascade # NoCascade =>
    /\ OpenChildren(cascade.epic) \subseteq DOMAIN cascade.left
    /\ \A c \in DOMAIN cascade.left : c \in Ticks /\ Parent[c] = cascade.epic

\* Alone, a forced close is begun and goes on, or there is none.
LEMMA CascadeMoves ==
  ASSUME Isolated, Next
  PROVE  \/ cascade' = NoCascade
         \/ \E e \in Epics, who \in Actors, from \in From : StartCascade(e, who, from)
         \/ \E c \in Ticks : CascadeChild(c)
<1>1. ASSUME Command PROVE cascade' = NoCascade
                       \/ \E e \in Epics, who \in Actors, from \in From : StartCascade(e, who, from)
  <2>1. PICK who \in Actors, from \in From :
          \/ \E t \in Ticks :
               \/ \E f \in Updates : Update(t, f, who, from)
               \/ Approve(t, who, from)
               \/ Reject(t, who, from)
               \/ Reopen(t, who)
               \/ \E force, reason \in BOOLEAN : Close(t, who, from, force, reason)
          \/ \E e \in Epics : StartCascade(e, who, from)
    BY <1>1 DEF Command
  <2>2. CASE \E e \in Epics : StartCascade(e, who, from)
    BY <2>2
  <2>3. CASE ~ \E e \in Epics : StartCascade(e, who, from)
    <3>1. UNCHANGED cascade /\ Free("cli")
      BY <2>1, <2>3 DEF Update, Approve, Reject, Reopen, Close
    <3> QED
      BY <3>1 DEF Free
  <2> QED
    BY <2>2, <2>3
<1>2. ASSUME CascadeStep PROVE cascade' = NoCascade \/ \E c \in Ticks : CascadeChild(c)
  BY <1>2 DEF CascadeStep, CascadeEpic, CascadeRefused, CascadeStops
<1>3. ASSUME Tui PROVE cascade' = NoCascade
  <2>1. UNCHANGED cascade /\ Free("tui")
    BY <1>3 DEF Tui, TuiSetStatus, TuiClose, TuiReopen, TuiDecide
  <2> QED
    BY <2>1 DEF Free
<1>4. ASSUME Board PROVE cascade' = NoCascade
  <2>1. UNCHANGED cascade /\ Free("board")
    BY <1>4 DEF Board, BoardDecide, BoardUpdate, BoardClose, BoardReopen
  <2> QED
    BY <2>1 DEF Free
<1> QED
  BY <1>1, <1>2, <1>3, <1>4, NextCases

LEMMA EpicInvStep == Isolated /\ TypeOK /\ IInv /\ EpicInv /\ [Next]_vars => EpicInv'
<1> SUFFICES ASSUME Isolated, TypeOK, IInv, EpicInv, [Next]_vars
             PROVE  EpicInv'
  OBVIOUS
<1>1. CASE UNCHANGED vars
  BY <1>1 DEF vars, EpicInv, OpenChildren
<1>2. CASE cascade' = NoCascade
  BY <1>2 DEF EpicInv
<1>3. ASSUME NEW e \in Epics, NEW who \in Actors, NEW from \in From, StartCascade(e, who, from)
      PROVE  EpicInv'
  <2> DEFINE open == OpenChildren(e)
             left == [c \in open |-> ticks[c]]
  <2>1. cascade'.epic = e /\ cascade'.left = left /\ ticks' = ticks
    BY <1>3 DEF StartCascade
  <2>2. DOMAIN left = open /\ OpenChildren(e)' = open
    BY <2>1 DEF OpenChildren
  <2>3. \A c \in open : c \in Ticks /\ Parent[c] = e
    BY DEF OpenChildren
  <2> HIDE DEF open, left
  <2>4. OpenChildren(cascade.epic)' \subseteq DOMAIN cascade'.left
    BY <2>1, <2>2 DEF OpenChildren
  <2> QED
    BY <2>1, <2>2, <2>3, <2>4 DEF EpicInv
<1>4. ASSUME NEW c \in Ticks, CascadeChild(c)
      PROVE  EpicInv'
  <2>1. cascade # NoCascade /\ CascadeTyped /\ CascadeSound /\ c \in DOMAIN cascade.left
    BY <1>4 DEF CascadeChild, TypeOK, IInv, CascadeTyped
  <2> DEFINE l == [d \in DOMAIN cascade.left \ {c} |-> cascade.left[d]]
             p == ForceClosed(cascade.left[c], TRUE)
  <2>2. cascade' = [cascade EXCEPT !.closed = @ \cup {c}, !.left = l]
    BY <1>4 DEF CascadeChild
  <2>3. DOMAIN l = DOMAIN cascade.left \ {c}
    OBVIOUS
  <2>4. p \in Whole /\ p.status = "closed"
    BY <2>1, CascadeFields, ForceClosedFacts
  <2>5. ticks' = [ticks EXCEPT ![c] = Bare(p)]
    BY <1>4, <2>1, CascadeChildWrites
  <2>6. Bare(p).status = "closed"
    BY <2>4, BareFacts
  <2> HIDE DEF l, p
  <2>7. cascade'.epic = cascade.epic /\ cascade'.left = l
    <3>1. PICK left \in SUBSET Ticks : cascade \in Cascade(left)
      BY <2>1 DEF CascadeTyped
    <3> QED
      BY <2>2, <3>1 DEF Cascade
  <2>8. ticks'[c].status = "closed" /\ \A d \in Ticks : d # c => ticks'[d] = ticks[d]
    BY <2>5, <2>6 DEF TypeOK
  <2>9. OpenChildren(cascade.epic)' \subseteq OpenChildren(cascade.epic) \ {c}
    BY <2>7, <2>8 DEF OpenChildren
  <2> QED
    BY <2>1, <2>3, <2>7, <2>9 DEF EpicInv
<1> QED
  BY <1>1, <1>2, <1>3, <1>4, CascadeMoves

\* The file a command writes is that of its tick, and no other.
LEMMA WriteOthers ==
  ASSUME ticks \in [Ticks -> TickFile], NEW t \in Ticks, NEW new \in Whole, NEW actor, NEW lines,
         Write(t, new, actor, lines)
  PROVE  /\ \A s \in Ticks : s # t => ticks'[s] = ticks[s]
         /\ ticks'[t].status = new.status /\ Holder(ticks'[t]) = Holder(new)
         /\ by' = actor /\ logged' = lines
<1> DEFINE b == Bare(new)
<1>1. b.status = new.status /\ b.awaiting = new.awaiting /\ b.manual = new.manual
  BY BareFacts
<1>2. ticks' = [ticks EXCEPT ![t] = b] /\ by' = actor /\ logged' = lines
  BY DEF Write
<1> HIDE DEF b
<1> QED
  BY <1>1, <1>2 DEF Holder, IsAwaitingHuman

\* A change that keeps the tick where it is closes no epic.
LEMMA KeptOpen ==
  ASSUME ticks \in [Ticks -> TickFile], NEW t \in Ticks, NEW new \in Whole, NEW actor, NEW lines,
         Write(t, new, actor, lines), Keeps(ticks[t], new)
  PROVE  /\ \A s \in Ticks : ticks'[s].status = "closed" => ticks[s].status = "closed"
         /\ \A s \in Ticks : Holder(ticks[s]) = "human" => Holder(ticks'[s]) = "human"
<1>1. /\ \A s \in Ticks : s # t => ticks'[s] = ticks[s]
      /\ ticks'[t].status = new.status /\ Holder(ticks'[t]) = Holder(new)
  BY WriteOthers
<1> QED
  BY <1>1 DEF Keeps, Holder

FallsLast(e) ==
  ticks[e].status # "closed" /\ ticks'[e].status = "closed"
    /\ cascade.epic \in {None, e} /\ by' = "runner"
  => OpenChildren(e) = {}

\* What a tk update that hands nothing over does to a tick.
LEMMA UpdateKeeps ==
  ASSUME SafeUpdates, NEW t \in Ticks, NEW f \in Updates, NEW who \in Actors, NEW from \in From,
         ticks \in [Ticks -> TickFile], Update(t, f, who, from)
  PROVE  /\ f.verdict # Unset => by' = "human"
         /\ f.verdict = Unset =>
              /\ \A s \in Ticks : ticks'[s].status = "closed" => ticks[s].status = "closed"
              /\ \A s \in Ticks : Holder(ticks[s]) = "human" => Holder(ticks'[s]) = "human"
<1> DEFINE u == Updated(ticks[t], f)
           actor == IF f.verdict = Unset THEN who ELSE Stamp(who, from)
           lines == LogLine(t, DetectChange(ticks[t], u, FALSE), actor)
<1>1. f \in Flags /\ Safe(f)
  BY LifecycleAssumption DEF SafeUpdates
<1>2. ticks[t] \in Whole
  BY Widen
<1>3. u \in Whole /\ (f.verdict = Unset => Keeps(ticks[t], u))
  BY <1>1, <1>2, UpdatedFacts
<1>4. f.verdict # Unset => actor = "human"
  BY StampFacts DEF Update
<1>5. Write(t, u, actor, lines)
  BY DEF Update, WriteAs
<1> HIDE DEF u, actor, lines
<1>6. by' = actor
  BY <1>5 DEF Write
<1> QED
  BY <1>3, <1>4, <1>5, <1>6, KeptOpen

LEMMA ReopenKeeps ==
  ASSUME NEW t \in Ticks, NEW who \in Actors, ticks \in [Ticks -> TickFile], Reopen(t, who)
  PROVE  /\ \A s \in Ticks : ticks'[s].status = "closed" => ticks[s].status = "closed"
         /\ \A s \in Ticks : Holder(ticks[s]) = "human" => Holder(ticks'[s]) = "human"
<1> DEFINE u == [Release(ticks[t]) EXCEPT !.closedAt = FALSE, !.reason = FALSE]
           lines == LogLine(t, DetectChange(ticks[t], u, FALSE), who)
<1>1. u \in Whole /\ Keeps(ticks[t], u)
  BY ReleaseFacts
<1>2. Write(t, u, who, lines)
  BY DEF Reopen, WriteAs
<1> HIDE DEF u, lines
<1> QED
  BY <1>1, <1>2, KeptOpen

\* The close of a tick itself writes its file only.
LEMMA CloseOwnOthers ==
  ASSUME NEW t \in Ticks, NEW copy \in TickFile, NEW who, NEW from,
         NEW force \in BOOLEAN, NEW reason \in BOOLEAN, ticks \in [Ticks -> TickFile],
         CloseOwn(t, copy, who, from, force, reason)
  PROVE  \A s \in Ticks : s # t => ticks'[s] = ticks[s]
<1> DEFINE bypass == force /\ HasRequiredGate(copy)
           new == IF bypass THEN ForceClosed(copy, reason) ELSE HandleClose(copy, reason)
<1>1. new \in Whole
  BY ForceClosedFacts, HandleCloseFacts
<1>2. PICK actor, lines : Write(t, new, actor, lines)
  BY DEF CloseOwn, WriteAs
<1> HIDE DEF new
<1> QED
  BY <1>1, <1>2, WriteOthers

LEMMA EpicStep ==
  ASSUME Isolated, SafeUpdates, NoSelfParent, TypeOK, IInv, EpicInv, Next, NEW e \in Epics
  PROVE  FallsLast(e)
<1>0. e \in Ticks /\ ticks \in [Ticks -> TickFile] /\ e # None
  BY LifecycleAssumption DEF TypeOK
<1>1. SUFFICES ASSUME ticks[e].status # "closed", ticks'[e].status = "closed",
                      cascade.epic \in {None, e}, by' = "runner"
               PROVE  OpenChildren(e) = {}
  BY DEF FallsLast
<1>2. CASE Command
  <2>1. PICK who \in Actors, from \in From :
          \/ \E t \in Ticks :
               \/ \E f \in Updates : Update(t, f, who, from)
               \/ Approve(t, who, from)
               \/ Reject(t, who, from)
               \/ Reopen(t, who)
               \/ \E force, reason \in BOOLEAN : Close(t, who, from, force, reason)
          \/ \E x \in Epics : StartCascade(x, who, from)
    BY <1>2 DEF Command
  <2>2. ASSUME NEW t \in Ticks, NEW f \in Updates, Update(t, f, who, from) PROVE FALSE
    BY <1>0, <1>1, <2>2, UpdateKeeps
  <2>3. ASSUME NEW t \in Ticks, Approve(t, who, from) PROVE FALSE
    BY <1>1, <2>3, StampFacts DEF Approve, Write
  <2>4. ASSUME NEW t \in Ticks, Reject(t, who, from) PROVE FALSE
    BY <1>1, <2>4, StampFacts DEF Reject, WriteAs, Write
  <2>5. ASSUME NEW t \in Ticks, Reopen(t, who) PROVE FALSE
    BY <1>0, <1>1, <2>5, ReopenKeeps
  <2>6. ASSUME NEW x \in Epics, StartCascade(x, who, from) PROVE FALSE
    BY <1>1, <2>6 DEF StartCascade
  <2>7. ASSUME NEW t \in Ticks, NEW force \in BOOLEAN, NEW reason \in BOOLEAN,
               Close(t, who, from, force, reason)
        PROVE  OpenChildren(e) = {}
    <3>1. CASE t = e
      BY <2>7, <3>1 DEF Close
    <3>2. CASE t # e
      <4>1. CloseOwn(t, ticks[t], who, from, force, reason)
        BY <2>7 DEF Close
      <4>2. ticks'[e] = ticks[e]
        BY <1>0, <3>2, <4>1, CloseOwnOthers
      <4> QED
        BY <1>1, <4>2
    <3> QED
      BY <3>1, <3>2
  <2> QED
    BY <2>1, <2>2, <2>3, <2>4, <2>5, <2>6, <2>7
<1>3. CASE CascadeStep
  <2>1. cascade # NoCascade /\ CascadeTyped /\ CascadeSound
    BY <1>3 DEF CascadeStep, CascadeChild, CascadeEpic, CascadeRefused, CascadeStops,
       TypeOK, IInv, CascadeTyped
  <2>2. cascade.epic = e
    <3>1. cascade.epic \in Ticks
      BY <2>1, CascadeFields
    <3> QED
      BY <1>1, <3>1, LifecycleAssumption
  <2>3. ASSUME NEW c \in Ticks, CascadeChild(c) PROVE FALSE
    <3>1. c \in DOMAIN cascade.left /\ Parent[c] = e
      BY <2>1, <2>2, <2>3 DEF CascadeChild, EpicInv
    <3>2. c # e
      BY <3>1 DEF NoSelfParent
    <3>3. ticks' = [ticks EXCEPT ![c] = Bare(ForceClosed(cascade.left[c], TRUE))]
      BY <2>1, <2>3, CascadeChildWrites
    <3>4. ticks'[e] = ticks[e]
      BY <1>0, <3>2, <3>3
    <3> QED
      BY <1>1, <3>4
  <2>4. ASSUME NEW reason \in BOOLEAN, CascadeEpic(reason) PROVE OpenChildren(e) = {}
    BY <2>1, <2>2, <2>4 DEF CascadeEpic, EpicInv
  <2>5. CASE CascadeRefused \/ CascadeStops
    BY <1>1, <2>5 DEF CascadeRefused, CascadeStops
  <2> QED
    BY <1>3, <2>3, <2>4, <2>5 DEF CascadeStep
<1>4. CASE Tui
  BY <1>1, <1>4 DEF Tui, TuiSetStatus, TuiClose, TuiReopen, TuiDecide, WriteAs, Write
<1>5. CASE Board
  BY <1>1, <1>5 DEF Board, BoardDecide, BoardUpdate, BoardClose, BoardReopen, WriteSilently, Write
<1> QED
  BY <1>2, <1>3, <1>4, <1>5, NextCases

\* A runner closes the epic it names only when no child of it is left open, for
\* any hierarchy in which no epic is its own child.
THEOREM EpicsFallLast ==
  ASSUME Isolated, SafeUpdates, NoSelfParent
  PROVE  Spec => EpicLast
<1>1. Init => EpicInv
  BY DEF Init, EpicInv
<1>2. TypeOK /\ IInv /\ EpicInv /\ [Next]_vars => EpicInv'
  BY EpicInvStep
<1>3. TypeOK /\ IInv /\ EpicInv /\ [Next]_vars =>
        [\A e \in Epics :
           ticks[e].status # "closed" /\ ticks'[e].status = "closed"
             /\ cascade.epic \in {None, e} /\ by' = "runner"
           => OpenChildren(e) = {}]_vars
  BY EpicStep DEF FallsLast
<1> QED
  BY <1>1, <1>2, <1>3, TypeCorrect, PTL DEF Spec, EpicLast

-----------------------------------------------------------------------------
(***************************************************************************)
(* A decision is logged.  Whatever takes a tick from a human changes its   *)
(* status, which is always logged, or is an approval or a rejection that   *)
(* leaves a line of its own, or came by a way that is known to leave none. *)
(***************************************************************************)

Answered(t) ==
  Holder(ticks[t]) = "human" /\ Holder(ticks'[t]) # "human"
    => \/ \E line \in logged' : line.tick = t /\ line.actor = "human"
       \/ via' = "board"
       \/ via' \in {"flag", "tui"} /\ ticks'[t].status = ticks[t].status

LEMMA LogLineLine ==
  ASSUME NEW t \in Ticks, NEW action, action # None, NEW actor
  PROVE  \E line \in LogLine(t, action, actor) : line.tick = t /\ line.actor = actor
  BY DEF LogLine

LEMMA CloseIsLogged ==
  ASSUME NEW old, NEW new, NEW noted, old.status # "closed", new.status = "closed"
  PROVE  DetectChange(old, new, noted) # None
  BY DEF DetectChange, None

LEMMA StatusIsLogged ==
  ASSUME NEW old, NEW new, NEW noted, old.status # new.status
  PROVE  DetectChange(old, new, noted) # None
  BY DEF DetectChange, None

LEMMA NoteIsLogged ==
  ASSUME NEW old, NEW new
  PROVE  DetectChange(old, new, TRUE) # None
<1>1. CASE old.status # new.status
  BY <1>1 DEF DetectChange, None
<1>2. CASE old.status = new.status /\ new.verdict \notin {None, old.verdict}
  BY <1>2 DEF DetectChange, None
<1>3. CASE old.status = new.status /\ ~(new.verdict \notin {None, old.verdict})
  BY <1>3 DEF DetectChange, None
<1> QED
  BY <1>1, <1>2, <1>3

\* An approval of a state that approval ends closes the tick.
LEMMA ApprovalCloses ==
  ASSUME NEW t \in Whole, Closes(GetAwaitingType(t), "approved")
  PROVE  Decide(t, "approved").status = "closed"
<1> DEFINE n == NormalizeManual(t)
           d == [n EXCEPT !.verdict = "approved"]
           c == ClearAwaiting(d)
<1>1. n \in Whole /\ n.awaiting = GetAwaitingType(t)
  <2>1. CASE t.awaiting = None /\ t.manual
    <3>1. n = [t EXCEPT !.awaiting = "work", !.manual = FALSE]
      BY <2>1 DEF NormalizeManual, SetAwaiting
    <3>2. GetAwaitingType(t) = "work"
      BY <2>1 DEF GetAwaitingType
    <3> HIDE DEF n
    <3> QED
      BY <3>1, <3>2 DEF Whole, TickRecord, Awaiting
  <2>2. CASE ~(t.awaiting = None /\ t.manual)
    <3>1. n = t
      BY <2>2 DEF NormalizeManual
    <3> QED
      BY <2>2, <3>1 DEF GetAwaitingType
  <2> QED
    BY <2>1, <2>2
<1> HIDE DEF n
<1>2. d \in Whole /\ d.awaiting = GetAwaitingType(t) /\ d.verdict = "approved"
  BY <1>1 DEF Whole, TickRecord, Verdict
<1>3. Decide(t, "approved") = ProcessVerdict(d)
  BY DEF Decide, n
<1> HIDE DEF d
<1>4. d.awaiting # None /\ d.verdict # None /\ Closes(d.awaiting, d.verdict)
  BY <1>2 DEF Closes, Requires, None
<1>5. c \in Whole
  BY <1>2, SetAwaitingFacts DEF ClearAwaiting
<1>6. ProcessVerdict(d) = [c EXCEPT !.verdict = @, !.status = "closed", !.closedAt = @ \/ TRUE]
  BY <1>4 DEF ProcessVerdict
<1> HIDE DEF c
<1> QED
  BY <1>3, <1>5, <1>6 DEF Whole, TickRecord

\* It is enough to see to the tick that is written, and to who writes it.
LEMMA WriteAnswers ==
  ASSUME ticks \in [Ticks -> TickFile], NEW t \in Ticks, NEW new \in Whole, NEW actor, NEW lines,
         Write(t, new, actor, lines),
         Holder(ticks[t]) = "human" /\ Holder(new) # "human"
           => \E line \in lines : line.tick = t /\ line.actor = "human"
  PROVE  \A s \in Ticks : Answered(s)
<1>1. /\ \A s \in Ticks : s # t => ticks'[s] = ticks[s]
      /\ Holder(ticks'[t]) = Holder(new) /\ logged' = lines
  BY WriteOthers
<1> QED
  BY <1>1 DEF Answered

\* Closing a tick that is a human's, in a human's name, answers for it.
LEMMA CloseAnswers ==
  ASSUME ticks \in [Ticks -> TickFile], NEW t \in Ticks, NEW new \in Whole, NEW noted, NEW actor,
         WriteAs(t, new, noted, actor),
         Holder(ticks[t]) = "human"
           => Holder(new) = "human" \/ (new.status = "closed" /\ actor = "human")
  PROVE  \A s \in Ticks : Answered(s)
<1> DEFINE action == DetectChange(ticks[t], new, noted)
           lines  == LogLine(t, action, actor)
<1>1. Write(t, new, actor, lines)
  BY DEF WriteAs
<1>2. Holder(ticks[t]) = "human" => ticks[t].status # "closed"
  BY DEF Holder
<1>3. Holder(ticks[t]) = "human" /\ Holder(new) # "human" => action # None /\ actor = "human"
  BY <1>2, CloseIsLogged
<1> HIDE DEF action
<1>4. Holder(ticks[t]) = "human" /\ Holder(new) # "human"
        => \E line \in lines : line.tick = t /\ line.actor = "human"
  BY <1>3, LogLineLine
<1> HIDE DEF lines
<1> QED
  BY <1>1, <1>4, WriteAnswers

\* A human's write through a flag or the terminal UI answers for what it shows.
LEMMA ShownAnswers ==
  ASSUME ticks \in [Ticks -> TickFile], NEW t \in Ticks, NEW new \in Whole, NEW noted,
         WriteAs(t, new, noted, "human"), via' \in {"flag", "tui"}
  PROVE  \A s \in Ticks : Answered(s)
<1> DEFINE action == DetectChange(ticks[t], new, noted)
           lines  == LogLine(t, action, "human")
<1>1. Write(t, new, "human", lines)
  BY DEF WriteAs
<1>2. CASE new.status # ticks[t].status
  <2>1. action # None
    BY <1>2, StatusIsLogged
  <2> HIDE DEF action
  <2>2. \E line \in lines : line.tick = t /\ line.actor = "human"
    BY <2>1, LogLineLine
  <2> HIDE DEF lines
  <2> QED
    BY <1>1, <2>2, WriteAnswers
<1>3. CASE new.status = ticks[t].status
  <2> HIDE DEF lines
  <2>1. \A s \in Ticks : s # t => ticks'[s] = ticks[s]
    BY <1>1, WriteOthers
  <2>2. ticks'[t] = Bare(new)
    BY <1>1 DEF Write
  <2>3. ticks'[t].status = ticks[t].status
    BY <1>3, <2>2, BareFacts
  <2> QED
    BY <2>1, <2>3 DEF Answered
<1> QED
  BY <1>2, <1>3

LEMMA UpdateAnswers ==
  ASSUME SafeUpdates, NEW t \in Ticks, NEW f \in Updates, NEW who \in Actors, NEW from \in From,
         ticks \in [Ticks -> TickFile], Update(t, f, who, from), f.verdict = Unset
  PROVE  \A s \in Ticks : Answered(s)
  BY UpdateKeeps DEF Answered

LEMMA FlagAnswers ==
  ASSUME NEW t \in Ticks, NEW f \in Updates, NEW who \in Actors, NEW from \in From,
         ticks \in [Ticks -> TickFile], Update(t, f, who, from), f.verdict # Unset,
         via' = "flag"
  PROVE  \A s \in Ticks : Answered(s)
<1> DEFINE u == Updated(ticks[t], f)
<1>1. f \in Flags
  BY LifecycleAssumption
<1>2. ticks[t] \in Whole
  BY Widen
<1>3. u \in Whole
  BY <1>1, <1>2, UpdatedFacts
<1>4. Stamp(who, from) = "human"
  BY StampFacts DEF Update
<1>5. WriteAs(t, u, FALSE, "human")
  BY <1>4 DEF Update
<1> HIDE DEF u
<1> QED
  BY <1>3, <1>5, ShownAnswers

LEMMA ApproveAnswers ==
  ASSUME NEW t \in Ticks, NEW who \in Actors, NEW from \in From,
         ticks \in [Ticks -> TickFile], Approve(t, who, from)
  PROVE  \A s \in Ticks : Answered(s)
<1> DEFINE new      == Decide(ticks[t], "approved")
           closes   == Closes(GetAwaitingType(ticks[t]), "approved")
           actor    == Stamp(who, from)
           action   == DetectChange(ticks[t], new, FALSE)
           inferred == LogLine(t, action, actor)
           explicit == IF closes THEN {} ELSE LogLine(t, "approve", actor)
           lines    == inferred \cup explicit
<1>1. Write(t, new, actor, lines) /\ actor = "human"
  BY StampFacts DEF Approve
<1>2. ticks[t] \in Whole /\ new \in Whole
  BY Widen, DecideFacts DEF Verdict
<1>3. Holder(ticks[t]) = "human" => \E line \in lines : line.tick = t /\ line.actor = "human"
  <2>1. CASE closes
    <3>1. new.status = "closed"
      BY <1>2, <2>1, ApprovalCloses
    <3>2. Holder(ticks[t]) = "human" => action # None
      BY <3>1, CloseIsLogged DEF Holder
    <3> HIDE DEF action
    <3>3. Holder(ticks[t]) = "human"
            => \E line \in inferred : line.tick = t /\ line.actor = actor
      BY <3>2, LogLineLine
    <3> QED
      BY <1>1, <3>3
  <2>2. CASE ~closes
    <3>1. "approve" # None
      BY DEF None
    <3>2. \E line \in explicit : line.tick = t /\ line.actor = actor
      BY <2>2, <3>1, LogLineLine
    <3> QED
      BY <1>1, <3>2
  <2> QED
    BY <2>1, <2>2
<1> HIDE DEF new, actor, lines
<1> QED
  BY <1>1, <1>2, <1>3, WriteAnswers

LEMMA RejectAnswers ==
  ASSUME NEW t \in Ticks, NEW who \in Actors, NEW from \in From,
         ticks \in [Ticks -> TickFile], Reject(t, who, from)
  PROVE  \A s \in Ticks : Answered(s)
<1> DEFINE new    == Decide(ticks[t], "rejected")
           actor  == Stamp(who, from)
           action == DetectChange(ticks[t], new, TRUE)
           lines  == LogLine(t, action, actor)
<1>1. Write(t, new, actor, lines) /\ actor = "human"
  BY StampFacts DEF Reject, WriteAs
<1>2. new \in Whole
  BY Widen, DecideFacts DEF Verdict
<1>3. action # None
  BY NoteIsLogged
<1> HIDE DEF action
<1>4. \E line \in lines : line.tick = t /\ line.actor = actor
  BY <1>3, LogLineLine
<1> HIDE DEF new, actor, lines
<1> QED
  BY <1>1, <1>2, <1>4, WriteAnswers

LEMMA CloseOwnAnswers ==
  ASSUME NEW t \in Ticks, NEW copy \in TickFile, NEW who \in Actors, NEW from \in From,
         NEW force \in BOOLEAN, NEW reason \in BOOLEAN, ticks \in [Ticks -> TickFile],
         Linked(ticks[t], copy), MayClose(copy, who, from, force),
         CloseOwn(t, copy, who, from, force, reason)
  PROVE  \A s \in Ticks : Answered(s)
<1> DEFINE bypass == force /\ HasRequiredGate(copy)
           routed == ~bypass /\ HasRequiredGate(copy)
           h      == HandleClose(copy, reason)
           p      == ForceClosed(copy, reason)
           new    == IF bypass THEN p ELSE h
           actor  == IF ClearsGate(copy, force) THEN Stamp(who, from) ELSE who
<1>1. WriteAs(t, new, routed, actor)
  BY DEF CloseOwn
<1>2. p \in Whole /\ p.status = "closed"
  BY ForceClosedFacts
<1>3. h \in Whole /\ (~HasRequiredGate(copy) => h.status = "closed")
  BY HandleCloseFacts
<1>4. HasRequiredGate(copy) => Obeys(copy, h)
  BY HandleCloseStamps, KeepsObeys
<1>5. ClearsGate(copy, force) => actor = "human"
  BY StampFacts DEF MayClose
<1>6. Holder(ticks[t]) = "human" => ticks[t] = copy /\ IsAwaitingHuman(copy)
  BY DEF Linked, Holder
<1> HIDE DEF h, p, actor
<1>7. Holder(ticks[t]) = "human"
        => Holder(new) = "human" \/ (new.status = "closed" /\ actor = "human")
  <2>1. CASE bypass
    BY <1>2, <1>5, <2>1 DEF ClearsGate
  <2>2. CASE routed
    BY <1>4, <1>6, <2>2 DEF Obeys
  <2>3. CASE ~bypass /\ ~HasRequiredGate(copy)
    BY <1>3, <1>5, <1>6, <2>3 DEF ClearsGate
  <2> QED
    BY <2>1, <2>2, <2>3
<1>8. new \in Whole
  BY <1>2, <1>3
<1> HIDE DEF new, routed
<1> QED
  BY <1>1, <1>7, <1>8, CloseAnswers

\* A child that falls in a forced close is still as it was listed, so that a
\* human who forced it past a gate is the one its line names.
LEMMA ChildAnswers ==
  ASSUME Isolated, NEW c \in Ticks, ticks \in [Ticks -> TickFile], CascadeTyped, CascadeSound,
         CascadeChild(c)
  PROVE  \A s \in Ticks : Answered(s)
<1> DEFINE new   == ForceClosed(ticks[c], TRUE)
           actor == cascade.actor
<1>1. /\ cascade.left[c] = ticks[c] /\ c \in DOMAIN cascade.left
      /\ actor = "runner" => ~Gated(ticks[c])
  BY DEF CascadeSound, CascadeChild
<1>2. WriteAs(c, new, FALSE, actor)
  BY <1>1 DEF CascadeChild
<1>3. new \in Whole /\ new.status = "closed" /\ actor \in Actors
  BY ForceClosedFacts, CascadeFields
<1> HIDE DEF new, actor
<1>4. Holder(ticks[c]) = "human" => actor = "human"
  BY <1>1, <1>3 DEF Holder, Gated, Actors
<1> QED
  BY <1>2, <1>3, <1>4, CloseAnswers

LEMMA DecisionStep ==
  ASSUME Isolated, SafeUpdates, TypeOK, IInv, Next
  PROVE  \A t \in Ticks : Answered(t)
<1>0. ticks \in [Ticks -> TickFile]
  BY DEF TypeOK
<1>1. CASE Cli
  <2>1. PICK who \in Actors, from \in From :
          \/ \E t \in Ticks :
               \/ \E f \in Updates : f.verdict = Unset /\ Update(t, f, who, from)
               \/ Approve(t, who, from)
               \/ Reject(t, who, from)
               \/ Reopen(t, who)
               \/ \E force, reason \in BOOLEAN : Close(t, who, from, force, reason)
          \/ \E e \in Epics : StartCascade(e, who, from)
    BY <1>1 DEF Cli
  <2>2. ASSUME NEW t \in Ticks, Reopen(t, who) PROVE \A s \in Ticks : Answered(s)
    BY <1>0, <2>2, ReopenKeeps DEF Answered
  <2>3. ASSUME NEW t \in Ticks, NEW force \in BOOLEAN, NEW reason \in BOOLEAN,
               Close(t, who, from, force, reason)
        PROVE  \A s \in Ticks : Answered(s)
    <3>1. Linked(ticks[t], ticks[t]) /\ ticks[t] \in TickFile
      BY <1>0 DEF Linked
    <3>2. MayClose(ticks[t], who, from, force) /\ CloseOwn(t, ticks[t], who, from, force, reason)
      BY <2>3 DEF Close
    <3> QED
      BY <1>0, <3>1, <3>2, CloseOwnAnswers
  <2>4. CASE \E e \in Epics : StartCascade(e, who, from)
    BY <2>4 DEF StartCascade, Answered
  <2> QED
    BY <1>0, <2>1, <2>2, <2>3, <2>4, UpdateAnswers, ApproveAnswers, RejectAnswers
<1>2. CASE CascadeStep
  <2>1. cascade # NoCascade /\ CascadeTyped /\ CascadeSound
    BY <1>2 DEF CascadeStep, CascadeChild, CascadeEpic, CascadeRefused, CascadeStops,
       TypeOK, IInv, CascadeTyped
  <2>2. ASSUME NEW c \in Ticks, CascadeChild(c) PROVE \A s \in Ticks : Answered(s)
    BY <1>0, <2>1, <2>2, ChildAnswers
  <2>3. ASSUME NEW reason \in BOOLEAN, CascadeEpic(reason) PROVE \A s \in Ticks : Answered(s)
    <3> DEFINE e == cascade.epic
               k == cascade.copy
               w == cascade.who
               m == cascade.from
    <3>1. e \in Ticks /\ k \in TickFile /\ w \in Actors /\ m \in From
      BY <2>1, CascadeFields
    <3>2. Linked(ticks[e], k)
      BY <2>1 DEF CascadeSound
    <3>3. MayClose(k, w, m, TRUE) /\ CloseOwn(e, k, w, m, TRUE, reason)
      BY <2>3 DEF CascadeEpic
    <3> HIDE DEF e, k, w, m
    <3> QED
      BY <1>0, <3>1, <3>2, <3>3, CloseOwnAnswers
  <2>4. CASE CascadeRefused \/ CascadeStops
    BY <2>4 DEF CascadeRefused, CascadeStops, Answered
  <2> QED
    BY <1>2, <2>2, <2>3, <2>4 DEF CascadeStep
<1>3. CASE VerdictFlag /\ via' = "flag"
  BY <1>0, <1>3, FlagAnswers DEF VerdictFlag
<1>4. CASE Tui /\ via' = "tui"
  <2>1. PICK t \in Ticks :
          \/ \E status \in Status : TuiSetStatus(t, status)
          \/ \E reason \in BOOLEAN : TuiClose(t, reason)
          \/ TuiReopen(t)
          \/ \E verdict \in Verdict, noted \in BOOLEAN : TuiDecide(t, verdict, noted)
    BY <1>4 DEF Tui
  <2>2. ticks[t] \in TickFile /\ ticks[t] \in Whole
    BY <1>0, Widen
  <2>3. ASSUME NEW status \in Status, TuiSetStatus(t, status) PROVE \A s \in Ticks : Answered(s)
    <3> DEFINE u == [ticks[t] EXCEPT !.status = status, !.closedAt = (status = "closed"),
                                     !.reason = @ /\ status = "closed"]
    <3>1. WriteAs(t, u, FALSE, "human")
      BY <2>3 DEF TuiSetStatus
    <3>2. u \in Whole
      BY <2>2 DEF Whole, TickRecord
    <3> HIDE DEF u
    <3> QED
      BY <1>0, <1>4, <3>1, <3>2, ShownAnswers
  <2>4. ASSUME NEW reason \in BOOLEAN, TuiClose(t, reason) PROVE \A s \in Ticks : Answered(s)
    <3> DEFINE u == [ticks[t] EXCEPT !.status = "closed", !.closedAt = TRUE,
                                     !.reason = @ \/ reason]
    <3>1. WriteAs(t, u, FALSE, "human")
      BY <2>4 DEF TuiClose
    <3>2. u \in Whole
      BY <2>2 DEF Whole, TickRecord, Status
    <3> HIDE DEF u
    <3> QED
      BY <1>0, <1>4, <3>1, <3>2, ShownAnswers
  <2>5. ASSUME TuiReopen(t) PROVE \A s \in Ticks : Answered(s)
    <3> DEFINE u == [ticks[t] EXCEPT !.status = "open", !.closedAt = FALSE, !.reason = FALSE]
    <3>1. WriteAs(t, u, FALSE, "human")
      BY <2>5 DEF TuiReopen
    <3>2. u \in Whole
      BY <2>2 DEF Whole, TickRecord, Status
    <3> HIDE DEF u
    <3> QED
      BY <1>0, <1>4, <3>1, <3>2, ShownAnswers
  <2>6. ASSUME NEW verdict \in Verdict, NEW noted \in BOOLEAN, TuiDecide(t, verdict, noted)
        PROVE  \A s \in Ticks : Answered(s)
    <3> DEFINE u == Decide(ticks[t], verdict)
    <3>1. WriteAs(t, u, noted, "human")
      BY <2>6 DEF TuiDecide
    <3>2. u \in Whole
      BY <2>2, DecideFacts
    <3> HIDE DEF u
    <3> QED
      BY <1>0, <1>4, <3>1, <3>2, ShownAnswers
  <2> QED
    BY <2>1, <2>3, <2>4, <2>5, <2>6
<1>5. CASE via' = "board"
  BY <1>5 DEF Answered
<1> QED
  BY <1>1, <1>2, <1>3, <1>4, <1>5 DEF Next

\* Every step that takes an unfinished tick from a human leaves a line of a
\* human on that tick in the activity log, unless the board took it, or tk update
\* --verdict or the terminal UI and the status stayed: for any hierarchy, every
\* surface, and any calls of tk update that do not take a gate away by hand.
THEOREM DecisionsAreLogged ==
  ASSUME Isolated, SafeUpdates
  PROVE  Spec => DecisionLogged
<1>1. TypeOK /\ IInv /\ [Next]_vars =>
        [\A t \in Ticks : Holder(ticks[t]) = "human" /\ Holder(ticks'[t]) # "human"
           => \/ \E line \in logged' : line.tick = t /\ line.actor = "human"
              \/ via' = "board"
              \/ via' \in {"flag", "tui"} /\ ticks'[t].status = ticks[t].status]_vars
  BY DecisionStep DEF Answered
<1> QED
  BY <1>1, TypeCorrect, PTL DEF Spec, DecisionLogged
=============================================================================
