----------------------------- MODULE Merge_proofs -----------------------------
(***************************************************************************)
(* For any labels, and for any number of edits: a merge keeps what either  *)
(* side did to the tick and to the log, both directions agree, a closed    *)
(* tick has the time of its closing, and a clone never looks installed     *)
(* when it is not.                                                         *)
(*                                                                         *)
(* Of the tick the first two are facts of MergeTick for every three ticks, *)
(* of the log of MergeActivity for every two logs (MergedLog).  Where git  *)
(* takes a side as it is, they need Logs: logs are in order without a      *)
(* merge, and what was there at the last common version still is.          *)
(*                                                                         *)
(* The third is not inductive: status and closed_at are merged apart, and  *)
(* a merge can leave an open tick the time of a closing (b closed, ours    *)
(* closed again, theirs claimed).  Such a time must never be taken for a   *)
(* change that the other clone did not make; Times says why it cannot be.  *)
(***************************************************************************)
EXTENDS Merge, FiniteSetTheorems, WellFoundedInduction, TLAPS

LEMMA NumberFact ==
  /\ Number \subseteq Nat
  /\ 0 \in Number
  /\ \A k \in Nat : k < MaxEdits => k + 1 \in Number
BY MergeAssumption DEF Number

-----------------------------------------------------------------------------
(* The rules of one field.                                                 *)

\* A field that one side left alone is the other side's.
LEMMA ThreeWayKeeps ==
  ASSUME NEW b, NEW o, NEW t, NEW both
  PROVE  /\ o = b => ThreeWay(b, o, t, both) = t
         /\ t = b => ThreeWay(b, o, t, both) = o
         /\ o = t => ThreeWay(b, o, t, both) = o
         /\ o # b /\ t # b /\ o # t => ThreeWay(b, o, t, both) = both
<1>1. CASE o = b
  BY <1>1 DEF ThreeWay
<1>2. CASE o # b /\ (t = b \/ o = t)
  BY <1>2 DEF ThreeWay
<1>3. CASE o # b /\ t # b /\ o # t
  BY <1>3 DEF ThreeWay
<1> QED
  BY <1>1, <1>2, <1>3

\* A rule that does not look at the direction makes a field that does not.
LEMMA ThreeWaySwaps ==
  ASSUME NEW b, NEW o, NEW t, NEW x, NEW y,
         o # b /\ t # b /\ o # t => x = y
  PROVE  ThreeWay(b, o, t, x) = ThreeWay(b, t, o, y)
<1>1. CASE o = b
  BY <1>1, ThreeWayKeeps
<1>2. CASE t = b
  BY <1>2, ThreeWayKeeps
<1>3. CASE o = t
  BY <1>3, ThreeWayKeeps
<1>4. CASE o # b /\ t # b /\ o # t
  BY <1>4, ThreeWayKeeps
<1> QED
  BY <1>1, <1>2, <1>3, <1>4

\* A field has the type of what it is made of.
LEMMA ThreeWayType ==
  ASSUME NEW S, NEW b \in S, NEW o \in S, NEW t \in S, NEW both \in S
  PROVE  ThreeWay(b, o, t, both) \in S
BY ThreeWayKeeps

LEMMA StatusRule ==
  ASSUME NEW o \in Status, NEW t \in Status
  PROVE  /\ MergeStatus(o, t) \in {o, t}
         /\ MergeStatus(o, t) = MergeStatus(t, o)
         /\ "closed" \in {o, t} => MergeStatus(o, t) = "closed"
BY DEF MergeStatus, Rank, Status

LEMMA PriorityRule ==
  ASSUME NEW o \in Nat, NEW t \in Nat
  PROVE  MergePriority(o, t) \in {o, t} /\ MergePriority(o, t) = MergePriority(t, o)
BY DEF MergePriority

LEMMA LatestRule ==
  ASSUME NEW o \in Nat, NEW t \in Nat
  PROVE  /\ Latest(o, t) \in {o, t}
         /\ Latest(o, t) = Latest(t, o)
         /\ o <= Latest(o, t) /\ t <= Latest(o, t)
BY DEF Latest

\* Notes of both sides are there, in either order.
LEMMA Concatenated ==
  ASSUME NEW S, NEW x \in Seq(S), NEW y \in Seq(S)
  PROVE  ToSet(x \o y) = ToSet(x) \cup ToSet(y)
<1>1. \A i \in DOMAIN (x \o y) :
        (x \o y)[i] = IF i <= Len(x) THEN x[i] ELSE y[i - Len(x)]
  OBVIOUS
<1>2. /\ DOMAIN (x \o y) = 1 .. (Len(x) + Len(y))
      /\ DOMAIN x = 1 .. Len(x) /\ DOMAIN y = 1 .. Len(y)
      /\ Len(x) \in Nat /\ Len(y) \in Nat
  OBVIOUS
<1>3. ASSUME NEW e \in ToSet(x \o y)
      PROVE  e \in ToSet(x) \cup ToSet(y)
  <2>1. PICK i \in DOMAIN (x \o y) : e = (x \o y)[i]
    BY <1>3 DEF ToSet
  <2>2. CASE i <= Len(x)
    BY <1>1, <1>2, <2>1, <2>2 DEF ToSet
  <2>3. CASE i > Len(x)
    <3>1. i - Len(x) \in 1 .. Len(y)
      BY <1>2, <2>3
    <3>2. e = y[i - Len(x)]
      BY <1>1, <1>2, <2>1, <2>3
    <3> QED
      BY <1>2, <3>1, <3>2 DEF ToSet
  <2> QED
    BY <1>2, <2>2, <2>3
<1>4. ASSUME NEW e \in ToSet(x)
      PROVE  e \in ToSet(x \o y)
  <2>1. PICK i \in DOMAIN x : e = x[i]
    BY <1>4 DEF ToSet
  <2>2. i \in DOMAIN (x \o y) /\ (x \o y)[i] = e
    BY <1>1, <1>2, <2>1
  <2> QED
    BY <2>2 DEF ToSet
<1>5. ASSUME NEW e \in ToSet(y)
      PROVE  e \in ToSet(x \o y)
  <2>1. PICK i \in DOMAIN y : e = y[i]
    BY <1>5 DEF ToSet
  <2>2. /\ i + Len(x) \in DOMAIN (x \o y)
        /\ ~(i + Len(x) <= Len(x))
        /\ (i + Len(x)) - Len(x) = i
    BY <1>2, <2>1
  <2>3. (x \o y)[i + Len(x)] = e
    BY <1>1, <2>1, <2>2
  <2> QED
    BY <2>2, <2>3 DEF ToSet
<1> QED
  BY <1>3, <1>4, <1>5

LEMMA NotesRule ==
  ASSUME NEW o \in Seq(Number), NEW t \in Seq(Number)
  PROVE  /\ MergeNotes(o, t) \in Seq(Number)
         /\ ToSet(o) \cup ToSet(t) \subseteq ToSet(MergeNotes(o, t))
         /\ ToSet(MergeNotes(o, t)) = ToSet(MergeNotes(t, o))
<1>1. ToSet(<<>>) = {}
  BY DEF ToSet
<1>2. <<Marker>> \in Seq(Number)
  BY NumberFact DEF Marker
<1>3. ASSUME NEW x \in Seq(Number), NEW y \in Seq(Number)
      PROVE  /\ x \o <<Marker>> \o y \in Seq(Number)
             /\ ToSet(x \o <<Marker>> \o y) = (ToSet(x) \cup ToSet(<<Marker>>)) \cup ToSet(y)
  <2>1. x \o <<Marker>> \in Seq(Number)
    BY <1>2
  <2>2. ToSet(x \o <<Marker>>) = ToSet(x) \cup ToSet(<<Marker>>)
    BY <1>2, Concatenated
  <2>3. ToSet((x \o <<Marker>>) \o y) = ToSet(x \o <<Marker>>) \cup ToSet(y)
    BY <2>1, Concatenated
  <2> QED
    BY <2>1, <2>2, <2>3
<1>4. CASE o = <<>>
  BY <1>1, <1>4 DEF MergeNotes
<1>5. CASE t = <<>>
  BY <1>1, <1>5 DEF MergeNotes
<1>6. CASE o # <<>> /\ t # <<>>
  <2>1. /\ MergeNotes(o, t) = o \o <<Marker>> \o t
        /\ MergeNotes(t, o) = t \o <<Marker>> \o o
    BY <1>6 DEF MergeNotes
  <2>2. /\ MergeNotes(o, t) \in Seq(Number)
        /\ ToSet(MergeNotes(o, t)) = (ToSet(o) \cup ToSet(<<Marker>>)) \cup ToSet(t)
    BY <1>3, <2>1
  <2>3. ToSet(MergeNotes(t, o)) = (ToSet(t) \cup ToSet(<<Marker>>)) \cup ToSet(o)
    BY <1>3, <2>1
  <2> QED
    BY <2>2, <2>3
<1> QED
  BY <1>4, <1>5, <1>6

-----------------------------------------------------------------------------
(* A merge of three ticks.                                                 *)

\* What MergeTick makes of each field.
LEMMA MergedFields ==
  ASSUME NEW b, NEW o, NEW t
  PROVE  LET m == MergeTick(b, o, t) IN
         /\ m.title = ThreeWay(b.title, o.title, t.title,
                               IF t.updatedAt > o.updatedAt THEN t.title ELSE o.title)
         /\ m.status = ThreeWay(b.status, o.status, t.status, MergeStatus(o.status, t.status))
         /\ m.priority = ThreeWay(b.priority, o.priority, t.priority,
                                  MergePriority(o.priority, t.priority))
         /\ m.closedAt = ThreeWay(b.closedAt, o.closedAt, t.closedAt,
                                  Latest(o.closedAt, t.closedAt))
         /\ m.labels = ThreeWay(b.labels, o.labels, t.labels,
                                MergeSet(b.labels, o.labels, t.labels))
         /\ m.notes = ThreeWay(b.notes, o.notes, t.notes, MergeNotes(o.notes, t.notes))
         /\ m.updatedAt = Latest(o.updatedAt, t.updatedAt)
         /\ m.extra = IF o.extra = b.extra THEN t.extra ELSE o.extra
BY DEF MergeTick

LEMMA TickFields ==
  ASSUME NEW x \in Tick
  PROVE  /\ x.title \in Number /\ x.extra \in Number
         /\ x.status \in Status /\ x.priority \in 0 .. 4
         /\ x.closedAt \in Number /\ x.updatedAt \in Number
         /\ x.closedAt \in Nat /\ x.updatedAt \in Nat /\ x.priority \in Nat
         /\ x.labels \in SUBSET Labels /\ x.notes \in Seq(Number)
<1>1. /\ x.title \in Number /\ x.extra \in Number
      /\ x.status \in Status /\ x.priority \in 0 .. 4
      /\ x.closedAt \in Number /\ x.updatedAt \in Number
      /\ x.labels \in SUBSET Labels /\ x.notes \in Seq(Number)
  BY DEF Tick
<1>2. \A n \in 0 .. 4 : n \in Nat
  OBVIOUS
<1> QED
  BY <1>1, <1>2, NumberFact

\* A merge of ticks is a tick.
LEMMA MergeIsTick ==
  ASSUME NEW b \in Tick, NEW o \in Tick, NEW t \in Tick
  PROVE  MergeTick(b, o, t) \in Tick
<1> DEFINE m == MergeTick(b, o, t)
<1>f. /\ b.title \in Number /\ o.title \in Number /\ t.title \in Number
      /\ o.extra \in Number /\ t.extra \in Number
      /\ b.status \in Status /\ o.status \in Status /\ t.status \in Status
      /\ b.priority \in 0 .. 4 /\ o.priority \in 0 .. 4 /\ t.priority \in 0 .. 4
      /\ o.priority \in Nat /\ t.priority \in Nat
      /\ b.closedAt \in Number /\ o.closedAt \in Number /\ t.closedAt \in Number
      /\ o.closedAt \in Nat /\ t.closedAt \in Nat
      /\ o.updatedAt \in Number /\ t.updatedAt \in Number
      /\ o.updatedAt \in Nat /\ t.updatedAt \in Nat
      /\ b.labels \in SUBSET Labels /\ o.labels \in SUBSET Labels /\ t.labels \in SUBSET Labels
      /\ b.notes \in Seq(Number) /\ o.notes \in Seq(Number) /\ t.notes \in Seq(Number)
  BY TickFields
<1>m. /\ m.title = ThreeWay(b.title, o.title, t.title,
                            IF t.updatedAt > o.updatedAt THEN t.title ELSE o.title)
      /\ m.status = ThreeWay(b.status, o.status, t.status, MergeStatus(o.status, t.status))
      /\ m.priority = ThreeWay(b.priority, o.priority, t.priority,
                               MergePriority(o.priority, t.priority))
      /\ m.closedAt = ThreeWay(b.closedAt, o.closedAt, t.closedAt,
                               Latest(o.closedAt, t.closedAt))
      /\ m.labels = ThreeWay(b.labels, o.labels, t.labels,
                             MergeSet(b.labels, o.labels, t.labels))
      /\ m.notes = ThreeWay(b.notes, o.notes, t.notes, MergeNotes(o.notes, t.notes))
      /\ m.updatedAt = Latest(o.updatedAt, t.updatedAt)
      /\ m.extra = IF o.extra = b.extra THEN t.extra ELSE o.extra
  BY MergedFields
<1>9. m = [title |-> m.title, status |-> m.status, priority |-> m.priority,
           closedAt |-> m.closedAt, labels |-> m.labels, notes |-> m.notes,
           updatedAt |-> m.updatedAt, extra |-> m.extra]
  BY DEF MergeTick
<1> HIDE DEF m
<1>1. m.title \in Number
  <2>1. (IF t.updatedAt > o.updatedAt THEN t.title ELSE o.title) \in Number
    BY <1>f
  <2>2. ThreeWay(b.title, o.title, t.title, (IF t.updatedAt > o.updatedAt THEN t.title ELSE o.title)) \in Number
    BY <1>f, <2>1, ThreeWayType
  <2> QED
    BY <1>m, <2>2
<1>2. m.status \in Status
  <2>1. MergeStatus(o.status, t.status) \in Status
    BY <1>f, StatusRule
  <2>2. ThreeWay(b.status, o.status, t.status, MergeStatus(o.status, t.status)) \in Status
    BY <1>f, <2>1, ThreeWayType
  <2> QED
    BY <1>m, <2>2
<1>3. m.priority \in (0 .. 4)
  <2>1. MergePriority(o.priority, t.priority) \in (0 .. 4)
    BY <1>f, PriorityRule
  <2>2. ThreeWay(b.priority, o.priority, t.priority, MergePriority(o.priority, t.priority)) \in (0 .. 4)
    BY <1>f, <2>1, ThreeWayType
  <2> QED
    BY <1>m, <2>2
<1>4. m.closedAt \in Number
  <2>1. Latest(o.closedAt, t.closedAt) \in Number
    BY <1>f, LatestRule
  <2>2. ThreeWay(b.closedAt, o.closedAt, t.closedAt, Latest(o.closedAt, t.closedAt)) \in Number
    BY <1>f, <2>1, ThreeWayType
  <2> QED
    BY <1>m, <2>2
<1>5. m.labels \in SUBSET Labels
  <2>1. MergeSet(b.labels, o.labels, t.labels) \in SUBSET Labels
    BY <1>f DEF MergeSet
  <2>2. ThreeWay(b.labels, o.labels, t.labels, MergeSet(b.labels, o.labels, t.labels)) \in SUBSET Labels
    BY <1>f, <2>1, ThreeWayType
  <2> QED
    BY <1>m, <2>2
<1>6. m.notes \in Seq(Number)
  <2>1. MergeNotes(o.notes, t.notes) \in Seq(Number)
    BY <1>f, NotesRule
  <2>2. ThreeWay(b.notes, o.notes, t.notes, MergeNotes(o.notes, t.notes)) \in Seq(Number)
    BY <1>f, <2>1, ThreeWayType
  <2> QED
    BY <1>m, <2>2
<1>7. m.updatedAt \in Number
  <2>1. Latest(o.updatedAt, t.updatedAt) \in Number
    BY <1>f, LatestRule
  <2> QED
    BY <1>m, <2>1
<1>8. m.extra \in Number
  BY <1>f, <1>m
<1>10. m \in Tick
  BY <1>1, <1>2, <1>3, <1>4, <1>5, <1>6, <1>7, <1>8, <1>9 DEF Tick
<1> QED
  BY <1>10 DEF m

\* Both directions of a merge of ticks with different times make the same tick,
\* but for the order of notes and the keys tk does not know.
THEOREM MergeTickOrderFree ==
  ASSUME NEW b \in Tick, NEW o \in Tick, NEW t \in Tick, o.updatedAt # t.updatedAt
  PROVE  SameTick(MergeTick(b, o, t), MergeTick(b, t, o))
<1> DEFINE m == MergeTick(b, o, t)
           w == MergeTick(b, t, o)
<1>f. /\ o.status \in Status /\ t.status \in Status
      /\ o.priority \in Nat /\ t.priority \in Nat
      /\ o.closedAt \in Nat /\ t.closedAt \in Nat
      /\ o.updatedAt \in Nat /\ t.updatedAt \in Nat
      /\ o.notes \in Seq(Number) /\ t.notes \in Seq(Number)
  BY TickFields
<1>1. m.title = w.title
  <2>1. (IF t.updatedAt > o.updatedAt THEN t.title ELSE o.title)
          = (IF o.updatedAt > t.updatedAt THEN o.title ELSE t.title)
    BY <1>f
  <2> QED
    BY <2>1, MergedFields, ThreeWaySwaps
<1>2. m.status = w.status
  <2>1. MergeStatus(o.status, t.status) = MergeStatus(t.status, o.status)
    BY <1>f, StatusRule
  <2> QED
    BY <2>1, MergedFields, ThreeWaySwaps
<1>3. m.priority = w.priority
  <2>1. MergePriority(o.priority, t.priority) = MergePriority(t.priority, o.priority)
    BY <1>f, PriorityRule
  <2> QED
    BY <2>1, MergedFields, ThreeWaySwaps
<1>4. m.closedAt = w.closedAt
  <2>1. Latest(o.closedAt, t.closedAt) = Latest(t.closedAt, o.closedAt)
    BY <1>f, LatestRule
  <2> QED
    BY <2>1, MergedFields, ThreeWaySwaps
<1>5. m.labels = w.labels
  <2>1. MergeSet(b.labels, o.labels, t.labels) = MergeSet(b.labels, t.labels, o.labels)
    BY DEF MergeSet
  <2> QED
    BY <2>1, MergedFields, ThreeWaySwaps
<1>6. m.updatedAt = w.updatedAt
  BY <1>f, MergedFields, LatestRule
<1>7. ToSet(m.notes) = ToSet(w.notes)
  <2>1. ToSet(MergeNotes(o.notes, t.notes)) = ToSet(MergeNotes(t.notes, o.notes))
    BY <1>f, NotesRule
  <2>2. CASE o.notes = b.notes \/ t.notes = b.notes \/ o.notes = t.notes
    BY <2>2, MergedFields, ThreeWayKeeps
  <2>3. CASE o.notes # b.notes /\ t.notes # b.notes /\ o.notes # t.notes
    <3>1. m.notes = MergeNotes(o.notes, t.notes) /\ w.notes = MergeNotes(t.notes, o.notes)
      BY <2>3, MergedFields, ThreeWayKeeps
    <3> QED
      BY <2>1, <3>1
  <2> QED
    BY <2>2, <2>3
<1> HIDE DEF m, w
<1>8. SameTick(m, w)
  BY <1>1, <1>2, <1>3, <1>4, <1>5, <1>6, <1>7 DEF SameTick
<1> QED
  BY <1>8 DEF m, w

\* Nothing that either side did to the tick is lost in a merge.
THEOREM MergeTickKeepsBoth ==
  ASSUME NEW b \in Tick, NEW o \in Tick, NEW t \in Tick
  PROVE  Kept(b, o, t, MergeTick(b, o, t))
<1> DEFINE m == MergeTick(b, o, t)
<1>f. /\ o.status \in Status /\ t.status \in Status
      /\ o.notes \in Seq(Number) /\ t.notes \in Seq(Number)
  BY TickFields
<1>1. /\ o.title = b.title => m.title = t.title
      /\ t.title = b.title => m.title = o.title
  BY MergedFields, ThreeWayKeeps
<1>2. /\ o.status = b.status => m.status = t.status
      /\ t.status = b.status => m.status = o.status
  BY MergedFields, ThreeWayKeeps
<1>3. /\ o.priority = b.priority => m.priority = t.priority
      /\ t.priority = b.priority => m.priority = o.priority
  BY MergedFields, ThreeWayKeeps
<1>4. /\ o.closedAt = b.closedAt => m.closedAt = t.closedAt
      /\ t.closedAt = b.closedAt => m.closedAt = o.closedAt
  BY MergedFields, ThreeWayKeeps
<1>5. /\ o.labels = b.labels => m.labels = t.labels
      /\ t.labels = b.labels => m.labels = o.labels
  BY MergedFields, ThreeWayKeeps
<1>6. /\ o.notes = b.notes => m.notes = t.notes
      /\ t.notes = b.notes => m.notes = o.notes
  BY MergedFields, ThreeWayKeeps
<1>7. /\ o.extra = b.extra => m.extra = t.extra
      /\ t.extra = b.extra => m.extra = o.extra
  BY MergedFields
<1>8. /\ ((o.labels \cup t.labels) \ b.labels) \subseteq m.labels
      /\ m.labels \cap ((b.labels \ o.labels) \cup (b.labels \ t.labels)) = {}
  <2>1. CASE o.labels = b.labels
    BY <1>5, <2>1
  <2>2. CASE t.labels = b.labels
    BY <1>5, <2>2
  <2>3. CASE o.labels = t.labels
    <3>1. m.labels = o.labels
      BY <2>3, MergedFields, ThreeWayKeeps
    <3> QED
      BY <2>3, <3>1
  <2>4. CASE o.labels # b.labels /\ t.labels # b.labels /\ o.labels # t.labels
    <3>1. m.labels = MergeSet(b.labels, o.labels, t.labels)
      BY <2>4, MergedFields, ThreeWayKeeps
    <3> QED
      BY <3>1 DEF MergeSet
  <2> QED
    BY <2>1, <2>2, <2>3, <2>4
<1>9. b.status # "closed" /\ "closed" \in {o.status, t.status} => m.status = "closed"
  <2>1. SUFFICES ASSUME b.status # "closed", "closed" \in {o.status, t.status}
                 PROVE  m.status = "closed"
    OBVIOUS
  <2>2. CASE o.status = b.status \/ t.status = b.status
    BY <1>2, <2>1, <2>2
  <2>3. CASE o.status = t.status
    <3>1. m.status = o.status
      BY <2>3, MergedFields, ThreeWayKeeps
    <3> QED
      BY <2>1, <2>3, <3>1
  <2>4. CASE o.status # b.status /\ t.status # b.status /\ o.status # t.status
    <3>1. m.status = MergeStatus(o.status, t.status)
      BY <2>4, MergedFields, ThreeWayKeeps
    <3> QED
      BY <1>f, <2>1, <3>1, StatusRule
  <2> QED
    BY <2>2, <2>3, <2>4
<1>10. o.notes # b.notes /\ t.notes # b.notes
         => ToSet(o.notes) \cup ToSet(t.notes) \subseteq ToSet(m.notes)
  <2>1. CASE o.notes = t.notes
    <3>1. m.notes = o.notes
      BY <2>1, MergedFields, ThreeWayKeeps
    <3> QED
      BY <2>1, <3>1
  <2>2. CASE o.notes # b.notes /\ t.notes # b.notes /\ o.notes # t.notes
    <3>1. m.notes = MergeNotes(o.notes, t.notes)
      BY <2>2, MergedFields, ThreeWayKeeps
    <3> QED
      BY <1>f, <3>1, NotesRule
  <2> QED
    BY <2>1, <2>2
<1>11. ASSUME NEW f \in {"title", "status", "priority", "closedAt", "labels", "notes", "extra"}
       PROVE  /\ o[f] = b[f] => m[f] = t[f]
              /\ t[f] = b[f] => m[f] = o[f]
  <2> HIDE DEF m
  <2> QED
    BY <1>1, <1>2, <1>3, <1>4, <1>5, <1>6, <1>7, <1>11
<1> HIDE DEF m
<1>12. Kept(b, o, t, m)
  BY <1>8, <1>9, <1>10, <1>11 DEF Kept
<1> QED
  BY <1>12 DEF m

-----------------------------------------------------------------------------
(* The two clones.                                                         *)

LEMMA TwoClones ==
  \A c \in Clones :
    /\ Other(c) \in Clones /\ Other(c) # c
    /\ \A d \in Clones : d = c \/ d = Other(c)
BY MergeAssumption DEF Other

\* What an edit does to a tick, as far as its closing goes: nothing, or it is
\* no longer closed and has no time.
Same(old, t) == t.status = old.status /\ t.closedAt = old.closedAt
Reset(t) == t.status # "closed" /\ t.closedAt = 0

LEMMA EditedTick ==
  ASSUME NEW old \in Tick, NEW n \in Number, NEW now \in Number,
         NEW t \in Edited(old, n, now)
  PROVE  t \in Tick /\ (Same(old, t) \/ Reset(t))
<1> DEFINE u == [old EXCEPT !.updatedAt = now, !.extra = 0]
<1>1. u \in Tick /\ Same(old, u)
  BY NumberFact DEF Tick, Same
<1>2. u.notes \in Seq(Number)
  BY <1>1, TickFields
<1>3. \/ t = [u EXCEPT !.title = n] \/ t = [u EXCEPT !.extra = n]
      \/ t = [u EXCEPT !.notes = Append(@, n)] \/ t = [u EXCEPT !.notes = <<n>>]
      \/ \E p \in {0, 3} : t = [u EXCEPT !.priority = p]
      \/ \E s \in {old.labels \cup {l} : l \in Labels} \cup {old.labels \ {l} : l \in Labels} :
           t = [u EXCEPT !.labels = s]
      \/ \E s \in {"open", "in_progress"} : t = [u EXCEPT !.status = s, !.closedAt = 0]
  BY DEF Edited
<1> HIDE DEF u
<1>4. CASE t = [u EXCEPT !.title = n] \/ t = [u EXCEPT !.extra = n]
  BY <1>1, <1>4 DEF Tick, Same
<1>5. CASE t = [u EXCEPT !.notes = Append(@, n)] \/ t = [u EXCEPT !.notes = <<n>>]
  <2>1. Append(u.notes, n) \in Seq(Number) /\ <<n>> \in Seq(Number)
    BY <1>2
  <2> QED
    BY <1>1, <1>5, <2>1 DEF Tick, Same
<1>6. ASSUME NEW p \in {0, 3}, t = [u EXCEPT !.priority = p]
      PROVE  t \in Tick /\ Same(old, t)
  <2>1. p \in 0 .. 4
    BY <1>6
  <2>2. Same(old, t)
    BY <1>1, <1>6 DEF Tick, Same
  <2>3. t \in Tick
    BY <1>1, <1>6, <2>1 DEF Tick
  <2> QED
    BY <2>2, <2>3
<1>7. ASSUME NEW s \in {old.labels \cup {l} : l \in Labels}
                        \cup {old.labels \ {l} : l \in Labels},
             t = [u EXCEPT !.labels = s]
      PROVE  t \in Tick /\ Same(old, t)
  <2>1. s \in SUBSET Labels
    BY TickFields
  <2> QED
    BY <1>1, <1>7, <2>1 DEF Tick, Same
<1>8. ASSUME NEW s \in {"open", "in_progress"}, t = [u EXCEPT !.status = s, !.closedAt = 0]
      PROVE  t \in Tick /\ Reset(t)
  BY <1>1, <1>8, NumberFact DEF Tick, Status, Reset
<1> QED
  BY <1>3, <1>4, <1>5, <1>6, <1>7, <1>8

LEMMA ClosedTick ==
  ASSUME NEW old \in Tick, NEW now \in Number
  PROVE  /\ Closed(old, now) \in Tick
         /\ Closed(old, now).status = "closed" /\ Closed(old, now).closedAt = now
BY NumberFact DEF Closed, Tick, Status

\* Git hands the driver what both sides changed, and else takes a side.
LEMMA GitTakes ==
  ASSUME NEW b, NEW o, NEW t, NEW m
  PROVE  /\ o = b => Git(b, o, t, m) = t
         /\ t = b => Git(b, o, t, m) = o
         /\ o = t => Git(b, o, t, m) = o
         /\ o # b /\ t # b /\ o # t => Git(b, o, t, m) = m
BY DEF Git

-----------------------------------------------------------------------------
(* Ticks and times are what they should be.                                *)

Ticks ==
  /\ DOMAIN side = Clones
  /\ base.tick \in Tick
  /\ \A c \in Clones : side[c].tick \in Tick
  /\ clock \in Nat /\ edits \in Nat
  /\ clock <= edits /\ edits <= MaxEdits

LEMMA TicksInit == Init => Ticks
<1> SUFFICES ASSUME Init PROVE Ticks
  OBVIOUS
<1>1. Blank \in Tick
  BY NumberFact DEF Blank, Tick, Status
<1>2. [Blank EXCEPT !.labels = Labels] \in Tick
  BY <1>1 DEF Tick
<1>3. base.tick = [Blank EXCEPT !.labels = Labels]
  BY DEF Init
<1>4. DOMAIN side = Clones /\ \A c \in Clones : side[c] = base
  BY DEF Init
<1>5. clock = 0 /\ edits = 0
  BY DEF Init
<1> QED
  BY <1>2, <1>3, <1>4, <1>5, MergeAssumption DEF Ticks

\* What is left of a step when the log is not looked at.
LEMMA EditStep ==
  ASSUME Ticks, NEW c \in Clones, Edit(c)
  PROVE  \E t \in Tick :
           /\ \A d \in Clones : side'[d].tick = IF d = c THEN t ELSE side[d].tick
           /\ DOMAIN side' = Clones
           /\ base' = base /\ drivers' = drivers
           /\ clock' \in Nat /\ clock <= clock' /\ edits' = edits + 1
           /\ clock' <= edits' /\ edits' <= MaxEdits
           /\ \/ Same(side[c].tick, t)
              \/ Reset(t)
              \/ t.status = "closed" /\ t.closedAt = clock' /\ clock' > clock
<1>0. PICK now \in {clock, clock + 1} \ {0}, torn \in BOOLEAN :
        \E t \in Edited(side[c].tick, edits + 1, now)
                   \cup (IF now > clock THEN {Closed(side[c].tick, now)} ELSE {}) :
          /\ edits < MaxEdits
          /\ edits' = edits + 1
          /\ clock' = now
          /\ side' = [side EXCEPT ![c] =
                        [tick |-> t, log |-> Append(@.log, [ts |-> now, n |-> edits', torn |-> torn])]]
          /\ UNCHANGED <<base, drivers>>
  BY DEF Edit
<1>1. PICK t \in Edited(side[c].tick, edits + 1, now)
                   \cup (IF now > clock THEN {Closed(side[c].tick, now)} ELSE {}) :
        /\ edits < MaxEdits
        /\ edits' = edits + 1
        /\ clock' = now
        /\ side' = [side EXCEPT ![c] =
                      [tick |-> t, log |-> Append(@.log, [ts |-> now, n |-> edits', torn |-> torn])]]
        /\ UNCHANGED <<base, drivers>>
  BY <1>0
<1>2. /\ edits \in Nat /\ clock \in Nat /\ clock <= edits
      /\ DOMAIN side = Clones /\ side[c].tick \in Tick
  BY DEF Ticks
<1>3. now \in Nat /\ now <= edits + 1 /\ clock <= now
  BY <1>2
<1>4. now \in Number /\ edits + 1 \in Number
  BY <1>1, <1>2, <1>3, MergeAssumption DEF Number
<1>5. \A d \in Clones : side'[d].tick = IF d = c THEN t ELSE side[d].tick
  BY <1>1, <1>2
<1>6. DOMAIN side' = Clones
  BY <1>1, <1>2
<1>7. CASE t \in Edited(side[c].tick, edits + 1, now)
  <2>1. t \in Tick /\ (Same(side[c].tick, t) \/ Reset(t))
    BY <1>2, <1>4, <1>7, EditedTick
  <2> QED
    BY <1>1, <1>2, <1>3, <1>5, <1>6, <2>1, MergeAssumption
<1>8. CASE now > clock /\ t = Closed(side[c].tick, now)
  <2>1. t \in Tick /\ t.status = "closed" /\ t.closedAt = now
    BY <1>2, <1>4, <1>8, ClosedTick
  <2> QED
    BY <1>1, <1>2, <1>3, <1>5, <1>6, <1>8, <2>1, MergeAssumption
<1>9. t \in Edited(side[c].tick, edits + 1, now) \/ (now > clock /\ t = Closed(side[c].tick, now))
  <2>1. CASE now > clock
    BY <2>1
  <2>2. CASE ~(now > clock)
    BY <2>2
  <2> QED
    BY <2>1, <2>2
<1> QED
  BY <1>7, <1>8, <1>9

LEMMA MergeStep ==
  ASSUME Ticks, NEW c \in Clones, GitMerge(c)
  PROVE  LET b == base.tick
             o == side[c].tick
             t == side[Other(c)].tick
         IN /\ side'[c].tick = Git(b, o, t, MergeTick(b, o, t))
            /\ side'[c].tick \in Tick
            /\ \A d \in Clones : d # c => side'[d] = side[d]
            /\ DOMAIN side' = Clones
            /\ base' = side[Other(c)]
            /\ clock' = clock /\ edits' = edits /\ drivers' = drivers
<1> DEFINE b == base.tick
           o == side[c].tick
           t == side[Other(c)].tick
<1>1. b \in Tick /\ o \in Tick /\ t \in Tick /\ DOMAIN side = Clones
  BY TwoClones DEF Ticks
<1>2. MergeTick(b, o, t) \in Tick
  BY <1>1, MergeIsTick
<1>3. Git(b, o, t, MergeTick(b, o, t)) \in Tick
  BY <1>1, <1>2, GitTakes
<1>4. /\ base' = side[Other(c)]
      /\ side' = [side EXCEPT ![c] =
                    [tick |-> Git(b, o, t, MergeTick(b, o, t)),
                     log  |-> Git(base.log, side[c].log, side[Other(c)].log,
                                  MergeActivity(side[c].log, side[Other(c)].log))]]
      /\ UNCHANGED <<drivers, edits, clock>>
  BY DEF GitMerge
<1>5. /\ side'[c].tick = Git(b, o, t, MergeTick(b, o, t))
      /\ \A d \in Clones : d # c => side'[d] = side[d]
      /\ DOMAIN side' = Clones
  BY <1>1, <1>4
<1> QED
  BY <1>3, <1>4, <1>5

LEMMA TicksStep == Ticks /\ [Next]_vars => Ticks'
<1> SUFFICES ASSUME Ticks, [Next]_vars
             PROVE  Ticks'
  OBVIOUS
<1>1. CASE UNCHANGED vars
  BY <1>1 DEF Ticks, vars
<1>2. ASSUME NEW c \in Clones, Edit(c)
      PROVE  Ticks'
  BY <1>2, EditStep DEF Ticks
<1>3. ASSUME NEW c \in Clones, CheckAndInstall(c)
      PROVE  Ticks'
  BY <1>3 DEF CheckAndInstall, Ticks
<1>4. ASSUME NEW c \in Clones, GitMerge(c)
      PROVE  Ticks'
  <2>1. side[Other(c)].tick \in Tick
    BY TwoClones DEF Ticks
  <2> QED
    BY <1>4, <2>1, MergeStep DEF Ticks
<1> QED
  BY <1>1, <1>2, <1>3, <1>4 DEF Next

LEMMA TicksAlways == Spec => []Ticks
BY TicksInit, TicksStep, PTL DEF Spec

-----------------------------------------------------------------------------
(* The time of a closing.                                                  *)

Timed(v) == v.status = "closed" => v.closedAt # 0

\* A closing the base did not have has a time the base did not have.
OwnTime(b, v) == v.status = "closed" /\ v.closedAt = b.closedAt => b.status = "closed"

\* An open tick o with the time of a closing that the base did not have is what
\* a merge left: whatever closes the other clone's tick t does so later.
Leftover(b, o, t) ==
  /\ o.status # "closed" /\ o.closedAt \notin {0, b.closedAt}
  /\ t.status = "closed" /\ t.closedAt # b.closedAt
  => t.closedAt > o.closedAt

Times ==
  /\ Timed(base.tick) /\ base.tick.closedAt <= clock
  /\ \A c \in Clones :
       /\ Timed(side[c].tick) /\ side[c].tick.closedAt <= clock
       /\ OwnTime(base.tick, side[c].tick)
  /\ \A c, d \in Clones : c # d => Leftover(base.tick, side[c].tick, side[d].tick)

\* A merge keeps the times in order, t being the base from then on.
LEMMA MergeKeepsTimes ==
  ASSUME NEW b \in Tick, NEW o \in Tick, NEW t \in Tick,
         Timed(b), Timed(o), Timed(t), OwnTime(b, o), OwnTime(b, t),
         Leftover(b, o, t), Leftover(b, t, o)
  PROVE  LET m == MergeTick(b, o, t) IN
         Timed(m) /\ OwnTime(t, m) /\ m.closedAt \in {o.closedAt, t.closedAt}
<1> DEFINE m == MergeTick(b, o, t)
<1>1. /\ o.status \in Status /\ t.status \in Status
      /\ b.closedAt \in Nat /\ o.closedAt \in Nat /\ t.closedAt \in Nat
  BY TickFields
<1>2. /\ o.status = b.status => m.status = t.status
      /\ t.status = b.status => m.status = o.status
      /\ m.status \in {o.status, t.status}
  BY <1>1, MergedFields, ThreeWayKeeps, StatusRule
<1>3. /\ o.closedAt = b.closedAt => m.closedAt = t.closedAt
      /\ t.closedAt = b.closedAt => m.closedAt = o.closedAt
      /\ o.closedAt = t.closedAt => m.closedAt = o.closedAt
      /\ o.closedAt <= m.closedAt \/ o.closedAt = b.closedAt
      /\ t.closedAt <= m.closedAt \/ t.closedAt = b.closedAt
      /\ m.closedAt \in {o.closedAt, t.closedAt}
  BY <1>1, MergedFields, ThreeWayKeeps, LatestRule
<1> HIDE DEF m
<1>4. m.closedAt \in Nat
  BY <1>1, <1>3
<1>5. Timed(m)
  BY <1>1, <1>2, <1>3, <1>4 DEF Timed, OwnTime
<1>6. OwnTime(t, m)
  BY <1>1, <1>2, <1>3, <1>4 DEF Timed, OwnTime, Leftover
<1> QED
  BY <1>3, <1>5, <1>6 DEF m

LEMMA GitKeepsTimes ==
  ASSUME NEW b \in Tick, NEW o \in Tick, NEW t \in Tick,
         Timed(b), Timed(o), Timed(t), OwnTime(b, o), OwnTime(b, t),
         Leftover(b, o, t), Leftover(b, t, o)
  PROVE  LET g == Git(b, o, t, MergeTick(b, o, t)) IN
         Timed(g) /\ OwnTime(t, g) /\ g.closedAt \in {o.closedAt, t.closedAt}
<1>1. CASE o = b
  BY <1>1, GitTakes DEF OwnTime
<1>2. CASE t = b
  BY <1>2, GitTakes DEF OwnTime
<1>3. CASE o = t
  BY <1>3, GitTakes DEF OwnTime
<1>4. CASE o # b /\ t # b /\ o # t
  BY <1>4, GitTakes, MergeKeepsTimes
<1> QED
  BY <1>1, <1>2, <1>3, <1>4

LEMMA TimesInit == Init => Times
<1> SUFFICES ASSUME Init PROVE Times
  OBVIOUS
<1>1. base.tick.status = "open" /\ base.tick.closedAt = 0
  BY DEF Init, Blank
<1>2. clock = 0 /\ \A c \in Clones : side[c] = base
  BY DEF Init
<1> QED
  BY <1>1, <1>2 DEF Times, Timed, OwnTime, Leftover

LEMMA TimesStep == Ticks /\ Times /\ [Next]_vars => Times'
<1> SUFFICES ASSUME Ticks, Times, [Next]_vars
             PROVE  Times'
  OBVIOUS
<1>0. /\ clock \in Nat /\ base.tick \in Tick /\ base.tick.closedAt \in Nat
      /\ \A c \in Clones : side[c].tick \in Tick /\ side[c].tick.closedAt \in Nat
  BY TickFields DEF Ticks
<1>1. CASE UNCHANGED vars
  BY <1>1 DEF Times, vars
<1>2. ASSUME NEW c \in Clones, Edit(c)
      PROVE  Times'
  <2>1. PICK t \in Tick :
          /\ \A d \in Clones : side'[d].tick = IF d = c THEN t ELSE side[d].tick
          /\ base' = base
          /\ clock' \in Nat /\ clock <= clock'
          /\ \/ Same(side[c].tick, t)
             \/ Reset(t)
             \/ t.status = "closed" /\ t.closedAt = clock' /\ clock' > clock
    BY <1>2, EditStep
  <2>2. t.closedAt \in Nat
    BY TickFields
  <2>3. Timed(base'.tick) /\ base'.tick.closedAt <= clock'
    BY <1>0, <2>1 DEF Times
  <2>4. ASSUME NEW d \in Clones
        PROVE  /\ Timed(side'[d].tick) /\ side'[d].tick.closedAt <= clock'
               /\ OwnTime(base'.tick, side'[d].tick)
    <3>1. /\ Timed(side[d].tick) /\ side[d].tick.closedAt <= clock
          /\ OwnTime(base.tick, side[d].tick) /\ base.tick.closedAt <= clock
      BY DEF Times
    <3>2. CASE d # c
      BY <1>0, <2>1, <3>1, <3>2
    <3>3. CASE d = c
      <4>1. side'[d].tick = t /\ base' = base
        BY <2>1, <3>3
      <4>2. CASE Same(side[c].tick, t)
        BY <1>0, <2>1, <3>1, <3>3, <4>1, <4>2 DEF Same, Timed, OwnTime
      <4>3. CASE Reset(t)
        BY <2>1, <4>1, <4>3 DEF Reset, Timed, OwnTime
      <4>4. CASE t.status = "closed" /\ t.closedAt = clock' /\ clock' > clock
        BY <1>0, <2>1, <3>1, <4>1, <4>4 DEF Timed, OwnTime
      <4> QED
        BY <2>1, <4>2, <4>3, <4>4
    <3> QED
      BY <3>2, <3>3
  <2>5. ASSUME NEW d \in Clones, NEW e \in Clones, d # e
        PROVE  Leftover(base'.tick, side'[d].tick, side'[e].tick)
    <3>1. Leftover(base.tick, side[d].tick, side[e].tick) /\ side[d].tick.closedAt <= clock
      BY <2>5 DEF Times
    <3>2. CASE d # c /\ e # c
      BY <2>1, <3>1, <3>2
    <3>3. CASE d = c
      <4>1. side'[d].tick = t /\ side'[e].tick = side[e].tick /\ base' = base
        BY <2>1, <2>5, <3>3
      <4>2. CASE Same(side[c].tick, t)
        BY <3>1, <3>3, <4>1, <4>2 DEF Same, Leftover
      <4>3. CASE Reset(t) \/ t.status = "closed"
        BY <4>1, <4>3 DEF Reset, Leftover
      <4> QED
        BY <2>1, <4>2, <4>3
    <3>4. CASE e = c
      <4>1. side'[e].tick = t /\ side'[d].tick = side[d].tick /\ base' = base
        BY <2>1, <2>5, <3>4
      <4>2. CASE Same(side[c].tick, t)
        BY <3>1, <3>4, <4>1, <4>2 DEF Same, Leftover
      <4>3. CASE Reset(t)
        BY <4>1, <4>3 DEF Reset, Leftover
      <4>4. CASE t.status = "closed" /\ t.closedAt = clock' /\ clock' > clock
        BY <1>0, <2>1, <3>1, <4>1, <4>4 DEF Leftover
      <4> QED
        BY <2>1, <4>2, <4>3, <4>4
    <3> QED
      BY <3>2, <3>3, <3>4
  <2> QED
    BY <2>3, <2>4, <2>5 DEF Times
<1>3. ASSUME NEW c \in Clones, CheckAndInstall(c)
      PROVE  Times'
  BY <1>3 DEF CheckAndInstall, Times
<1>4. ASSUME NEW c \in Clones, GitMerge(c)
      PROVE  Times'
  <2> DEFINE b == base.tick
             o == side[c].tick
             t == side[Other(c)].tick
             g == Git(b, o, t, MergeTick(b, o, t))
  <2>1. /\ Other(c) \in Clones /\ Other(c) # c
        /\ \A d \in Clones : d = c \/ d = Other(c)
    BY TwoClones
  <2>2. /\ b \in Tick /\ o \in Tick /\ t \in Tick
        /\ Timed(b) /\ Timed(o) /\ Timed(t) /\ OwnTime(b, o) /\ OwnTime(b, t)
        /\ Leftover(b, o, t) /\ Leftover(b, t, o)
        /\ o.closedAt <= clock /\ t.closedAt <= clock
    BY <1>0, <2>1 DEF Times
  <2>3. Timed(g) /\ OwnTime(t, g) /\ g.closedAt \in {o.closedAt, t.closedAt}
    BY <2>2, GitKeepsTimes
  <2>4. /\ side'[c].tick = g
        /\ side'[Other(c)].tick = t
        /\ base'.tick = t /\ clock' = clock
    BY <1>4, <2>1, MergeStep
  <2> HIDE DEF b, o, t, g
  <2>5. Timed(base'.tick) /\ base'.tick.closedAt <= clock'
    BY <2>2, <2>4
  <2>6. /\ Timed(side'[c].tick) /\ side'[c].tick.closedAt <= clock'
        /\ OwnTime(base'.tick, side'[c].tick)
    BY <2>2, <2>3, <2>4
  <2>7. /\ Timed(side'[Other(c)].tick) /\ side'[Other(c)].tick.closedAt <= clock'
        /\ OwnTime(base'.tick, side'[Other(c)].tick)
    BY <2>2, <2>4 DEF OwnTime
  <2>8. /\ Leftover(base'.tick, side'[c].tick, side'[Other(c)].tick)
        /\ Leftover(base'.tick, side'[Other(c)].tick, side'[c].tick)
    BY <2>4 DEF Leftover
  <2> QED
    BY <2>1, <2>5, <2>6, <2>7, <2>8 DEF Times
<1> QED
  BY <1>1, <1>2, <1>3, <1>4 DEF Next

\* In every version of the tick a closed tick has the time of its closing,
\* whatever the clones edit and merge.
THEOREM ClosedAlwaysHasTime == Spec => []ClosedHasTime
<1>1. Ticks /\ Times => ClosedHasTime
  BY DEF Times, Timed, ClosedHasTime
<1> QED
  BY <1>1, TicksAlways, TicksInit, TicksStep, TimesInit, TimesStep, PTL DEF Spec

-----------------------------------------------------------------------------
(* What the theorems about three ticks say of the clones.                  *)

\* At any time, both directions of a merge make the same tick.
THEOREM TicksAlwaysAgree == Spec => []TicksAgree
<1>1. Ticks => TicksAgree
  <2> SUFFICES ASSUME Ticks, NEW c \in Clones,
                      side[c].tick.updatedAt # side[Other(c)].tick.updatedAt
               PROVE  SameTick(MergeTick(base.tick, side[c].tick, side[Other(c)].tick),
                               MergeTick(base.tick, side[Other(c)].tick, side[c].tick))
    BY DEF TicksAgree
  <2>1. base.tick \in Tick /\ side[c].tick \in Tick /\ side[Other(c)].tick \in Tick
    BY TwoClones DEF Ticks
  <2> QED
    BY <2>1, MergeTickOrderFree
<1> QED
  BY <1>1, TicksAlways, PTL

\* A side that git takes as it is has kept both as well.
LEMMA GitKeepsBoth ==
  ASSUME NEW b \in Tick, NEW o \in Tick, NEW t \in Tick
  PROVE  Kept(b, o, t, Git(b, o, t, MergeTick(b, o, t)))
<1>1. CASE o = b
  <2>1. Kept(b, o, t, t)
    BY <1>1 DEF Kept
  <2> QED
    BY <1>1, <2>1, GitTakes
<1>2. CASE t = b
  <2>1. Kept(b, o, t, o)
    BY <1>2 DEF Kept
  <2> QED
    BY <1>2, <2>1, GitTakes
<1>3. CASE o = t
  <2>1. Kept(b, o, t, o)
    BY <1>3 DEF Kept
  <2> QED
    BY <1>3, <2>1, GitTakes
<1>4. CASE o # b /\ t # b /\ o # t
  BY <1>4, GitTakes, MergeTickKeepsBoth
<1> QED
  BY <1>1, <1>2, <1>3, <1>4

\* No merge loses what a side did to the tick.
THEOREM MergesKeepTicks == Spec => [][\A c \in Clones : Merged(c) => KeepsTicks(c)]_vars
<1>1. Ticks /\ [Next]_vars => [\A c \in Clones : Merged(c) => KeepsTicks(c)]_vars
  <2> SUFFICES ASSUME Ticks, Next, NEW c \in Clones, Merged(c)
               PROVE  KeepsTicks(c)
    OBVIOUS
  <2>1. base # base' /\ base' = side[Other(c)]
    BY DEF Merged
  <2>2. base.tick \in Tick /\ side[c].tick \in Tick /\ side[Other(c)].tick \in Tick
    BY TwoClones DEF Ticks
  <2>3. PICK d \in Clones : GitMerge(d)
    BY <2>1 DEF Next, Edit, CheckAndInstall
  <2>4. CASE d = c
    BY <2>2, <2>3, <2>4, MergeStep, GitKeepsBoth DEF KeepsTicks
  <2>5. CASE d # c
    <3>1. Other(d) = c
      BY <2>5, TwoClones
    <3>2. side'[c] = side[c] /\ side[c] = side[Other(c)]
      BY <2>1, <2>3, <2>5, <3>1, MergeStep
    <3>3. Git(base.tick, side[c].tick, side[Other(c)].tick,
              MergeTick(base.tick, side[c].tick, side[Other(c)].tick)) = side'[c].tick
      BY <3>2, GitTakes
    <3> QED
      BY <2>2, <3>3, GitKeepsBoth DEF KeepsTicks
  <2> QED
    BY <2>4, <2>5
<1> QED
  BY <1>1, TicksAlways, PTL DEF Spec

\* The driver the look is for is never there without the other.
Inst ==
  /\ drivers \in [Clones -> SUBSET Driver]
  /\ \A c \in Clones : "activity" \in drivers[c] => "tick" \in drivers[c]

LEMMA InstInit == Init => Inst
BY DEF Init, Driver, Inst

LEMMA InstStep == Inst /\ [Next]_vars => Inst'
<1> SUFFICES ASSUME Inst, [Next]_vars
             PROVE  Inst'
  OBVIOUS
<1>1. CASE drivers' = drivers
  BY <1>1 DEF Inst
<1>2. ASSUME NEW c \in Clones, CheckAndInstall(c)
      PROVE  Inst'
  <2>1. Order[1] = "tick" /\ Order[2] = "activity"
    BY DEF Order
  <2> QED
    BY <1>2, <2>1 DEF CheckAndInstall, Install, Driver, Inst
<1>3. drivers' = drivers \/ \E c \in Clones : CheckAndInstall(c)
  BY DEF Next, Edit, GitMerge, vars
<1> QED
  BY <1>1, <1>2, <1>3

LEMMA InstAlways == Spec => []Inst
BY InstInit, InstStep, PTL DEF Spec

\* A clone in which the look finds the drivers has both, wherever a command died.
THEOREM FoundAlwaysWhole == Spec => []FoundIsWhole
<1>1. Inst => FoundIsWhole
  BY DEF FoundIsWhole, Driver, Inst
<1> QED
  BY <1>1, InstAlways, PTL

-----------------------------------------------------------------------------
(* The order of a merged log.                                              *)

LEMMA LeastNumber ==
  ASSUME NEW S, S \subseteq Nat, S # {}
  PROVE  \E x \in S : \A y \in S : x <= y
<1> DEFINE R == {ss \in Nat \X Nat : ss[1] < ss[2]}
<1>1. IsWellFoundedOn(R, Nat)
  BY NatLessThanWellFounded, Zenon DEF OpToRel
<1>2. \A x, y \in Nat : <<x, y>> \in R <=> x < y
  OBVIOUS
<1> HIDE DEF R
<1>3. PICK x \in S : \A y \in S : ~ (<<y, x>> \in R)
  BY <1>1, WFMin
<1>4. \A y \in S : ~(y < x)
  BY <1>2, <1>3
<1>5. \A y \in S : x <= y
  BY <1>4
<1> QED
  BY <1>5

Orders(R, S) ==
  /\ \A i \in S : <<i, i>> \notin R
  /\ \A i, j \in S : i # j => <<i, j>> \in R \/ <<j, i>> \in R
  /\ \A i, j, k \in S : <<i, j>> \in R /\ <<j, k>> \in R => <<i, k>> \in R

Place(S, R, i) == Cardinality({j \in S : <<j, i>> \in R}) + 1

\* The members of a finite set in a strict order, counted by those before them,
\* are numbered from one on, without a gap.
Counted(S, R) ==
  /\ Cardinality(S) \in Nat
  /\ \A i \in S : Place(S, R, i) \in 1 .. Cardinality(S)
  /\ \A i, j \in S : <<i, j>> \in R => Place(S, R, i) < Place(S, R, j)
  /\ \A i, j \in S : Place(S, R, i) = Place(S, R, j) => i = j
  /\ \A k \in 1 .. Cardinality(S) : \E i \in S : Place(S, R, i) = k

LEMMA Counting ==
  ASSUME NEW S, IsFiniteSet(S), NEW R, Orders(R, S)
  PROVE  Counted(S, R)
<1> USE DEF Orders
<1> DEFINE B(i) == {j \in S : <<j, i>> \in R}
           N == Cardinality(S)
<1>1. N \in Nat
  BY FS_CardinalityType
<1>2. ASSUME NEW i \in S
      PROVE  IsFiniteSet(B(i)) /\ Cardinality(B(i)) \in Nat /\ Cardinality(B(i)) < N
  <2>1. B(i) \in SUBSET S /\ i \notin B(i)
    BY <1>2
  <2>2. IsFiniteSet(B(i)) /\ Cardinality(B(i)) <= N /\ (N = Cardinality(B(i)) => S = B(i))
    BY <2>1, FS_Subset
  <2>3. Cardinality(B(i)) \in Nat
    BY <2>2, FS_CardinalityType
  <2>4. S # B(i)
    BY <1>2, <2>1
  <2> QED
    BY <1>1, <2>2, <2>3, <2>4
<1>3. ASSUME NEW i \in S, NEW j \in S, <<i, j>> \in R
      PROVE  Cardinality(B(i)) < Cardinality(B(j))
  <2>1. B(i) \in SUBSET B(j) /\ i \in B(j) /\ i \notin B(i)
    BY <1>3
  <2>2. B(i) # B(j)
    BY <2>1
  <2>3. /\ IsFiniteSet(B(j)) /\ Cardinality(B(j)) \in Nat /\ Cardinality(B(i)) \in Nat
    BY <1>2
  <2>4. Cardinality(B(i)) <= Cardinality(B(j)) /\ (Cardinality(B(j)) = Cardinality(B(i)) => B(j) = B(i))
    BY <2>1, <2>3, FS_Subset
  <2> QED
    BY <2>2, <2>3, <2>4
<1>4. \A i \in S : Place(S, R, i) = Cardinality(B(i)) + 1
  BY DEF Place
<1>5. \A i \in S : Cardinality(B(i)) \in Nat /\ Cardinality(B(i)) < N
  BY <1>2
<1>6. \A i, j \in S : <<i, j>> \in R => Cardinality(B(i)) < Cardinality(B(j))
  BY <1>3
<1> HIDE DEF B, N
<1>7. \A i \in S : Place(S, R, i) \in 1 .. N
  BY <1>1, <1>4, <1>5
<1>8. \A i, j \in S : <<i, j>> \in R => Place(S, R, i) < Place(S, R, j)
  BY <1>4, <1>5, <1>6
<1>9. ASSUME NEW i \in S, NEW j \in S, Place(S, R, i) = Place(S, R, j)
      PROVE  i = j
  <2>1. Place(S, R, i) \in Nat
    BY <1>1, <1>7
  <2>2. ~(<<i, j>> \in R) /\ ~(<<j, i>> \in R)
    BY <1>8, <1>9, <2>1
  <2> QED
    BY <2>2
<1>10. ASSUME NEW k \in 1 .. N
       PROVE  \E i \in S : Place(S, R, i) = k
  <2> DEFINE f == [i \in S |-> Place(S, R, i)]
  <2>1. f \in [S -> 1 .. N] /\ \A i \in S : f[i] = Place(S, R, i)
    BY <1>7
  <2>2. f \in Injection(S, 1 .. N)
    BY <1>9, <2>1 DEF Injection, IsInjective
  <2>3. IsFiniteSet(1 .. N) /\ Cardinality(1 .. N) = N
    BY <1>1, FS_Interval
  <2>4. Cardinality(S) = Cardinality(1 .. N)
    BY <2>3 DEF N
  <2>5. f \in Surjection(S, 1 .. N)
    BY <2>2, <2>3, <2>4, FS_Injection
  <2> QED
    BY <1>10, <2>1, <2>5 DEF Surjection
<1> QED
  BY <1>1, <1>7, <1>8, <1>9, <1>10 DEF N, Counted

LEMMA LineFields ==
  ASSUME NEW l \in Line
  PROVE  /\ l.ts \in Nat /\ l.n \in Nat /\ l.n \in Number /\ l.torn \in BOOLEAN
         /\ l = [ts |-> l.ts, n |-> l.n, torn |-> l.torn]
BY NumberFact DEF Line

\* A line that parses is what its key says.
LEMMA KeyIsLine ==
  ASSUME NEW l \in Line, NEW k \in Line, ~l.torn, ~k.torn, Key(l) = Key(k)
  PROVE  l = k
<1>1. l.ts = k.ts /\ l.n = k.n
  BY DEF Key
<1>2. l.torn = FALSE /\ k.torn = FALSE
  BY LineFields
<1> QED
  BY <1>1, <1>2, LineFields

\* The places of the lines a merge takes from both logs, and their order.
First(ls) == {i \in Parse(ls) : \A j \in Parse(ls) : j < i => Key(ls[j]) # Key(ls[i])}

Before(ls) ==
  {p \in First(ls) \X First(ls) :
     \/ ls[p[1]].ts < ls[p[2]].ts
     \/ ls[p[1]].ts = ls[p[2]].ts /\ p[1] < p[2]}

LEMMA FirstFacts ==
  ASSUME NEW ls \in Seq(Line)
  PROVE  /\ First(ls) \subseteq DOMAIN ls /\ First(ls) \subseteq Nat
         /\ IsFiniteSet(First(ls))
         /\ \A i \in First(ls) : ls[i] \in Line /\ ~ls[i].torn
         /\ \A i, j \in First(ls) : ls[i] = ls[j] => i = j
         /\ \A i \in DOMAIN ls : ~ls[i].torn => \E j \in First(ls) : ls[j] = ls[i]
<1>1. /\ DOMAIN ls = 1 .. Len(ls) /\ Len(ls) \in Nat
      /\ DOMAIN ls \subseteq Nat
      /\ \A i \in DOMAIN ls : ls[i] \in Line
  OBVIOUS
<1>2. /\ First(ls) \subseteq DOMAIN ls
      /\ \A i \in First(ls) : i \in Parse(ls) /\ ls[i] \in Line /\ ~ls[i].torn
  BY <1>1 DEF First, Parse
<1>3. IsFiniteSet(First(ls))
  <2>1. IsFiniteSet(1 .. Len(ls))
    BY <1>1, FS_Interval
  <2>2. First(ls) \in SUBSET (1 .. Len(ls))
    BY <1>1, <1>2
  <2> QED
    BY <2>1, <2>2, FS_Subset
<1>4. ASSUME NEW i \in First(ls), NEW j \in First(ls), ls[i] = ls[j]
      PROVE  i = j
  <2>1. i \in Nat /\ j \in Nat /\ i \in Parse(ls) /\ j \in Parse(ls)
    BY <1>1, <1>2
  <2>2. ~(i < j) /\ ~(j < i)
    BY <1>4, <2>1 DEF First
  <2> QED
    BY <2>1, <2>2
<1>5. ASSUME NEW i \in DOMAIN ls, ~ls[i].torn
      PROVE  \E j \in First(ls) : ls[j] = ls[i]
  <2> DEFINE S == {j \in Parse(ls) : Key(ls[j]) = Key(ls[i])}
  <2>1. S \subseteq Nat /\ i \in S
    BY <1>1, <1>5 DEF Parse
  <2>2. PICK j \in S : \A k \in S : j <= k
    BY <2>1, LeastNumber
  <2>3. j \in Parse(ls) /\ j \in Nat /\ Key(ls[j]) = Key(ls[i])
    BY <2>1, <2>2
  <2>4. \A k \in Parse(ls) : k < j => Key(ls[k]) # Key(ls[j])
    BY <1>1, <2>2, <2>3 DEF Parse
  <2>5. j \in First(ls)
    BY <2>3, <2>4 DEF First
  <2>6. ls[j] = ls[i]
    BY <1>1, <1>2, <1>5, <2>3, <2>5, KeyIsLine
  <2> QED
    BY <2>5, <2>6
<1> QED
  BY <1>1, <1>2, <1>3, <1>4, <1>5

LEMMA BeforeIsOrder ==
  ASSUME NEW ls \in Seq(Line)
  PROVE  Orders(Before(ls), First(ls))
<1>1. \A i \in First(ls) : i \in Nat /\ ls[i].ts \in Nat
  BY FirstFacts, LineFields
<1>2. \A i, j \in First(ls) :
        <<i, j>> \in Before(ls)
          <=> \/ ls[i].ts < ls[j].ts
              \/ ls[i].ts = ls[j].ts /\ i < j
  BY DEF Before
<1> QED
  BY <1>1, <1>2 DEF Orders

\* What MergeActivity makes of two logs: their lines that parse, each once, by time.
LEMMA MergedLog ==
  ASSUME NEW o \in Seq(Line), NEW t \in Seq(Line)
  PROVE  LET m == MergeActivity(o, t) IN
         /\ m \in Seq(Line)
         /\ ToSet(m) = {l \in ToSet(o) \cup ToSet(t) : ~l.torn}
         /\ \A i, j \in DOMAIN m : m[i] = m[j] => i = j
         /\ \A i, j \in DOMAIN m : i < j => m[i].ts <= m[j].ts
<1> DEFINE lines == o \o t
           first == {i \in Parse(lines) : \A j \in Parse(lines) : j < i => Key(lines[j]) # Key(lines[i])}
           before(i, j) == lines[i].ts < lines[j].ts \/ (lines[i].ts = lines[j].ts /\ i < j)
           place(i) == Cardinality({j \in first : before(j, i)}) + 1
           at(k) == CHOOSE i \in first : place(i) = k
           N == Cardinality(first)
           m == MergeActivity(o, t)
<1>1. m = [k \in 1 .. N |-> lines[at(k)]]
  BY DEF MergeActivity
<1>2. lines \in Seq(Line) /\ ToSet(lines) = ToSet(o) \cup ToSet(t)
  BY Concatenated
<1>3. first = First(lines)
  BY DEF First
<1>4. \A i \in first : place(i) = Place(First(lines), Before(lines), i)
  <2>1. \A i, j \in first : before(j, i) <=> <<j, i>> \in Before(lines)
    BY <1>3 DEF Before
  <2>2. \A i \in first : {j \in first : before(j, i)} = {j \in first : <<j, i>> \in Before(lines)}
    BY <2>1
  <2> QED
    BY <1>3, <2>2 DEF Place
<1> HIDE DEF m, lines, before, place, first
<1>5a. N = Cardinality(First(lines))
  BY <1>3
<1> HIDE DEF N
<1>5b. Counted(First(lines), Before(lines))
  BY <1>2, FirstFacts, BeforeIsOrder, Counting
<1>5. /\ N \in Nat
      /\ \A i \in first : place(i) \in 1 .. N
      /\ \A i, j \in first : <<i, j>> \in Before(lines) => place(i) < place(j)
      /\ \A i, j \in first : place(i) = place(j) => i = j
      /\ \A k \in 1 .. N : \E i \in first : place(i) = k
  BY <1>3, <1>4, <1>5a, <1>5b DEF Counted
<1>6. \A k \in 1 .. N : at(k) \in first /\ place(at(k)) = k
  BY <1>5
<1>7. \A i \in first : lines[i] \in Line /\ ~lines[i].torn /\ i \in DOMAIN lines /\ lines[i].ts \in Nat /\ i \in Nat
  BY <1>2, <1>3, FirstFacts, LineFields
<1> HIDE DEF at
<1>8. /\ DOMAIN m = 1 .. N
      /\ \A k \in 1 .. N : m[k] = lines[at(k)]
      /\ m \in Seq(Line)
  BY <1>1, <1>5, <1>6, <1>7
<1>9. ASSUME NEW l \in ToSet(m)
      PROVE  l \in ToSet(o) \cup ToSet(t) /\ ~l.torn
  <2>1. PICK k \in 1 .. N : l = m[k]
    BY <1>8, <1>9 DEF ToSet
  <2>2. l = lines[at(k)] /\ at(k) \in DOMAIN lines /\ ~l.torn
    BY <1>6, <1>7, <1>8, <2>1
  <2>3. l \in ToSet(lines)
    BY <2>2 DEF ToSet
  <2> QED
    BY <1>2, <2>2, <2>3
<1>10. ASSUME NEW l \in ToSet(o) \cup ToSet(t), ~l.torn
       PROVE  l \in ToSet(m)
  <2>1. PICK i \in DOMAIN lines : l = lines[i]
    BY <1>2, <1>10 DEF ToSet
  <2>2. PICK j \in first : lines[j] = l
    BY <1>2, <1>3, <1>10, <2>1, FirstFacts
  <2>3. place(j) \in 1 .. N /\ at(place(j)) \in first /\ place(at(place(j))) = place(j)
    BY <1>5, <1>6
  <2>4. at(place(j)) = j
    BY <1>5, <2>2, <2>3
  <2>5. m[place(j)] = l
    BY <1>8, <2>2, <2>3, <2>4
  <2> QED
    BY <1>8, <2>3, <2>5 DEF ToSet
<1>11. ASSUME NEW i \in DOMAIN m, NEW j \in DOMAIN m, m[i] = m[j]
       PROVE  i = j
  <2>1. lines[at(i)] = lines[at(j)] /\ at(i) \in first /\ at(j) \in first
    BY <1>6, <1>8, <1>11
  <2>2. at(i) = at(j)
    BY <1>2, <1>3, <2>1, FirstFacts
  <2>3. place(at(i)) = i /\ place(at(j)) = j
    BY <1>6, <1>8
  <2> QED
    BY <2>2, <2>3
<1>12. ASSUME NEW i \in DOMAIN m, NEW j \in DOMAIN m, i < j
       PROVE  m[i].ts <= m[j].ts
  <2>1. at(i) \in first /\ at(j) \in first /\ place(at(i)) = i /\ place(at(j)) = j
    BY <1>6, <1>8
  <2>2. i \in Nat /\ j \in Nat
    BY <1>5, <1>8
  <2>3. ~(<<at(j), at(i)>> \in Before(lines))
    BY <1>5, <1>12, <2>1, <2>2
  <2>4. ~(lines[at(j)].ts < lines[at(i)].ts)
    BY <1>3, <2>1, <2>3 DEF Before
  <2> QED
    BY <1>7, <1>8, <2>1, <2>4
<1>13. ToSet(m) = {l \in ToSet(o) \cup ToSet(t) : ~l.torn}
  BY <1>9, <1>10
<1>14. /\ m \in Seq(Line)
       /\ ToSet(m) = {l \in ToSet(o) \cup ToSet(t) : ~l.torn}
       /\ \A i, j \in DOMAIN m : m[i] = m[j] => i = j
       /\ \A i, j \in DOMAIN m : i < j => m[i].ts <= m[j].ts
  BY <1>8, <1>11, <1>12, <1>13
<1> QED
  BY <1>14 DEF m

-----------------------------------------------------------------------------
(* The logs of the clones.                                                 *)

Untorn(log) == {l \in ToSet(log) : ~l.torn}

Ordered(log) == \A i, j \in DOMAIN log : i < j => log[i].ts <= log[j].ts

Once(log) == \A i, j \in DOMAIN log : log[i] = log[j] /\ ~log[i].torn => i = j

\* No line is of an edit or of a time that is still to come.
Past(log) == \A i \in DOMAIN log : log[i].ts <= clock /\ log[i].n <= edits

GoodLog(log) == log \in Seq(Line) /\ Ordered(log) /\ Once(log) /\ Past(log)

\* What was there at the last common version is there on either side.
Logs ==
  /\ side \in [Clones -> Commit]
  /\ base \in Commit
  /\ \A c \in Clones : GoodLog(side[c].log) /\ Untorn(base.log) \subseteq Untorn(side[c].log)

LEMMA LinesOf ==
  ASSUME NEW log \in Seq(Line)
  PROVE  /\ DOMAIN log = 1 .. Len(log) /\ Len(log) \in Nat
         /\ \A i \in DOMAIN log : log[i] \in Line /\ i \in Nat
         /\ \A l \in ToSet(log) : l \in Line
BY DEF ToSet

\* A log stays good when an edit adds its line.
LEMMA AppendedLog ==
  ASSUME NEW log \in Seq(Line), Ordered(log), Once(log), NEW l \in Line,
         \A i \in DOMAIN log : log[i].ts <= l.ts /\ log[i].n < l.n
  PROVE  LET m == Append(log, l) IN
         /\ m \in Seq(Line) /\ Ordered(m) /\ Once(m)
         /\ \A i \in DOMAIN m : m[i].ts <= l.ts /\ m[i].n <= l.n
         /\ Untorn(log) \subseteq Untorn(m)
<1> DEFINE m == Append(log, l)
<1>1. /\ m \in Seq(Line) /\ DOMAIN m = 1 .. (Len(log) + 1)
      /\ DOMAIN log = 1 .. Len(log) /\ Len(log) \in Nat
      /\ \A i \in DOMAIN log : m[i] = log[i] /\ log[i] \in Line
      /\ m[Len(log) + 1] = l
  OBVIOUS
<1>2. \A i \in DOMAIN m : i \in DOMAIN log \/ (i = Len(log) + 1 /\ m[i] = l)
  BY <1>1
<1>3. /\ l.ts \in Nat /\ l.n \in Nat
      /\ \A i \in DOMAIN log : log[i].ts \in Nat /\ log[i].n \in Nat
  BY <1>1, LineFields
<1> HIDE DEF m
<1>4. \A i \in DOMAIN m : m[i].ts <= l.ts /\ m[i].n <= l.n
  BY <1>1, <1>2, <1>3
<1>5. Ordered(m)
  <2> SUFFICES ASSUME NEW i \in DOMAIN m, NEW j \in DOMAIN m, i < j
               PROVE  m[i].ts <= m[j].ts
    BY DEF Ordered
  <2>1. CASE j \in DOMAIN log
    <3>1. i \in DOMAIN log
      BY <1>1, <1>2, <2>1
    <3> QED
      BY <1>1, <2>1, <3>1 DEF Ordered
  <2>2. CASE m[j] = l
    BY <1>4, <2>2
  <2> QED
    BY <1>2, <2>1, <2>2
<1>6. Once(m)
  <2> SUFFICES ASSUME NEW i \in DOMAIN m, NEW j \in DOMAIN m, m[i] = m[j], ~m[i].torn
               PROVE  i = j
    BY DEF Once
  <2>1. CASE i \in DOMAIN log /\ j \in DOMAIN log
    BY <1>1, <2>1 DEF Once
  <2>2. ASSUME NEW x \in DOMAIN log
        PROVE  m[x] # l
    <3>1. log[x].n < l.n /\ log[x].n \in Nat /\ m[x] = log[x]
      BY <1>1, <1>3
    <3> QED
      BY <1>3, <3>1
  <2> QED
    BY <1>2, <2>1, <2>2
<1>7. Untorn(log) \subseteq Untorn(m)
  <2> SUFFICES ASSUME NEW x \in ToSet(log)
               PROVE  x \in ToSet(m)
    BY DEF Untorn
  <2>1. PICK i \in DOMAIN log : x = log[i]
    BY DEF ToSet
  <2> QED
    BY <1>1, <2>1 DEF ToSet
<1>8. /\ m \in Seq(Line) /\ Ordered(m) /\ Once(m)
      /\ \A i \in DOMAIN m : m[i].ts <= l.ts /\ m[i].n <= l.n
      /\ Untorn(log) \subseteq Untorn(m)
  BY <1>1, <1>4, <1>5, <1>6, <1>7
<1> QED
  BY <1>8 DEF m

\* What git makes of two good logs is a good log with the lines of both.
LEMMA GitLog ==
  ASSUME NEW b \in Seq(Line), NEW o, NEW t, GoodLog(o), GoodLog(t),
         Untorn(b) \subseteq Untorn(o), Untorn(b) \subseteq Untorn(t)
  PROVE  LET g == Git(b, o, t, MergeActivity(o, t)) IN
         GoodLog(g) /\ Untorn(g) = Untorn(o) \cup Untorn(t)
<1>1. CASE o = b
  BY <1>1, GitTakes
<1>2. CASE t = b
  BY <1>2, GitTakes
<1>3. CASE o = t
  BY <1>3, GitTakes
<1>4. CASE o # b /\ t # b /\ o # t
  <2> DEFINE m == MergeActivity(o, t)
  <2>1. o \in Seq(Line) /\ t \in Seq(Line) /\ Past(o) /\ Past(t)
    BY DEF GoodLog
  <2>2. /\ m \in Seq(Line)
        /\ ToSet(m) = {l \in ToSet(o) \cup ToSet(t) : ~l.torn}
        /\ \A i, j \in DOMAIN m : m[i] = m[j] => i = j
        /\ \A i, j \in DOMAIN m : i < j => m[i].ts <= m[j].ts
    BY <2>1, MergedLog
  <2> HIDE DEF m
  <2>3. Ordered(m) /\ Once(m)
    BY <2>2 DEF Ordered, Once
  <2>4. Past(m)
    <3> SUFFICES ASSUME NEW i \in DOMAIN m
                 PROVE  m[i].ts <= clock /\ m[i].n <= edits
      BY DEF Past
    <3>1. m[i] \in ToSet(o) \cup ToSet(t)
      BY <2>2 DEF ToSet
    <3>2. (\E j \in DOMAIN o : m[i] = o[j]) \/ (\E j \in DOMAIN t : m[i] = t[j])
      BY <3>1 DEF ToSet
    <3> QED
      BY <2>1, <3>2 DEF Past
  <2>5. Untorn(m) = Untorn(o) \cup Untorn(t)
    BY <2>2 DEF Untorn
  <2>6. Git(b, o, t, m) = m
    BY <1>4, GitTakes
  <2>7. GoodLog(m)
    BY <2>2, <2>3, <2>4 DEF GoodLog
  <2> QED
    BY <2>5, <2>6, <2>7 DEF m
<1> QED
  BY <1>1, <1>2, <1>3, <1>4

LEMMA LogsInit == Ticks /\ Init => Logs
<1> SUFFICES ASSUME Ticks, Init PROVE Logs
  OBVIOUS
<1>1. base.log = <<>> /\ base \in Commit
  BY DEF Init, Ticks, Commit
<1>2. side = [c \in Clones |-> base]
  BY DEF Init
<1>3. GoodLog(<<>>)
  BY DEF GoodLog, Ordered, Once, Past
<1> QED
  BY <1>1, <1>2, <1>3 DEF Logs

LEMMA LogsStep == Ticks /\ Ticks' /\ Logs /\ [Next]_vars => Logs'
<1> SUFFICES ASSUME Ticks, Ticks', Logs, [Next]_vars
             PROVE  Logs'
  OBVIOUS
<1>0. /\ clock \in Nat /\ edits \in Nat
      /\ \A c \in Clones : side[c].log \in Seq(Line) /\ base.log \in Seq(Line)
      /\ \A c \in Clones : side[c] \in Commit /\ side[c].tick \in Tick
  BY DEF Ticks, Logs, Commit
<1>1. CASE UNCHANGED vars
  BY <1>1 DEF Logs, GoodLog, Past, vars
<1>2. ASSUME NEW c \in Clones, Edit(c)
      PROVE  Logs'
  <2>1. PICK now \in {clock, clock + 1} \ {0}, torn \in BOOLEAN :
          \E t \in Edited(side[c].tick, edits + 1, now)
                     \cup (IF now > clock THEN {Closed(side[c].tick, now)} ELSE {}) :
            /\ edits < MaxEdits
            /\ edits' = edits + 1
            /\ clock' = now
            /\ side' = [side EXCEPT ![c] =
                          [tick |-> t, log |-> Append(@.log, [ts |-> now, n |-> edits', torn |-> torn])]]
            /\ UNCHANGED <<base, drivers>>
    BY <1>2 DEF Edit
  <2> DEFINE l == [ts |-> now, n |-> edits + 1, torn |-> torn]
  <2>2. PICK t : /\ edits' = edits + 1 /\ clock' = now
                 /\ edits < MaxEdits
                 /\ side' = [side EXCEPT ![c] = [tick |-> t, log |-> Append(side[c].log, l)]]
                 /\ base' = base
    BY <2>1
  <2>3. now \in Nat /\ clock <= now /\ now \in Number /\ edits + 1 \in Number
    <3>1. clock <= edits
      BY DEF Ticks
    <3> QED
      BY <1>0, <2>2, <3>1, MergeAssumption DEF Number
  <2>4. l \in Line /\ l.ts = clock' /\ l.n = edits'
    BY <2>2, <2>3 DEF Line
  <2>5. DOMAIN side = Clones
    BY DEF Ticks
  <2>6. /\ side'[c] = [tick |-> t, log |-> Append(side[c].log, l)]
        /\ \A d \in Clones : d # c => side'[d] = side[d]
        /\ DOMAIN side' = Clones /\ side' = [d \in Clones |-> side'[d]]
    BY <2>2, <2>5
  <2> HIDE DEF l
  <2>7. t \in Tick
    BY <2>6 DEF Ticks
  <2>8. GoodLog(side[c].log) /\ Untorn(base.log) \subseteq Untorn(side[c].log)
    BY DEF Logs
  <2>9. \A i \in DOMAIN side[c].log : side[c].log[i].ts <= l.ts /\ side[c].log[i].n < l.n
    <3> SUFFICES ASSUME NEW i \in DOMAIN side[c].log
                 PROVE  side[c].log[i].ts <= l.ts /\ side[c].log[i].n < l.n
      OBVIOUS
    <3>1. side[c].log[i].ts <= clock /\ side[c].log[i].n <= edits
      BY <2>8 DEF GoodLog, Past
    <3>2. side[c].log[i].ts \in Nat /\ side[c].log[i].n \in Nat
      BY <1>0, LinesOf, LineFields
    <3> QED
      BY <1>0, <2>2, <2>3, <2>4, <3>1, <3>2
  <2>10. LET m == Append(side[c].log, l) IN
         /\ m \in Seq(Line) /\ Ordered(m) /\ Once(m)
         /\ \A i \in DOMAIN m : m[i].ts <= l.ts /\ m[i].n <= l.n
         /\ Untorn(side[c].log) \subseteq Untorn(m)
    BY <1>0, <2>4, <2>8, <2>9, AppendedLog DEF GoodLog
  <2>11. side'[c].log = Append(side[c].log, l) /\ side'[c] \in Commit
    BY <2>6, <2>7, <2>10 DEF Commit
  <2>12. GoodLog(side[c].log)'
    BY <2>4, <2>10, <2>11 DEF GoodLog, Past
  <2>13. ASSUME NEW d \in Clones, d # c
         PROVE  GoodLog(side[d].log)'
    <3>1. GoodLog(side[d].log) /\ side'[d] = side[d]
      BY <2>6, <2>13 DEF Logs
    <3>2. \A i \in DOMAIN side[d].log : side[d].log[i].ts \in Nat /\ side[d].log[i].n \in Nat
      BY <1>0, LinesOf, LineFields
    <3>3. \A i \in DOMAIN side[d].log : side[d].log[i].ts <= clock' /\ side[d].log[i].n <= edits'
      BY <1>0, <2>2, <2>3, <3>1, <3>2 DEF GoodLog, Past
    <3> QED
      BY <3>1, <3>3 DEF GoodLog, Past
  <2>14. \A d \in Clones : side'[d] \in Commit /\ GoodLog(side[d].log)'
    BY <1>0, <2>6, <2>11, <2>12, <2>13
  <2>15. \A d \in Clones : Untorn(base'.log) \subseteq Untorn(side'[d].log)
    <3>1. \A d \in Clones : Untorn(base.log) \subseteq Untorn(side[d].log)
      BY DEF Logs
    <3> QED
      BY <2>2, <2>6, <2>10, <2>11, <3>1
  <2>16. side' \in [Clones -> Commit]
    BY <2>6, <2>14
  <2>17. base' \in Commit
    BY <2>2 DEF Logs
  <2> QED
    BY <2>14, <2>15, <2>16, <2>17 DEF Logs
<1>3. ASSUME NEW c \in Clones, CheckAndInstall(c)
      PROVE  Logs'
  BY <1>3 DEF CheckAndInstall, Logs, GoodLog, Past
<1>4. ASSUME NEW c \in Clones, GitMerge(c)
      PROVE  Logs'
  <2> DEFINE b == base.log
             o == side[c].log
             t == side[Other(c)].log
             g == Git(b, o, t, MergeActivity(o, t))
  <2>1. /\ Other(c) \in Clones /\ Other(c) # c
        /\ \A d \in Clones : d = c \/ d = Other(c)
    BY TwoClones
  <2>2. /\ b \in Seq(Line) /\ GoodLog(o) /\ GoodLog(t)
        /\ Untorn(b) \subseteq Untorn(o) /\ Untorn(b) \subseteq Untorn(t)
    BY <1>0, <2>1 DEF Logs
  <2>3. GoodLog(g) /\ Untorn(g) = Untorn(o) \cup Untorn(t)
    BY <2>2, GitLog
  <2>4. PICK x : side' = [side EXCEPT ![c] = [tick |-> x, log |-> g]]
    BY <1>4 DEF GitMerge
  <2>5. base' = side[Other(c)] /\ clock' = clock /\ edits' = edits
    BY <1>4 DEF GitMerge
  <2>6. DOMAIN side = Clones
    BY DEF Ticks
  <2>7. /\ side'[c] = [tick |-> x, log |-> g]
        /\ \A d \in Clones : d # c => side'[d] = side[d]
        /\ DOMAIN side' = Clones /\ side' = [d \in Clones |-> side'[d]]
    BY <2>4, <2>6
  <2>8. base'.log = t /\ side'[Other(c)].log = t /\ side'[c].log = g
    BY <2>1, <2>5, <2>7
  <2> HIDE DEF b, o, t, g
  <2>9. x \in Tick
    BY <2>7 DEF Ticks
  <2>10. side'[c] \in Commit
    BY <2>3, <2>7, <2>9 DEF Commit, GoodLog
  <2>11. GoodLog(side[c].log)' /\ GoodLog(side[Other(c)].log)'
    BY <2>2, <2>3, <2>5, <2>8 DEF GoodLog, Past
  <2>12. \A d \in Clones : side'[d] \in Commit /\ GoodLog(side[d].log)'
    BY <1>0, <2>1, <2>7, <2>10, <2>11
  <2>13. side' \in [Clones -> Commit]
    BY <2>7, <2>12
  <2>14. base' \in Commit
    BY <1>0, <2>1, <2>5
  <2>15. \A d \in Clones : Untorn(base'.log) \subseteq Untorn(side'[d].log)
    BY <2>1, <2>3, <2>8
  <2> QED
    BY <2>12, <2>13, <2>14, <2>15 DEF Logs
<1> QED
  BY <1>1, <1>2, <1>3, <1>4 DEF Next

LEMMA LogsAlways == Spec => []Logs
BY TicksInit, TicksStep, LogsInit, LogsStep, TicksAlways, PTL DEF Spec

\* Every version of the tick is one a merge accepts, and a closed tick has the
\* time of its closing, whatever the clones edit, merge and install.
THEOREM AlwaysCoherent == Spec => []Coherent
<1>1. Ticks /\ Logs /\ Inst => TypeOK
  <2>1. Ticks => edits \in Number /\ clock \in Number
    BY MergeAssumption DEF Ticks, Number
  <2> QED
    BY <2>1 DEF TypeOK, Logs, Inst
<1> QED
  BY <1>1, TicksAlways, LogsAlways, InstAlways, ClosedAlwaysHasTime, PTL DEF Coherent

\* At any time it does not matter who merges: both directions agree on the tick
\* and on the lines of the log.
THEOREM AlwaysOrderFree == Spec => []OrderFree
<1>1. Logs => LogsAgree
  <2> SUFFICES ASSUME Logs, NEW c \in Clones
               PROVE  ToSet(MergeActivity(side[c].log, side[Other(c)].log))
                        = ToSet(MergeActivity(side[Other(c)].log, side[c].log))
    BY DEF LogsAgree
  <2> DEFINE o == side[c].log
             t == side[Other(c)].log
  <2>1. o \in Seq(Line) /\ t \in Seq(Line)
    BY TwoClones DEF Logs, GoodLog
  <2>2. /\ ToSet(MergeActivity(o, t)) = {l \in ToSet(o) \cup ToSet(t) : ~l.torn}
        /\ ToSet(MergeActivity(t, o)) = {l \in ToSet(t) \cup ToSet(o) : ~l.torn}
    BY <2>1, MergedLog
  <2> QED
    BY <2>2
<1> QED
  BY <1>1, LogsAlways, TicksAlwaysAgree, PTL DEF OrderFree

\* A line that parses is in a log that has it in one place.
LEMMA OneOfEach ==
  ASSUME NEW m \in Seq(Line), Once(m), NEW l \in Untorn(m)
  PROVE  Cardinality({i \in DOMAIN m : m[i] = l}) = 1
<1>1. PICK i \in DOMAIN m : m[i] = l
  BY DEF Untorn, ToSet
<1>2. ~l.torn
  BY DEF Untorn
<1>3. {j \in DOMAIN m : m[j] = l} = {i}
  BY <1>1, <1>2 DEF Once
<1> QED
  BY <1>3, FS_Singleton

\* No merge loses what either side did: to the tick, and to its log.
THEOREM MergesKeepBoth == Spec => KeepsBoth
<1>1. Ticks /\ Ticks' /\ Logs /\ Logs' /\ [Next]_vars
        => [\A c \in Clones : Merged(c) => KeepsLogs(c)]_vars
  <2> SUFFICES ASSUME Ticks, Logs, Logs', Next, NEW c \in Clones, Merged(c)
               PROVE  KeepsLogs(c)
    OBVIOUS
  <2> DEFINE o == side[c].log
             t == side[Other(c)].log
             m == side'[c].log
  <2>1. base # base' /\ base' = side[Other(c)]
    BY DEF Merged
  <2>2. PICK d \in Clones : GitMerge(d)
    BY <2>1 DEF Next, Edit, CheckAndInstall
  <2>3. Untorn(m) = Untorn(o) \cup Untorn(t)
    <3>1. CASE d = c
      <4>1. m = Git(base.log, o, t, MergeActivity(o, t))
        BY <2>2, <3>1 DEF GitMerge, Ticks
      <4>2. /\ base.log \in Seq(Line) /\ GoodLog(o) /\ GoodLog(t)
            /\ Untorn(base.log) \subseteq Untorn(o) /\ Untorn(base.log) \subseteq Untorn(t)
        BY TwoClones DEF Logs, Commit
      <4> QED
        BY <4>1, <4>2, GitLog
    <3>2. CASE d # c
      <4>1. Other(d) = c
        BY <3>2, TwoClones
      <4>2. side'[c] = side[c] /\ side[c] = side[Other(c)]
        BY <2>1, <2>2, <3>2, <4>1, MergeStep
      <4> QED
        BY <4>2
    <3> QED
      BY <3>1, <3>2
  <2>4. m \in Seq(Line) /\ Ordered(m) /\ Once(m)
    BY DEF Logs, GoodLog
  <2> HIDE DEF o, t, m
  <2>5. \A l \in ToSet(o) \cup ToSet(t) : ~l.torn => Cardinality({i \in DOMAIN m : m[i] = l}) = 1
    <3> SUFFICES ASSUME NEW l \in ToSet(o) \cup ToSet(t), ~l.torn
                 PROVE  Cardinality({i \in DOMAIN m : m[i] = l}) = 1
      OBVIOUS
    <3>1. l \in Untorn(m)
      BY <2>3 DEF Untorn
    <3> QED
      BY <2>4, <3>1, OneOfEach
  <2> QED
    BY <2>4, <2>5 DEF KeepsLogs, Ordered, o, t, m
<1>2. [\A c \in Clones : Merged(c) => KeepsTicks(c)]_vars
        /\ [\A c \in Clones : Merged(c) => KeepsLogs(c)]_vars
        => [\A c \in Clones : Merged(c) => KeepsTicks(c) /\ KeepsLogs(c)]_vars
  OBVIOUS
<1> QED
  BY <1>1, <1>2, TicksAlways, LogsAlways, MergesKeepTicks, PTL DEF Spec, KeepsBoth
=============================================================================
