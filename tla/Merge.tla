-------------------------------- MODULE Merge --------------------------------
(***************************************************************************)
(* The git merge drivers (internal/merge, tk merge-file, tk merge-activity,*)
(* internal/github/git.go).  Two clones of a repository edit the same tick *)
(* and append to the same activity log; git merges the other's commit into *)
(* a clone and calls tk for every file that both have changed since their  *)
(* last common version.                                                    *)
(*                                                                         *)
(* title stands for every field without a rule of its own, labels for the  *)
(* three lists that are sets, extra for a key of the file that this tk     *)
(* does not know.  A value that an edit writes is the number of the edit.  *)
(*                                                                         *)
(* A definition named Def_Change is a faulty variant of the Def below it.  *)
(***************************************************************************)
EXTENDS Naturals, SequencesExt

CONSTANTS
  Clones,         \* the two clones
  Labels,
  MaxEdits        \* bound: edits made

ASSUME MergeAssumption ==
  /\ \E c, d \in Clones : c # d /\ Clones = {c, d}
  /\ MaxEdits \in Nat

VARIABLES
  side,       \* side[c]: what clone c has committed, the tick and the log
  base,       \* the last version both clones have seen
  drivers,    \* drivers[c]: the merge drivers in the git config of clone c
  edits,      \* how many edits there were
  clock

vars == <<side, base, drivers, edits, clock>>

Other(c) == CHOOSE d \in Clones : d # c

Status == {"open", "in_progress", "closed"}
Number == 0 .. MaxEdits     \* 0: absent, empty, or as it was at the start

Tick == [title : Number, status : Status, priority : 0 .. 4, closedAt : Number,
         labels : SUBSET Labels, notes : Seq(Number), updatedAt : Number, extra : Number]

\* A line of the log: its time and its edit; a torn one does not parse.
Line == [ts : Number, n : Number, torn : BOOLEAN]

Commit == [tick : Tick, log : Seq(Line)]

Blank == [title |-> 0, status |-> "open", priority |-> 2, closedAt |-> 0, labels |-> {},
          notes |-> <<>>, updatedAt |-> 0, extra |-> 0]

Driver == {"tick", "activity"}

\* Clones of before the activity log was merged have the one driver only.
Init ==
  /\ base = [tick |-> [Blank EXCEPT !.labels = Labels], log |-> <<>>]
  /\ side = [c \in Clones |-> base]
  /\ drivers \in [Clones -> {{}, {"tick"}}]
  /\ edits = 0 /\ clock = 0

-----------------------------------------------------------------------------
(***************************************************************************)
(* Merge (merge.go): field by field.                                       *)
(***************************************************************************)
ThreeWay_Ours(b, o, t, both) == IF o = b THEN o ELSE IF t = b \/ o = t THEN o ELSE both
ThreeWay(b, o, t, both) ==
  CASE o = b          -> t
    [] o # b /\ (t = b \/ o = t) -> o
    [] OTHER          -> both

Rank == [open |-> 1, in_progress |-> 2, closed |-> 3]
MergeStatus(o, t) == IF Rank[t] > Rank[o] THEN t ELSE o

MergePriority(o, t) == IF o < t THEN o ELSE t

MergeSet(b, o, t) == (b \cap o \cap t) \cup (o \ b) \cup (t \ b)

Marker == 0     \* the line between the notes of the two sides
MergeNotes(o, t) ==
  IF o = <<>> THEN t ELSE IF t = <<>> THEN o ELSE o \o <<Marker>> \o t

Latest(o, t) == IF t > o THEN t ELSE o

MergeTick_OursWins(b, o, t) ==
  [title     |-> ThreeWay(b.title, o.title, t.title, o.title),
   status    |-> ThreeWay(b.status, o.status, t.status, MergeStatus(o.status, t.status)),
   priority  |-> ThreeWay(b.priority, o.priority, t.priority,
                          MergePriority(o.priority, t.priority)),
   closedAt  |-> ThreeWay(b.closedAt, o.closedAt, t.closedAt, Latest(o.closedAt, t.closedAt)),
   labels    |-> ThreeWay(b.labels, o.labels, t.labels,
                          MergeSet(b.labels, o.labels, t.labels)),
   notes     |-> ThreeWay(b.notes, o.notes, t.notes, MergeNotes(o.notes, t.notes)),
   updatedAt |-> Latest(o.updatedAt, t.updatedAt),
   extra     |-> IF o.extra = b.extra THEN t.extra ELSE o.extra]

MergeTick(b, o, t) ==
  [title     |-> ThreeWay(b.title, o.title, t.title,
                          IF t.updatedAt > o.updatedAt THEN t.title ELSE o.title),
   status    |-> ThreeWay(b.status, o.status, t.status, MergeStatus(o.status, t.status)),
   priority  |-> ThreeWay(b.priority, o.priority, t.priority,
                          MergePriority(o.priority, t.priority)),
   closedAt  |-> ThreeWay(b.closedAt, o.closedAt, t.closedAt, Latest(o.closedAt, t.closedAt)),
   labels    |-> ThreeWay(b.labels, o.labels, t.labels,
                          MergeSet(b.labels, o.labels, t.labels)),
   notes     |-> ThreeWay(b.notes, o.notes, t.notes, MergeNotes(o.notes, t.notes)),
   updatedAt |-> Latest(o.updatedAt, t.updatedAt),
   extra     |-> IF o.extra = b.extra THEN t.extra ELSE o.extra]    \* mergeUnknownKeys

(***************************************************************************)
(* MergeActivity (activity.go): of the lines of both logs that parse, the  *)
(* first of every key, by time, and as they came where the time is one.    *)
(***************************************************************************)
Parse(log) == {i \in DOMAIN log : ~log[i].torn}

Key_NoData(line) == line.ts
Key(line) == <<line.ts, line.n>>

MergeActivity(current, other) ==
  LET lines == current \o other
      first == {i \in Parse(lines) : \A j \in Parse(lines) : j < i => Key(lines[j]) # Key(lines[i])}
      before(i, j) == lines[i].ts < lines[j].ts \/ (lines[i].ts = lines[j].ts /\ i < j)
      place(i) == Cardinality({j \in first : before(j, i)}) + 1
  IN [k \in 1 .. Cardinality(first) |-> lines[CHOOSE i \in first : place(i) = k]]

\* Git asks a driver only when both sides changed the file, differently.
Git(b, o, t, merged) == IF o = b THEN t ELSE IF t = b \/ o = t THEN o ELSE merged

-----------------------------------------------------------------------------
(***************************************************************************)
(* Edits.  Every command but one of a newer tk writes the file without the *)
(* key it does not know.                                                   *)
(***************************************************************************)
Edited(old, n, now) ==
  LET t == [old EXCEPT !.updatedAt = now, !.extra = 0] IN
  {[t EXCEPT !.title = n], [t EXCEPT !.extra = n],
   [t EXCEPT !.notes = Append(@, n)], [t EXCEPT !.notes = <<n>>]}
  \cup {[t EXCEPT !.priority = p] : p \in {0, 3}}
  \cup {[t EXCEPT !.labels = s] : s \in {old.labels \cup {l} : l \in Labels}
                                       \cup {old.labels \ {l} : l \in Labels}}
  \cup {[t EXCEPT !.status = s, !.closedAt = 0] : s \in {"open", "in_progress"}}

\* Also of a tick that is closed: tk update does not look.
Closed(old, now) ==
  [old EXCEPT !.updatedAt = now, !.extra = 0, !.status = "closed", !.closedAt = now]

\* A command in clone c.  Two commands may carry the same time, but no tick is
\* closed at a time that was used before: closed_at counts nanoseconds, and the
\* clocks of the clones agree.
Edit(c) ==
  \E now \in {clock, clock + 1} \ {0}, torn \in BOOLEAN :
    \E t \in Edited(side[c].tick, edits + 1, now)
               \cup (IF now > clock THEN {Closed(side[c].tick, now)} ELSE {}) :
      /\ edits < MaxEdits
      /\ edits' = edits + 1
      /\ clock' = now
      /\ side' = [side EXCEPT ![c] =
                    [tick |-> t, log |-> Append(@.log, [ts |-> now, n |-> edits', torn |-> torn])]]
      /\ UNCHANGED <<base, drivers>>

(***************************************************************************)
(* Every command first looks for the drivers in the git config: for the    *)
(* one it writes last.  It writes one and then the other, and may die      *)
(* between; tk init writes them without looking.                           *)
(***************************************************************************)
Order_Swapped == <<"activity", "tick">>
Order == <<"tick", "activity">>

Install(c) ==
  \/ "activity" \notin drivers[c] /\ drivers' = [drivers EXCEPT ![c] = @ \cup {Order[1]}]
  \/ Order[1] \in drivers[c] /\ "activity" \notin drivers[c]
       /\ drivers' = [drivers EXCEPT ![c] = @ \cup {Order[2]}]

CheckAndInstall(c) == Install(c) /\ UNCHANGED <<side, base, edits, clock>>

\* git merge, in a clone that has the drivers.  From now on what the other
\* clone has is the version both have seen.
GitMerge(c) ==
  LET o == side[c]
      t == side[Other(c)]
      b == base
  IN
  /\ drivers[c] = Driver
  /\ base # t
  /\ base' = t
  /\ side' = [side EXCEPT ![c] =
                [tick |-> Git(b.tick, o.tick, t.tick, MergeTick(b.tick, o.tick, t.tick)),
                 log  |-> Git(b.log, o.log, t.log, MergeActivity(o.log, t.log))]]
  /\ UNCHANGED <<drivers, edits, clock>>

Next == \E c \in Clones : Edit(c) \/ CheckAndInstall(c) \/ GitMerge(c)

Spec == Init /\ [][Next]_vars

\* The clones are alike.
Alike == Permutations(Clones)

-----------------------------------------------------------------------------
(***************************************************************************)
(* Properties.                                                             *)
(***************************************************************************)
TypeOK ==
  /\ side \in [Clones -> Commit]
  /\ base \in Commit
  /\ drivers \in [Clones -> SUBSET Driver]
  /\ edits \in Number /\ clock \in Number

\* Whatever the clones do, every version of the tick is one a merge accepts,
\* and a closed tick has the time of its closing: fields that are merged apart
\* (status, closed_at) do not fall apart.
ClosedHasTime ==
  \A c \in Clones : side[c].tick.status = "closed" => side[c].tick.closedAt # 0

Coherent == TypeOK /\ ClosedHasTime

\* It does not matter who merges: both directions agree on the tick but for the
\* order of notes and the keys tk does not know, and on the lines of the log.
SameTick(x, y) ==
  /\ \A f \in {"title", "status", "priority", "closedAt", "labels", "updatedAt"} : x[f] = y[f]
  /\ ToSet(x.notes) = ToSet(y.notes)

TicksAgree ==
  \A c \in Clones :
    LET o == side[c].tick
        t == side[Other(c)].tick
    IN o.updatedAt # t.updatedAt =>
         SameTick(MergeTick(base.tick, o, t), MergeTick(base.tick, t, o))

LogsAgree ==
  \A c \in Clones :
    LET o == side[c].log
        t == side[Other(c)].log
    IN ToSet(MergeActivity(o, t)) = ToSet(MergeActivity(t, o))

OrderFree == TicksAgree /\ LogsAgree

\* Nothing that either side did since the common version is lost in a merge: a
\* field one side changed keeps that change, a label added is there, one removed
\* is gone, a close wins, every note of two different texts is there, and so is
\* every line of either log, once, in the order of time.
Kept(b, o, t, m) ==
  /\ \A f \in {"title", "status", "priority", "closedAt", "labels", "notes", "extra"} :
       /\ o[f] = b[f] => m[f] = t[f]
       /\ t[f] = b[f] => m[f] = o[f]
  /\ ((o.labels \cup t.labels) \ b.labels) \subseteq m.labels
  /\ m.labels \cap ((b.labels \ o.labels) \cup (b.labels \ t.labels)) = {}
  /\ b.status # "closed" /\ "closed" \in {o.status, t.status} => m.status = "closed"
  /\ o.notes # b.notes /\ t.notes # b.notes => ToSet(o.notes) \cup ToSet(t.notes) \subseteq ToSet(m.notes)

Merged(c) == base # base' /\ base' = side[Other(c)] /\ \A d \in Clones : side[d] # base

KeepsTicks(c) == Kept(base.tick, side[c].tick, side[Other(c)].tick, side'[c].tick)

KeepsLogs(c) ==
  LET m == side'[c].log IN
  /\ \A l \in ToSet(side[c].log) \cup ToSet(side[Other(c)].log) :
       ~l.torn => Cardinality({i \in DOMAIN m : m[i] = l}) = 1
  /\ \A i, j \in DOMAIN m : i < j => m[i].ts <= m[j].ts

KeepsBoth == [][\A c \in Clones : Merged(c) => KeepsTicks(c) /\ KeepsLogs(c)]_vars

\* A clone in which the look finds the drivers has both of them, wherever an
\* earlier command died: it is never left with one for good.
FoundIsWhole == \A c \in Clones : "activity" \in drivers[c] => drivers[c] = Driver
=============================================================================
