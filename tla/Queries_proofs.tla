---------------------------- MODULE Queries_proofs ----------------------------
(***************************************************************************)
(* Theorems about Queries, for any set of ids, any owners and trackers of  *)
(* any shape: loops of parents and blockers, dangling references and all.  *)
(***************************************************************************)
EXTENDS Queries, FiniteSetTheorems, WellFoundedInduction, TLAPS

-----------------------------------------------------------------------------
\* A set of numbers has a least one: what stands in for induction throughout.
LEMMA LeastNumber ==
  ASSUME NEW S, S \subseteq Nat, S # {}
  PROVE  \E x \in S : \A y \in S : x <= y
<1> DEFINE R == {ss \in Nat \X Nat : ss[1] < ss[2]}
<1>1. IsWellFoundedOn(R, Nat)
  BY NatLessThanWellFounded, Zenon DEF OpToRel
<1>2. \A x, y \in Nat : <<x, y>> \in R <=> x < y
  OBVIOUS
<1> HIDE DEF R
<1>3. PICK x \in S : \A y \in S : ~ (<<y, x>> \in R)
  BY <1>1, WFMin
<1>4. \A y \in S : ~(y < x)
  BY <1>2, <1>3
<1>5. \A y \in S : x <= y
  BY <1>4
<1> QED
  BY <1>5

-----------------------------------------------------------------------------
(***************************************************************************)
(* Types.                                                                  *)
(***************************************************************************)

Typed == ticks \in [Ticks -> TickFile] /\ Ticks \subseteq Ids

LEMMA Fields ==
  ASSUME Typed, NEW i \in Ticks
  PROVE  /\ i \in Nat /\ i # 0 /\ i \in Ids
         /\ ticks[i] \in TickFile
         /\ ticks[i].status \in {"open", "in_progress", "closed"}
         /\ ticks[i].type \in {"task", "epic"}
         /\ ticks[i].role \in {None, "review", "closeout"}
         /\ ticks[i].parent \in Ids \cup {Root}
         /\ ticks[i].after \subseteq Ids /\ ticks[i].blockedBy \subseteq Ids
         /\ ticks[i].owner \in Owners
         /\ ticks[i].deferred \in BOOLEAN /\ ticks[i].requires \in BOOLEAN
         /\ ticks[i].priority \in {1, 2}
<1>1. ticks[i] \in TickFile /\ i \in Ids
  BY DEF Typed
<1>2. i \in Nat /\ i # 0
  BY <1>1, QueriesAssumption
<1> QED
  BY <1>1, <1>2 DEF TickFile, Values

LEMMA WriteTyped ==
  ASSUME Typed, NEW new, DOMAIN new \subseteq Ids, new \in [DOMAIN new -> TickFile], Write(new)
  PROVE  Typed'
  BY DEF Typed, Write, Ticks

LEMMA UpdateTyped ==
  ASSUME Typed, NEW i \in Ticks, Update(i)
  PROVE  Typed'
<1>1. PICK f \in DOMAIN Values : \E v \in Values[f] :
        Edit([ticks EXCEPT ![i] = [@ EXCEPT ![f] = v]])
  BY DEF Update
<1>2. PICK v \in Values[f] : Edit([ticks EXCEPT ![i] = [@ EXCEPT ![f] = v]])
  BY <1>1
<1> DEFINE t == [ticks[i] EXCEPT ![f] = v]
           new == [ticks EXCEPT ![i] = t]
<1>3. f \in {"status", "type", "role", "parent", "after", "owner", "awaiting", "requires",
             "deferred", "due", "priority"}
  BY DEF Values
<1>4. ticks[i] \in TickFile
  BY Fields
<1>5. t \in TickFile
  <2>1. ASSUME NEW g \in {"status", "type", "role", "parent", "after", "owner", "awaiting",
                          "requires", "deferred", "due", "priority"}, f = g
        PROVE  [ticks[i] EXCEPT ![g] = v] \in TickFile
    BY <1>2, <1>4, <2>1 DEF TickFile
  <2> QED
    BY <1>3, <2>1
<1>6. Edit(new)
  BY <1>2
<1> HIDE DEF t
<1>7. DOMAIN new = Ticks /\ new \in [Ticks -> TickFile]
  BY <1>5 DEF Typed, Ticks
<1> HIDE DEF new
<1> QED
  BY <1>6, <1>7, WriteTyped DEF Typed, Edit

LEMMA BlockersTyped ==
  ASSUME NEW t \in TickFile, NEW b \in SUBSET Ids
  PROVE  [t EXCEPT !.blockedBy = b] \in TickFile
  BY DEF TickFile

LEMMA CreateTyped ==
  ASSUME Typed, Create
  PROVE  Typed'
<1> DEFINE i == Min(Ids \ Ticks)
<1>1. PICK t \in Values.type, r \in Values.role, p \in Values.parent,
          b \in Values.after, a \in Values.awaiting :
        /\ r # None => t # "epic"
        /\ Edit([j \in Ticks \cup {i} |->
                 IF j = i THEN [Blank EXCEPT !.type = t, !.role = r, !.parent = p,
                                             !.blockedBy = b, !.awaiting = a]
                 ELSE ticks[j]])
  BY DEF Create
<1>2. i \in Ids
  <2>1. Ids \ Ticks # {} /\ Ids \ Ticks \subseteq Nat
    BY QueriesAssumption DEF Create, Typed
  <2>2. \E x \in Ids \ Ticks : \A y \in Ids \ Ticks : x <= y
    BY <2>1, LeastNumber
  <2> QED
    BY <2>2 DEF Min
<1> DEFINE new == [j \in Ticks \cup {i} |->
                 IF j = i THEN [Blank EXCEPT !.type = t, !.role = r, !.parent = p,
                                             !.blockedBy = b, !.awaiting = a]
                 ELSE ticks[j]]
<1> HIDE DEF i
<1>3. [Blank EXCEPT !.type = t, !.role = r, !.parent = p, !.blockedBy = b, !.awaiting = a]
        \in TickFile
  <2>1. Blank \in TickFile
    <3> DEFINE o == CHOOSE o \in Owners : TRUE
    <3>1. o \in Owners
      BY QueriesAssumption
    <3> HIDE DEF o
    <3>2. [status |-> "open", type |-> "task", role |-> None, parent |-> Root, after |-> {},
           blockedBy |-> {}, owner |-> o, awaiting |-> None,
           requires |-> FALSE, deferred |-> FALSE, due |-> None, priority |-> 2] \in TickFile
      BY <3>1 DEF TickFile, Values
    <3> QED
      BY <3>2 DEF Blank, o
  <2>2. b \in SUBSET Ids
    BY DEF Values
  <2> QED
    BY <2>1, <2>2 DEF TickFile
<1>4. new \in [Ticks \cup {i} -> TickFile] /\ DOMAIN new = Ticks \cup {i}
  BY <1>3 DEF Typed
<1>5. Edit(new)
  BY <1>1
<1> HIDE DEF new
<1>6. Ticks \cup {i} \subseteq Ids
  BY <1>2 DEF Typed
<1> QED
  BY <1>4, <1>5, <1>6, WriteTyped DEF Edit

Routed(i) == [ticks EXCEPT ![i].awaiting = "approval"]
Ended(i, C) ==
  [j \in Ticks |->
     IF j = i
       THEN [ticks[j] EXCEPT !.status = "closed",
                             !.awaiting = IF ticks[j].requires THEN None ELSE @]
     ELSE IF j \in C THEN [ticks[j] EXCEPT !.status = "closed", !.awaiting = None]
     ELSE ticks[j]]

LEMMA CloseSteps ==
  ASSUME NEW i, Close(i)
  PROVE  \/ Edit(Routed(i))
         \/ (\E C : Write(Ended(i, C))) /\ said' \in Continuation(i)'
  BY Zenon DEF Close, Routed, Ended

LEMMA ClosedTyped ==
  ASSUME NEW t \in TickFile, NEW a \in {None, "approval", "checkpoint"}
  PROVE  [t EXCEPT !.status = "closed", !.awaiting = a] \in TickFile
<1>1. "closed" \in Values.status /\ a \in Values.awaiting
  BY DEF Values
<1> QED
  BY <1>1 DEF TickFile

LEMMA CloseTyped ==
  ASSUME Typed, NEW i \in Ticks, Close(i)
  PROVE  Typed'
<1>1. CASE Edit(Routed(i))
  <2> DEFINE t == [ticks[i] EXCEPT !.awaiting = "approval"]
             new == [ticks EXCEPT ![i] = t]
  <2>1. t \in TickFile
    <3>1. "approval" \in Values.awaiting /\ ticks[i] \in TickFile
      BY Fields DEF Values
    <3> QED
      BY <3>1 DEF TickFile
  <2>2. Write(new)
    BY <1>1 DEF Edit, Routed
  <2> HIDE DEF t
  <2>3. DOMAIN new = Ticks /\ new \in [Ticks -> TickFile]
    BY <2>1 DEF Typed, Ticks
  <2> HIDE DEF new
  <2> QED
    BY <2>2, <2>3, WriteTyped DEF Typed
<1>2. ASSUME NEW C, Write(Ended(i, C))
      PROVE  Typed'
  <2> DEFINE mine(j) == [ticks[j] EXCEPT !.status = "closed",
                                         !.awaiting = IF ticks[j].requires THEN None ELSE @]
             child(j) == [ticks[j] EXCEPT !.status = "closed", !.awaiting = None]
             new == [j \in Ticks |->
                 IF j = i THEN mine(j) ELSE IF j \in C THEN child(j) ELSE ticks[j]]
  <2>1. \A j \in Ticks : ticks[j] \in TickFile
    BY Fields
  <2>2. \A j \in Ticks : mine(j) \in TickFile
    <3> SUFFICES ASSUME NEW j \in Ticks PROVE mine(j) \in TickFile
      OBVIOUS
    <3> DEFINE a == IF ticks[j].requires THEN None ELSE ticks[j].awaiting
    <3>1. ticks[j] \in TickFile /\ a \in {None, "approval", "checkpoint"}
      BY <2>1 DEF TickFile, Values
    <3> HIDE DEF a
    <3>2. [ticks[j] EXCEPT !.status = "closed", !.awaiting = a] \in TickFile
      BY <3>1, ClosedTyped
    <3> QED
      BY <3>2 DEF a
  <2>3. \A j \in Ticks : child(j) \in TickFile
    BY <2>1, ClosedTyped
  <2>4. Write(new)
    BY <1>2 DEF Ended
  <2> HIDE DEF mine, child
  <2>5. DOMAIN new = Ticks /\ new \in [Ticks -> TickFile]
    BY <2>1, <2>2, <2>3
  <2> HIDE DEF new
  <2> QED
    BY <2>4, <2>5, WriteTyped DEF Typed
<1> QED
  BY <1>1, <1>2, CloseSteps, Zenon

LEMMA StepTyped == Typed /\ [Next]_vars => Typed'
<1> SUFFICES ASSUME Typed, [Next]_vars PROVE Typed'
  OBVIOUS
<1>1. CASE UNCHANGED vars
  BY <1>1 DEF vars, Typed, Ticks
<1>2. CASE Create
  BY <1>2, CreateTyped
<1>3. ASSUME NEW i \in Ticks, Update(i) PROVE Typed'
  BY <1>3, UpdateTyped
<1>4. ASSUME NEW i \in Ticks, Block(i) PROVE Typed'
  <2>1. PICK b \in Ticks : Edit([ticks EXCEPT ![i].blockedBy = @ \cup {b}])
    BY <1>4 DEF Block
  <2> DEFINE t == [ticks[i] EXCEPT !.blockedBy = ticks[i].blockedBy \cup {b}]
             new == [ticks EXCEPT ![i] = t]
  <2>2. t \in TickFile
    <3>1. ticks[i].blockedBy \cup {b} \in SUBSET Ids /\ ticks[i] \in TickFile
      BY Fields DEF Typed
    <3> QED
      BY <3>1, BlockersTyped
  <2>3. Edit(new)
    BY <2>1
  <2> HIDE DEF t
  <2>4. DOMAIN new = Ticks /\ new \in [Ticks -> TickFile]
    BY <2>2 DEF Typed, Ticks
  <2> HIDE DEF new
  <2> QED
    BY <2>3, <2>4, WriteTyped DEF Typed, Edit
<1>5. ASSUME NEW i \in Ticks, Unblock(i) PROVE Typed'
  <2>1. PICK b \in ticks[i].blockedBy : Edit([ticks EXCEPT ![i].blockedBy = @ \ {b}])
    BY <1>5 DEF Unblock
  <2> DEFINE t == [ticks[i] EXCEPT !.blockedBy = ticks[i].blockedBy \ {b}]
             new == [ticks EXCEPT ![i] = t]
  <2>2. t \in TickFile
    <3>1. ticks[i].blockedBy \ {b} \in SUBSET Ids /\ ticks[i] \in TickFile
      BY Fields DEF Typed
    <3> QED
      BY <3>1, BlockersTyped
  <2>3. Edit(new)
    BY <2>1
  <2> HIDE DEF t
  <2>4. DOMAIN new = Ticks /\ new \in [Ticks -> TickFile]
    BY <2>2 DEF Typed, Ticks
  <2> HIDE DEF new
  <2> QED
    BY <2>3, <2>4, WriteTyped DEF Typed, Edit
<1>6. ASSUME NEW i \in Ticks, Delete(i) PROVE Typed'
  <2> DEFINE new == [j \in Ticks \ {i} |-> [ticks[j] EXCEPT !.blockedBy = ticks[j].blockedBy \ {i}]]
  <2>1. \A j \in Ticks : [ticks[j] EXCEPT !.blockedBy = ticks[j].blockedBy \ {i}] \in TickFile
    <3> SUFFICES ASSUME NEW j \in Ticks
                 PROVE  [ticks[j] EXCEPT !.blockedBy = ticks[j].blockedBy \ {i}] \in TickFile
      OBVIOUS
    <3>1. ticks[j].blockedBy \ {i} \in SUBSET Ids /\ ticks[j] \in TickFile
      BY Fields
    <3> QED
      BY <3>1, BlockersTyped
  <2>2. DOMAIN new = Ticks \ {i} /\ new \in [Ticks \ {i} -> TickFile]
    BY <2>1
  <2>3. Edit(new)
    BY <1>6 DEF Delete
  <2> HIDE DEF new
  <2> QED
    BY <2>2, <2>3, WriteTyped DEF Typed, Edit
<1>7. ASSUME NEW i \in Ticks, Close(i) PROVE Typed'
  BY <1>7, CloseTyped
<1> QED
  BY <1>1, <1>2, <1>3, <1>4, <1>5, <1>6, <1>7 DEF Next

\* Every tracker the commands can leave has well-typed ticks, a name of its own
\* for each; what they refer to may be gone or be the tick itself.
THEOREM TypeCorrect == Spec => []Typed
<1>1. Init => Typed
  BY QueriesAssumption DEF Init, Typed, Ticks
<1> QED
  BY <1>1, StepTyped, PTL DEF Spec

-----------------------------------------------------------------------------
(***************************************************************************)
(* The order of the lists: every list that is not empty has a first tick.  *)
(***************************************************************************)

\* i comes before j by f, then by g, then by h, then by id.
Before(f, g, h, i, j) ==
  \/ f[i] < f[j]
  \/ f[i] = f[j] /\ g[i] < g[j]
  \/ f[i] = f[j] /\ g[i] = g[j] /\ h[i] < h[j]
  \/ f[i] = f[j] /\ g[i] = g[j] /\ h[i] = h[j] /\ i < j

LEMMA Lexicographic ==
  ASSUME NEW C \in SUBSET Nat, C # {},
         NEW f \in [C -> Nat], NEW g \in [C -> Nat], NEW h \in [C -> Nat]
  PROVE  \E i \in C : \A j \in C \ {i} : Before(f, g, h, i, j)
<1> DEFINE F == {f[i] : i \in C}
<1>1. PICK a \in F : \A y \in F : a <= y
  <2>1. F \subseteq Nat /\ F # {}
    OBVIOUS
  <2> HIDE DEF F
  <2> QED
    BY <2>1, LeastNumber
<1> DEFINE D == {i \in C : f[i] = a}
           G == {g[i] : i \in D}
<1>2. PICK b \in G : \A y \in G : b <= y
  <2>1. G \subseteq Nat /\ G # {}
    BY <1>1
  <2> HIDE DEF G
  <2> QED
    BY <2>1, LeastNumber
<1> DEFINE E == {i \in D : g[i] = b}
           H == {h[i] : i \in E}
<1>3. PICK c \in H : \A y \in H : c <= y
  <2>1. H \subseteq Nat /\ H # {}
    BY <1>2
  <2> HIDE DEF H
  <2> QED
    BY <2>1, LeastNumber
<1> DEFINE K == {i \in E : h[i] = c}
<1>4. PICK i \in K : \A y \in K : i <= y
  <2>1. K \subseteq Nat /\ K # {}
    BY <1>3
  <2> HIDE DEF K
  <2> QED
    BY <2>1, LeastNumber
<1>5. i \in C /\ f[i] = a /\ g[i] = b /\ h[i] = c
  BY <1>4
<1>6. ASSUME NEW j \in C \ {i}
      PROVE  Before(f, g, h, i, j)
  <2>1. f[j] \in Nat /\ g[j] \in Nat /\ h[j] \in Nat /\ j \in Nat /\ i \in Nat
    BY <1>5
  <2>2. a \in Nat /\ b \in Nat /\ c \in Nat
    BY <1>5
  <2>3. a <= f[j]
    BY <1>1
  <2>4. f[j] = a => b <= g[j]
    BY <1>2
  <2>5. f[j] = a /\ g[j] = b => c <= h[j]
    BY <1>3
  <2>6. f[j] = a /\ g[j] = b /\ h[j] = c => i <= j
    BY <1>4
  <2> QED
    BY <1>5, <2>1, <2>2, <2>3, <2>4, <2>5, <2>6 DEF Before
<1> QED
  BY <1>5, <1>6

LEMMA FirstByList ==
  ASSUME Typed, NEW C \in SUBSET Ticks, C # {}
  PROVE  First(C, [j \in C |-> ListRank(j)]) \in C
<1> DEFINE f == [i \in C |-> IF ticks[i].status = "in_progress" THEN 0 ELSE 1]
           g == [i \in C |-> ticks[i].priority]
           h == [i \in C |-> 0]
           rank == [j \in C |-> ListRank(j)]
<1>1. C \in SUBSET Nat /\ f \in [C -> Nat] /\ g \in [C -> Nat] /\ h \in [C -> Nat]
  BY Fields
<1>2. \A i \in C : rank[i] = <<f[i], g[i], i>> /\ h[i] = 0
  BY DEF ListRank
<1> HIDE DEF f, g, h, rank
<1>3. PICK i \in C : \A j \in C \ {i} : Before(f, g, h, i, j)
  BY <1>1, Lexicographic
<1>4. ASSUME NEW j \in C \ {i} PROVE Earlier(rank[i], rank[j])
  <2>1. rank[i] = <<f[i], g[i], i>> /\ rank[j] = <<f[j], g[j], j>> /\ DOMAIN rank[i] = 1 .. 3
    BY <1>2
  <2>2. CASE f[i] < f[j]
    BY <2>1, <2>2 DEF Earlier
  <2>3. CASE f[i] = f[j] /\ g[i] < g[j]
    BY <2>1, <2>3 DEF Earlier
  <2>4. CASE f[i] = f[j] /\ g[i] = g[j] /\ i < j
    BY <2>1, <2>4 DEF Earlier
  <2> QED
    BY <1>2, <1>3, <2>2, <2>3, <2>4 DEF Before
<1>5. First(C, rank) \in C
  BY <1>4 DEF First
<1> QED
  BY <1>5 DEF rank

LEMMA FirstBySoft ==
  ASSUME Typed, NEW C \in SUBSET Ticks, C # {}
  PROVE  First(C, [j \in C |-> SoftRank(j)]) \in C
<1> DEFINE f == [i \in C |-> IF ticks[i].status = "in_progress" THEN 0 ELSE 1]
           g == [i \in C |-> IF IsSoftDeferred(i) THEN 1 ELSE 0]
           h == [i \in C |-> ticks[i].priority]
           rank == [j \in C |-> SoftRank(j)]
<1>1. C \in SUBSET Nat /\ f \in [C -> Nat] /\ g \in [C -> Nat] /\ h \in [C -> Nat]
  BY Fields
<1>2. \A i \in C : rank[i] = <<f[i], g[i], h[i], i>>
  BY DEF SoftRank
<1> HIDE DEF f, g, h, rank
<1>3. PICK i \in C : \A j \in C \ {i} : Before(f, g, h, i, j)
  BY <1>1, Lexicographic
<1>4. ASSUME NEW j \in C \ {i} PROVE Earlier(rank[i], rank[j])
  <2>1. rank[i] = <<f[i], g[i], h[i], i>> /\ rank[j] = <<f[j], g[j], h[j], j>>
        /\ DOMAIN rank[i] = 1 .. 4
    BY <1>2
  <2>2. CASE f[i] < f[j]
    BY <2>1, <2>2 DEF Earlier
  <2>3. CASE f[i] = f[j] /\ g[i] < g[j]
    BY <2>1, <2>3 DEF Earlier
  <2>4. CASE f[i] = f[j] /\ g[i] = g[j] /\ h[i] < h[j]
    BY <2>1, <2>4 DEF Earlier
  <2>5. CASE f[i] = f[j] /\ g[i] = g[j] /\ h[i] = h[j] /\ i < j
    BY <2>1, <2>5 DEF Earlier
  <2> QED
    BY <1>3, <2>2, <2>3, <2>4, <2>5 DEF Before
<1>5. First(C, rank) \in C
  BY <1>4 DEF First
<1> QED
  BY <1>5 DEF rank

-----------------------------------------------------------------------------
(***************************************************************************)
(* What the answers are made of.                                           *)
(***************************************************************************)

LEMMA NoFilterIsAll == Apply(NoFilter) = Ticks
  BY DEF Apply, NoFilter

LEMMA RootIsNoTick ==
  ASSUME Typed
  PROVE  Root \notin Ticks /\ ~Open(Root) /\ Root \notin Ids
  BY QueriesAssumption DEF Typed, Root, Open

LEMMA PlanFacts ==
  ASSUME NEW i \in Ticks, NeedsPlanning(i)
  PROVE  /\ ticks[i].type = "epic" /\ ticks[i].status = "open" /\ Children(i) = {}
         /\ Open(i) /\ ~ticks[i].deferred /\ ~IsAwaiting(i) /\ OpenBlockers(i) = {}
  BY DEF NeedsPlanning, Ready

\* What tk next names is ready, in the scope or to be planned.
LEMMA NextFacts ==
  ASSUME Typed, NEW scope, NEW filter, NEW filtered, filtered \subseteq Ticks,
         filtered = {i \in Apply(filter) : scope # Root => ticks[i].parent = scope},
         NEW ready, ready = Ready(filtered),
         NEW plan, plan = PlanningCandidates(scope, filtered)
  PROVE  /\ ready \cup plan = {} => NextTick(scope, filter) = NoTick
         /\ ready \cup plan # {} =>
              LET i == NextTick(scope, filter).id IN
              /\ i \in IF ready # {} THEN ready ELSE plan
              /\ NextTick(scope, filter) = [id |-> i, action |-> NextAction(i)]
<1> DEFINE first == IF ready # {} THEN ready ELSE plan
           n == First(first, [j \in first |-> SoftRank(j)])
<1>1. NextTick(scope, filter) = IF ready \cup plan = {} THEN NoTick
                                ELSE [id |-> n, action |-> NextAction(n)]
  BY DEF NextTick
<1>2. ready \subseteq Ticks /\ plan \subseteq Ticks
  BY DEF Ready, PlanningCandidates
<1>3. ASSUME ready \cup plan # {} PROVE n \in first
  <2>1. first \in SUBSET Ticks /\ first # {}
    BY <1>2, <1>3
  <2> HIDE DEF first
  <2> QED
    BY <2>1, FirstBySoft
<1> HIDE DEF n
<1> QED
  BY <1>1, <1>3

\* What an agent may start, wherever it is asked for.
Startable(i) ==
  /\ Open(i) /\ ~ticks[i].deferred /\ ~IsAwaiting(i) /\ OpenBlockers(i) = {}
  /\ ticks[i].status = "open"
  /\ ticks[i].type = "epic" => NeedsPlanning(i)

LEMMA ReadyFacts ==
  ASSUME NEW C, NEW i
  PROVE  i \in Ready(C) <=> i \in C /\ Open(i) /\ ~ticks[i].deferred /\ ~IsAwaiting(i)
                                /\ OpenBlockers(i) = {}
  BY DEF Ready

LEMMA PlanStartable ==
  ASSUME NEW i \in Ticks, NeedsPlanning(i)
  PROVE  Startable(i)
  BY PlanFacts DEF Startable

InScope(scope, filter) == Apply(filter) \cap (IF scope = Root THEN Ticks ELSE Below(scope))

\* The items of a frontier are the startable ticks in scope, and the scope
\* itself if it is to be planned.
LEMMA FrontierFacts ==
  ASSUME Typed, NEW scope, NEW filter
  PROVE  LET front    == Frontier(scope, filter)
             filtered == InScope(scope, filter)
             ids      == {i \in filtered : Startable(i)} \cup {i \in {scope} \cap Ticks : NeedsPlanning(i)}
         IN  /\ front.items = {[id |-> i, action |-> Action(i)] : i \in ids}
             /\ ItemIds(front) = ids
             /\ front.waiting = {i \in filtered : Open(i) /\ IsAwaiting(i)}
             /\ ids \subseteq Ticks /\ \A i \in ids : Startable(i)
             /\ Actionable(front) <=> ids # {}
<1> DEFINE filtered == Apply(filter) \cap (IF scope = Root THEN Ticks ELSE Below(scope))
           items == {i \in Ready(filtered) :
                  ticks[i].status = "open" /\ (ticks[i].type = "epic" => NeedsPlanning(i))}
                 \cup PlanningCandidates(scope, filtered)
           open == {i \in filtered : Open(i)}
           front == Frontier(scope, filter)
           ids   == {i \in filtered : Startable(i)} \cup {i \in {scope} \cap Ticks : NeedsPlanning(i)}
<1>1. front = [items    |-> {[id |-> i, action |-> Action(i)] : i \in items},
               waiting  |-> {i \in open : IsAwaiting(i)},
               inFlight |-> {i \in open : ~IsAwaiting(i) /\ ticks[i].status = "in_progress"},
               done     |-> open = {} /\ ~Open(scope)]
  BY DEF Frontier
<1>2. filtered \subseteq Ticks /\ InScope(scope, filter) = filtered
  BY DEF Apply, InScope
<1> HIDE DEF filtered, front
<1>3. items = ids
  <2>1. {i \in Ready(filtered) :
                  ticks[i].status = "open" /\ (ticks[i].type = "epic" => NeedsPlanning(i))}
          = {i \in filtered : Startable(i)}
    BY ReadyFacts DEF Startable
  <2>2. CASE scope = Root
    <3>1. PlanningCandidates(scope, filtered) = {i \in filtered : NeedsPlanning(i)}
      BY <2>2 DEF PlanningCandidates
    <3>2. {i \in filtered : NeedsPlanning(i)} \subseteq {i \in filtered : Startable(i)}
      BY <1>2, PlanStartable
    <3>3. {scope} \cap Ticks = {}
      BY <2>2, RootIsNoTick
    <3> QED
      BY <2>1, <3>1, <3>2, <3>3
  <2>3. CASE scope # Root
    <3>1. PlanningCandidates(scope, filtered) = {i \in {scope} \cap Ticks : NeedsPlanning(i)}
      BY <2>3 DEF PlanningCandidates
    <3> QED
      BY <2>1, <3>1
  <2> QED
    BY <2>2, <2>3
<1>4. ids \subseteq Ticks /\ \A i \in ids : Startable(i)
  BY <1>2, PlanStartable
<1> HIDE DEF items, ids
<1>5. front.items = {[id |-> i, action |-> Action(i)] : i \in ids}
  BY <1>1, <1>3
<1>6. ItemIds(front) = ids
  <2>1. ASSUME NEW i \in ids PROVE i \in ItemIds(front)
    <3>1. [id |-> i, action |-> Action(i)] \in front.items
      BY <1>5
    <3>2. [id |-> i, action |-> Action(i)].id = i
      OBVIOUS
    <3> QED
      BY <3>1, <3>2 DEF ItemIds
  <2>2. ASSUME NEW n \in ItemIds(front) PROVE n \in ids
    <3>1. PICK item \in front.items : n = item.id
      BY DEF ItemIds
    <3>2. PICK i \in ids : item = [id |-> i, action |-> Action(i)]
      BY <1>5
    <3>3. n = i
      BY <3>1, <3>2
    <3> QED
      BY <3>3
  <2> QED
    BY <2>1, <2>2
<1>7. front.waiting = {i \in filtered : Open(i) /\ IsAwaiting(i)}
  BY <1>1
<1>8. Actionable(front) <=> front.items # {}
  BY DEF Actionable, Summary
<1>9. Actionable(front) <=> ids # {}
  BY <1>5, <1>8
<1> QED
  BY <1>2, <1>4, <1>5, <1>6, <1>7, <1>9 DEF front, ids

-----------------------------------------------------------------------------
(***************************************************************************)
(* A tick that waits for a human is the human's.                           *)
(***************************************************************************)

LEMMA WaitingIsShown ==
  ASSUME Typed
  PROVE  LET waiting == Frontier(Root, NoFilter).waiting IN
         /\ waiting = {i \in Ticks : Open(i) /\ IsAwaiting(i)}
         /\ waiting = {i \in Ticks : Column(i) = "human"}
         /\ waiting = ListAwaiting \ {i \in Ticks : ~Open(i)}
<1> DEFINE waiting == Frontier(Root, NoFilter).waiting
<1>1. InScope(Root, NoFilter) = Ticks
  BY NoFilterIsAll DEF InScope
<1>2. waiting = {i \in Ticks : Open(i) /\ IsAwaiting(i)}
  BY <1>1, FrontierFacts
<1> HIDE DEF waiting
<1>3. \A i \in Ticks : Column(i) = "human" <=> Open(i) /\ IsAwaiting(i)
  BY DEF Column
<1>4. ListAwaiting = {i \in Ticks : IsAwaiting(i)}
  BY NoFilterIsAll DEF ListAwaiting
<1> QED
  BY <1>2, <1>3, <1>4 DEF waiting

LEMMA NextIsNotHumans ==
  ASSUME Typed, NEW scope, NEW i \in Ticks, Open(i), IsAwaiting(i)
  PROVE  NextTick(scope, NoFilter).id # i
<1> DEFINE filtered == {j \in Apply(NoFilter) : scope # Root => ticks[j].parent = scope}
           ready == Ready(filtered)
           plan  == PlanningCandidates(scope, filtered)
<1>1. filtered \subseteq Ticks
  BY NoFilterIsAll
<1>2. i \notin ready
  BY ReadyFacts
<1>3. i \notin plan
  BY PlanFacts DEF PlanningCandidates
<1>4. /\ ready \cup plan = {} => NextTick(scope, NoFilter) = NoTick
      /\ ready \cup plan # {} =>
           NextTick(scope, NoFilter).id \in IF ready # {} THEN ready ELSE plan
  <2> HIDE DEF filtered
  <2>1. filtered = {j \in Apply(NoFilter) : scope # Root => ticks[j].parent = scope}
    BY DEF filtered
  <2> QED
    BY <1>1, <2>1, NextFacts
<1>5. NoTick.id # i
  BY RootIsNoTick DEF NoTick
<1> QED
  BY <1>2, <1>3, <1>4, <1>5

LEMMA MarksAgree ==
  ASSUME Typed, NEW i \in Ticks
  PROVE  /\ ListMark(i) = ShowMark(i)
         /\ ListMark(i) = "human" <=> IsAwaiting(i)
         /\ ~ticks[i].deferred => (GraphMark(i) = "human" <=> IsAwaiting(i))
         /\ ticks[i].status = "open" => (ListMark(i) = "blocked" <=> Column(i) = "blocked")
         /\ ticks[i].status = "open" /\ ~ticks[i].deferred => GraphMark(i) = ListMark(i)
<1> DEFINE plain == IF ticks[i].status = "open" /\ OpenBlockers(i) # {} THEN "blocked"
                    ELSE ticks[i].status
<1>0. ticks[i].status \in {"open", "in_progress", "closed"} /\ plain # "human"
  BY Fields
<1>1. OpenBlockers(i) # {} <=> \E b \in ticks[i].blockedBy : Open(b)
  BY DEF OpenBlockers
<1>2. ListMark(i) = IF IsAwaiting(i) THEN "human" ELSE plain
  BY DEF ListMark, Mark
<1>3. ShowMark(i) = IF IsAwaiting(i) THEN "human" ELSE plain
  BY <1>1 DEF ShowMark, Mark
<1>4. ~ticks[i].deferred => GraphMark(i) = IF IsAwaiting(i) THEN "human"
                    ELSE IF OpenBlockers(i) # {} THEN "blocked" ELSE ticks[i].status
  BY DEF GraphMark
<1>5. ticks[i].status = "open" =>
        Column(i) = IF IsAwaiting(i) THEN "human"
                    ELSE IF OpenBlockers(i) # {} THEN "blocked" ELSE "ready"
  BY DEF Column, IsBlocked, Open
<1> QED
  BY <1>0, <1>2, <1>3, <1>4, <1>5

LEMMA AwaitingIsShown ==
  ASSUME Typed,
         NEW desk, desk = {i \in Ticks : ticks[i].status = "open" /\ IsAwaiting(i)}
  PROVE  IF desk = {} THEN NextAwaiting(NoFilter) = Root ELSE NextAwaiting(NoFilter) \in desk
<1>1. desk = {j \in Apply(NoFilter) : ticks[j].status = "open" /\ IsAwaiting(j)}
  BY NoFilterIsAll
<1>2. NextAwaiting(NoFilter) =
        IF desk = {} THEN Root ELSE First(desk, [j \in desk |-> ListRank(j)])
  BY <1>1 DEF NextAwaiting
<1>3. desk # {} => First(desk, [j \in desk |-> ListRank(j)]) \in desk
  BY FirstByList
<1> QED
  BY <1>2, <1>3

LEMMA HumansOwnHolds == Typed => HumansOwn
<1> SUFFICES ASSUME Typed PROVE HumansOwn
  OBVIOUS
<1> DEFINE waiting == Frontier(Root, NoFilter).waiting
           Offers(s) == {NextTick(s, NoFilter).id} \cup ItemIds(Frontier(s, NoFilter))
                          \cup (IF s = Root THEN {} ELSE DispatchNow(s, TRUE))
<1>1. /\ waiting = {i \in Ticks : Open(i) /\ IsAwaiting(i)}
      /\ waiting = {i \in Ticks : Column(i) = "human"}
      /\ waiting = ListAwaiting \ {i \in Ticks : ~Open(i)}
  BY WaitingIsShown
<1> HIDE DEF waiting
<1>2. ASSUME NEW s \in Ticks \cup {Root}
      PROVE  Offers(s) \cap waiting = {}
  <2>1. \A i \in waiting : NextTick(s, NoFilter).id # i
    BY <1>1, NextIsNotHumans
  <2>2. \A i \in ItemIds(Frontier(s, NoFilter)) : ~IsAwaiting(i)
    BY FrontierFacts DEF Startable
  <2>3. \A i \in DispatchNow(s, TRUE) : ~IsAwaiting(i)
    BY DEF DispatchNow
  <2> QED
    BY <1>1, <2>1, <2>2, <2>3
<1> DEFINE desk == {i \in waiting : ticks[i].status = "open"}
<1>3. IF desk = {} THEN NextAwaiting(NoFilter) = Root ELSE NextAwaiting(NoFilter) \in desk
  <2>1. desk = {i \in Ticks : ticks[i].status = "open" /\ IsAwaiting(i)}
    BY <1>1 DEF Open
  <2> QED
    BY <2>1, AwaitingIsShown
<1>4. ASSUME NEW i \in Ticks
      PROVE  /\ ListMark(i) = ShowMark(i)
             /\ Open(i) => (ListMark(i) = "human" <=> i \in waiting)
             /\ Open(i) /\ ~ticks[i].deferred => (GraphMark(i) = "human" <=> i \in waiting)
             /\ ticks[i].status = "open" => (ListMark(i) = "blocked" <=> Column(i) = "blocked")
             /\ ticks[i].status = "open" /\ ~ticks[i].deferred => GraphMark(i) = ListMark(i)
  BY <1>1, MarksAgree
<1> QED
  BY <1>1, <1>2, <1>3, <1>4 DEF HumansOwn, waiting

\* In every tracker, whatever loops and dangling references it has, a tick that
\* waits for a human is shown by the frontier, the board and tk list --awaiting, in
\* progress or not, is marked by tk list and show, and by graph unless deferred, is
\* given by tk next --awaiting in its turn if it is open, and is offered to no agent.
THEOREM HumansKeepTheirs == Spec => []HumansOwn
  BY TypeCorrect, HumansOwnHolds, PTL

-----------------------------------------------------------------------------
(***************************************************************************)
(* Iteration.  Reach and Peel apply a function on sets as many times as    *)
(* there are members; by then nothing more can come.                       *)
(***************************************************************************)

Iterates(F, a, f, N) ==
  f[0] = a /\ \A n \in 1 .. N : f[n] = F[f[n - 1]]

LEMMA IterationExists ==
  ASSUME NEW D, NEW F \in [D -> D], NEW a \in D, NEW N \in Nat
  PROVE  \E f \in [0 .. N -> D] : Iterates(F, a, f, N)
<1> DEFINE Good(n) == \E f \in [0 .. n -> D] : Iterates(F, a, f, n)
           Bad == {n \in Nat : ~Good(n)}
<1>1. SUFFICES ASSUME Bad # {} PROVE FALSE
  OBVIOUS
<1>2. PICK m \in Bad : \A n \in Bad : m <= n
  <2>1. Bad \subseteq Nat
    OBVIOUS
  <2> HIDE DEF Bad
  <2> QED
    BY <1>1, <2>1, LeastNumber
<1>3. Good(0)
  <2> DEFINE f == [n \in 0 .. 0 |-> a]
  <2>1. f \in [0 .. 0 -> D] /\ f[0] = a /\ \A n \in 1 .. 0 : f[n] = F[f[n - 1]]
    OBVIOUS
  <2> HIDE DEF f
  <2> QED
    BY <2>1 DEF Iterates
<1>4. m \in Nat /\ m # 0 /\ ~Good(m)
  BY <1>2, <1>3
<1>5. Good(m - 1)
  <2>1. m - 1 \in Nat /\ ~(m <= m - 1)
    BY <1>4
  <2> HIDE DEF Good
  <2> QED
    BY <1>2, <2>1
<1>6. PICK f \in [0 .. m - 1 -> D] : Iterates(F, a, f, m - 1)
  BY <1>5
<1> DEFINE g == [n \in 0 .. m |-> IF n = m THEN F[f[m - 1]] ELSE f[n]]
<1>7. g \in [0 .. m -> D]
  BY <1>4, <1>6
<1>8. Iterates(F, a, g, m)
  <2>1. g[0] = a
    BY <1>4, <1>6 DEF Iterates
  <2>2. ASSUME NEW n \in 1 .. m PROVE g[n] = F[g[n - 1]]
    <3>1. CASE n = m
      BY <1>4, <3>1
    <3>2. CASE n # m
      <4>1. n \in 1 .. m - 1 /\ n \in 0 .. m /\ n - 1 \in 0 .. m /\ n - 1 # m
        BY <1>4, <3>2
      <4> QED
        BY <1>6, <3>2, <4>1 DEF Iterates
    <3> QED
      BY <3>1, <3>2
  <2> HIDE DEF g
  <2> QED
    BY <2>1, <2>2 DEF Iterates
<1> HIDE DEF g
<1> QED
  BY <1>4, <1>7, <1>8

\* What holds of the start and is kept by every step holds of every iterate.
LEMMA IterationKeeps ==
  ASSUME NEW D, NEW F \in [D -> D], NEW N \in Nat, NEW a, NEW f \in [0 .. N -> D],
         Iterates(F, a, f, N), NEW P \in SUBSET D, a \in P, \A R \in P : F[R] \in P
  PROVE  \A n \in 0 .. N : f[n] \in P
<1> DEFINE Bad == {n \in 0 .. N : f[n] \notin P}
<1>1. SUFFICES ASSUME Bad # {} PROVE FALSE
  OBVIOUS
<1>2. PICK m \in Bad : \A n \in Bad : m <= n
  <2>1. Bad \subseteq Nat
    OBVIOUS
  <2> HIDE DEF Bad
  <2> QED
    BY <1>1, <2>1, LeastNumber
<1>3. m \in 1 .. N /\ f[m] \notin P
  BY <1>2 DEF Iterates
<1>4. m - 1 \in 0 .. N /\ f[m - 1] \in P
  BY <1>2, <1>3
<1>5. f[m] = F[f[m - 1]]
  BY <1>3 DEF Iterates
<1> QED
  BY <1>3, <1>4, <1>5

Grows(F, f, N) == \A n \in 0 .. N : f[n] \subseteq F[f[n]]

\* A growing iteration on the subsets of X has stopped after Cardinality(X) steps.
LEMMA IterationStops ==
  ASSUME NEW X, IsFiniteSet(X), NEW F \in [SUBSET X -> SUBSET X], NEW a \in SUBSET X,
         NEW f \in [0 .. Cardinality(X) -> SUBSET X],
         Iterates(F, a, f, Cardinality(X)), Grows(F, f, Cardinality(X))
  PROVE  F[f[Cardinality(X)]] = f[Cardinality(X)]
<1> DEFINE N == Cardinality(X)
           Stops(n) == F[f[n]] = f[n]
           Bad == {n \in 0 .. N : ~(Stops(n) \/ Cardinality(f[n]) >= n)}
<1>0. N \in Nat
  BY FS_CardinalityType
<1>1. \A n \in 0 .. N : IsFiniteSet(f[n]) /\ Cardinality(f[n]) \in Nat
  BY FS_Subset, FS_CardinalityType
<1>2. Bad = {}
  <2>1. SUFFICES ASSUME Bad # {} PROVE FALSE
    OBVIOUS
  <2>2. PICK m \in Bad : \A n \in Bad : m <= n
    <3>1. Bad \subseteq Nat
      BY <1>0
    <3> HIDE DEF Bad
    <3> QED
      BY <2>1, <3>1, LeastNumber
  <2>3. m \in 0 .. N /\ ~Stops(m) /\ ~(Cardinality(f[m]) >= m)
    BY <2>2
  <2>4. m # 0
    BY <1>1, <2>3
  <2>5. m - 1 \in 0 .. N /\ m - 1 \notin Bad
    <3> HIDE DEF Bad
    <3> QED
      BY <1>0, <2>2, <2>3, <2>4
  <2>6. Stops(m - 1) \/ Cardinality(f[m - 1]) >= m - 1
    BY <2>5
  <2>7. f[m] = F[f[m - 1]]
    BY <1>0, <2>3, <2>4 DEF Iterates
  <2>8. ~Stops(m - 1)
    BY <2>3, <2>7
  <2>9. f[m - 1] \subseteq f[m] /\ f[m - 1] # f[m]
    BY <2>5, <2>7, <2>8 DEF Grows
  <2>10. Cardinality(f[m - 1]) <= Cardinality(f[m]) /\ Cardinality(f[m - 1]) # Cardinality(f[m])
    <3>1. IsFiniteSet(f[m])
      BY <1>1, <2>3
    <3> QED
      BY <2>9, <3>1, FS_Subset
  <2> QED
    BY <1>0, <1>1, <2>3, <2>5, <2>6, <2>8, <2>10
<1>3. N \in 0 .. N
  BY <1>0
<1>4. CASE Stops(N)
  BY <1>4
<1>5. CASE ~Stops(N)
  <2>1. Cardinality(f[N]) >= N
    BY <1>2, <1>3, <1>5
  <2>2. f[N] \in SUBSET X /\ Cardinality(f[N]) <= Cardinality(X)
    BY <1>3, FS_Subset
  <2>3. f[N] = X
    <3>1. Cardinality(X) = Cardinality(f[N])
      BY <1>0, <1>1, <1>3, <2>1, <2>2
    <3> QED
      BY <2>2, <3>1, FS_Subset
  <2>4. F[f[N]] \subseteq X /\ f[N] \subseteq F[f[N]]
    BY <1>3, <2>2 DEF Grows
  <2> QED
    BY <2>3, <2>4
<1> QED
  BY <1>4, <1>5

-----------------------------------------------------------------------------
(***************************************************************************)
(* Reach is the least set that holds what S leads to and what its members  *)
(* lead to, although it takes no more steps than there are ids.            *)
(***************************************************************************)

Successors(succ, R) == UNION {succ[i] : i \in R \cap DOMAIN succ}

\* A relation among the ids, as the set each leads to.
Relates(succ) == DOMAIN succ \subseteq Ids /\ \A i \in DOMAIN succ : succ[i] \subseteq Ids

LEMMA ReachFacts ==
  ASSUME NEW succ, Relates(succ), NEW S
  PROVE  /\ Reach(succ, S) \subseteq Ids
         /\ Successors(succ, S) \subseteq Reach(succ, S)
         /\ Successors(succ, Reach(succ, S)) \subseteq Reach(succ, S)
         /\ \A T : Successors(succ, S) \subseteq T /\ Successors(succ, T) \subseteq T
                     => Reach(succ, S) \subseteq T
<1> DEFINE N == Cardinality(Ids)
           D == SUBSET Ids
           a == Successors(succ, S)
           F == [R \in D |-> R \cup Successors(succ, R)]
<1>0. IsFiniteSet(Ids) /\ N \in Nat
  BY QueriesAssumption, FS_CardinalityType
<1>1. a \in D /\ \A R : Successors(succ, R) \in D
  BY DEF Successors, Relates
<1>2. F \in [D -> D] /\ \A R \in D : F[R] = R \cup Successors(succ, R)
  BY <1>1
<1> HIDE DEF F, a, N
<1>3. PICK f \in [0 .. N -> D] : Iterates(F, a, f, N)
  BY <1>0, <1>1, <1>2, IterationExists
<1>4. \A n \in 0 .. N : f[n] \in D
  BY <1>3
<1> HIDE DEF D
<1> DEFINE Succ(R) == UNION {succ[i] : i \in R \cap DOMAIN succ}
           reached[n \in 0 .. N] ==
             IF n = 0 THEN Succ(S) ELSE LET R == reached[n - 1] IN R \cup Succ(R)
<1>5. f = [n \in 0 .. N |-> IF n = 0 THEN Succ(S) ELSE LET R == f[n - 1] IN R \cup Succ(R)]
  <2>1. ASSUME NEW n \in 0 .. N
        PROVE  f[n] = IF n = 0 THEN Succ(S) ELSE LET R == f[n - 1] IN R \cup Succ(R)
    <3>1. CASE n = 0
      BY <1>3, <3>1 DEF Iterates, a, Successors
    <3>2. CASE n # 0
      <4>1. n \in 1 .. N /\ n - 1 \in 0 .. N
        BY <1>0, <3>2
      <4>2. f[n] = F[f[n - 1]] /\ f[n - 1] \in D
        BY <1>3, <1>4, <4>1 DEF Iterates
      <4>3. f[n] = f[n - 1] \cup Successors(succ, f[n - 1])
        BY <1>2, <4>2
      <4> QED
        BY <3>2, <4>3 DEF Successors
    <3> QED
      BY <3>1, <3>2
  <2> HIDE DEF Succ
  <2> QED
    BY <1>3, <2>1
<1>6. reached = [n \in 0 .. N |->
                   IF n = 0 THEN Succ(S) ELSE LET R == reached[n - 1] IN R \cup Succ(R)]
  <2> HIDE DEF Succ
  <2> QED
    BY <1>5 DEF reached
<1>7. Reach(succ, S) = reached[N]
  BY DEF Reach, N
<1> HIDE DEF reached
<1>8. reached \in [0 .. N -> D] /\ Iterates(F, a, reached, N)
  <2>1. reached[0] = a
    BY <1>0, <1>6 DEF a, Successors
  <2>2. \A n \in 1 .. N : reached[n] = reached[n - 1] \cup Successors(succ, reached[n - 1])
    <3> SUFFICES ASSUME NEW n \in 1 .. N
                 PROVE  reached[n] = reached[n - 1] \cup Successors(succ, reached[n - 1])
      OBVIOUS
    <3>1. n \in 0 .. N /\ n # 0
      BY <1>0
    <3>2. reached[n] = reached[n - 1] \cup Succ(reached[n - 1])
      BY <1>6, <3>1
    <3> QED
      BY <3>2 DEF Successors
  <2>3. ASSUME NEW n \in 0 .. N PROVE reached[n] = f[n]
    <3> DEFINE Bad == {m \in 0 .. N : reached[m] # f[m]}
    <3>1. SUFFICES ASSUME Bad # {} PROVE FALSE
      OBVIOUS
    <3>2. PICK m \in Bad : \A k \in Bad : m <= k
      <4>1. Bad \subseteq Nat
        BY <1>0
      <4> HIDE DEF Bad
      <4> QED
        BY <3>1, <4>1, LeastNumber
    <3>3. m \in 0 .. N /\ reached[m] # f[m]
      BY <3>2
    <3>4. m # 0
      BY <1>3, <2>1, <3>3 DEF Iterates
    <3>5. m \in 1 .. N /\ m - 1 \in 0 .. N
      BY <1>0, <3>3, <3>4
    <3>6. reached[m - 1] = f[m - 1]
      BY <1>0, <3>2, <3>5
    <3>7. f[m] = f[m - 1] \cup Successors(succ, f[m - 1])
      BY <1>2, <1>3, <1>4, <3>5 DEF Iterates
    <3> QED
      BY <2>2, <3>3, <3>5, <3>6, <3>7
  <2>4. reached = [n \in 0 .. N |-> f[n]]
    BY <1>6, <2>3
  <2>5. f = [n \in 0 .. N |-> f[n]]
    BY <1>3
  <2> QED
    BY <1>3, <2>4, <2>5
<1>9. N \in 0 .. N /\ reached[N] \in D
  BY <1>0, <1>8
<1>10. Successors(succ, reached[N]) \subseteq reached[N]
  <2>1. Grows(F, reached, N)
    BY <1>2, <1>8 DEF Grows
  <2>2. F[reached[N]] = reached[N]
    <3>1. /\ F \in [SUBSET Ids -> SUBSET Ids] /\ a \in SUBSET Ids
          /\ reached \in [0 .. Cardinality(Ids) -> SUBSET Ids]
          /\ Iterates(F, a, reached, Cardinality(Ids)) /\ Grows(F, reached, Cardinality(Ids))
      BY <1>1, <1>2, <1>8, <2>1 DEF N, D
    <3>2. F[reached[Cardinality(Ids)]] = reached[Cardinality(Ids)]
      BY <1>0, <3>1, IterationStops
    <3> QED
      BY <3>2 DEF N
  <2> QED
    BY <1>2, <1>9, <2>2
<1>11. a \subseteq reached[N]
  <2> DEFINE P == {R \in D : a \subseteq R}
  <2>1. P \in SUBSET D /\ a \in P /\ \A R \in P : F[R] \in P
    BY <1>1, <1>2 DEF D
  <2> HIDE DEF P
  <2>2. reached[N] \in P
    BY <1>0, <1>2, <1>8, <1>9, <2>1, IterationKeeps
  <2> QED
    BY <2>2 DEF P
<1>12. ASSUME NEW T, a \subseteq T, Successors(succ, T) \subseteq T
       PROVE  reached[N] \subseteq T
  <2> DEFINE P == {R \in D : R \subseteq T}
  <2>1. a \in P
    BY <1>1, <1>12 DEF D
  <2>2. \A R \in P : F[R] \in P
    <3> SUFFICES ASSUME NEW R \in P PROVE F[R] \in P
      OBVIOUS
    <3>1. R \in D /\ F[R] \in D /\ F[R] = R \cup Successors(succ, R)
      BY <1>2
    <3>2. Successors(succ, R) \subseteq Successors(succ, T)
      BY DEF Successors
    <3> QED
      BY <1>12, <3>1, <3>2
  <2>3. P \in SUBSET D
    OBVIOUS
  <2> HIDE DEF P
  <2>4. reached[N] \in P
    BY <1>0, <1>2, <1>8, <1>9, <2>1, <2>2, <2>3, IterationKeeps
  <2> QED
    BY <2>4 DEF P
<1>13. \A T : Successors(succ, S) \subseteq T /\ Successors(succ, T) \subseteq T
                => reached[N] \subseteq T
  BY <1>12 DEF a
<1>14. Successors(succ, S) \subseteq reached[N] /\ reached[N] \subseteq Ids
  BY <1>9, <1>11 DEF a, D
<1> QED
  BY <1>7, <1>10, <1>13, <1>14

-----------------------------------------------------------------------------
(***************************************************************************)
(* Peel: a node is peeled in the step after the last of those before it,   *)
(* and what is left at the end always has something left before it.        *)
(***************************************************************************)

Peels(preds, p, N) ==
  /\ p \in [0 .. N -> SUBSET DOMAIN preds]
  /\ p[0] = {}
  /\ \A n \in 1 .. N : p[n] = {i \in DOMAIN preds : preds[i] \subseteq p[n - 1]}

LEMMA PeelSteps ==
  ASSUME NEW preds, IsFiniteSet(DOMAIN preds)
  PROVE  Peels(preds, Peel(preds), Cardinality(DOMAIN preds))
<1> DEFINE nodes == DOMAIN preds
           N == Cardinality(nodes)
           D == SUBSET nodes
           F == [R \in D |-> {i \in nodes : preds[i] \subseteq R}]
           a == {}
<1>0. N \in Nat
  BY FS_CardinalityType
<1>1. F \in [D -> D] /\ a \in D
  OBVIOUS
<1>2. PICK f \in [0 .. N -> D] : Iterates(F, a, f, N)
  <2> HIDE DEF F, D, a, N
  <2> QED
    BY <1>0, <1>1, IterationExists
<1> DEFINE peeled[n \in 0 .. N] ==
             IF n = 0 THEN {}
             ELSE LET before == peeled[n - 1] IN {i \in nodes : preds[i] \subseteq before}
<1> HIDE DEF N
<1>3. f = [n \in 0 .. N |->
             IF n = 0 THEN {}
             ELSE LET before == f[n - 1] IN {i \in nodes : preds[i] \subseteq before}]
  <2>1. ASSUME NEW n \in 0 .. N
        PROVE  f[n] = IF n = 0 THEN {}
                      ELSE LET before == f[n - 1] IN {i \in nodes : preds[i] \subseteq before}
    <3>1. CASE n = 0
      BY <1>2, <3>1 DEF Iterates
    <3>2. CASE n # 0
      <4>1. n \in 1 .. N /\ n - 1 \in 0 .. N
        BY <1>0, <3>2
      <4>2. f[n] = F[f[n - 1]] /\ f[n - 1] \in D
        BY <1>2, <4>1 DEF Iterates
      <4> QED
        BY <3>2, <4>2
    <3> QED
      BY <3>1, <3>2
  <2>2. f = [n \in 0 .. N |-> f[n]]
    BY <1>2
  <2> QED
    BY <2>1, <2>2
<1>4. peeled = [n \in 0 .. N |->
                  IF n = 0 THEN {}
                  ELSE LET before == peeled[n - 1] IN {i \in nodes : preds[i] \subseteq before}]
  <2> HIDE DEF nodes
  <2> QED
    BY <1>3 DEF peeled
<1>5. Peel(preds) = [n \in DOMAIN peeled |-> peeled[n]]
  BY DEF Peel, N
<1> HIDE DEF peeled
<1>6. DOMAIN peeled = 0 .. N
  BY <1>4
<1>7. \A n \in 0 .. N : Peel(preds)[n] =
        IF n = 0 THEN {} ELSE {i \in nodes : preds[i] \subseteq Peel(preds)[n - 1]}
  <2> SUFFICES ASSUME NEW n \in 0 .. N
               PROVE  Peel(preds)[n] =
                        IF n = 0 THEN {} ELSE {i \in nodes : preds[i] \subseteq Peel(preds)[n - 1]}
    OBVIOUS
  <2>1. CASE n = 0
    BY <1>4, <1>5, <1>6, <2>1
  <2>2. CASE n # 0
    <3>1. n - 1 \in 0 .. N
      BY <1>0, <2>2
    <3>2. peeled[n] = {i \in nodes : preds[i] \subseteq peeled[n - 1]}
      BY <1>4, <2>2
    <3> QED
      BY <1>5, <1>6, <2>2, <3>1, <3>2
  <2> QED
    BY <2>1, <2>2
<1>8. DOMAIN Peel(preds) = 0 .. N /\ Peel(preds) = [n \in 0 .. N |-> Peel(preds)[n]]
  BY <1>5, <1>6
<1>9. \A n \in 0 .. N : Peel(preds)[n] \subseteq nodes
  BY <1>7
<1>10. Peel(preds) \in [0 .. N -> SUBSET nodes]
  BY <1>8, <1>9
<1>11. Peel(preds)[0] = {}
  <2>1. 0 \in 0 .. N
    BY <1>0
  <2> QED
    BY <1>7, <2>1
<1>12. \A n \in 1 .. N : Peel(preds)[n] = {i \in DOMAIN preds : preds[i] \subseteq Peel(preds)[n - 1]}
  <2>1. \A n \in 1 .. N : n \in 0 .. N /\ n # 0
    BY <1>0
  <2> QED
    BY <1>7, <2>1
<1> QED
  BY <1>10, <1>11, <1>12 DEF Peels, N

LEMMA PeelFacts ==
  ASSUME NEW preds, IsFiniteSet(DOMAIN preds), NEW p, NEW N \in Nat,
         N = Cardinality(DOMAIN preds), Peels(preds, p, N)
  PROVE  /\ \A n \in 1 .. N : p[n - 1] \subseteq p[n]
         /\ p[N] = {i \in DOMAIN preds : preds[i] \subseteq p[N]}
<1> DEFINE nodes == DOMAIN preds
           D == SUBSET nodes
           F == [R \in D |-> {i \in nodes : preds[i] \subseteq R}]
           a == {}
<1>1. F \in [D -> D] /\ a \in D /\ p \in [0 .. N -> D]
  BY DEF Peels
<1>2. \A n \in 1 .. N : n - 1 \in 0 .. N /\ n \in 0 .. N
  OBVIOUS
<1>3. Iterates(F, a, p, N)
  BY <1>1, <1>2 DEF Iterates, Peels
<1>4. \A R, T \in D : R \subseteq T => F[R] \subseteq F[T]
  OBVIOUS
<1> HIDE DEF F, D, a
<1>5. \A n \in 1 .. N : p[n - 1] \subseteq p[n]
  <2> DEFINE Bad == {n \in 1 .. N : ~(p[n - 1] \subseteq p[n])}
  <2>1. SUFFICES ASSUME Bad # {} PROVE FALSE
    OBVIOUS
  <2>2. PICK m \in Bad : \A n \in Bad : m <= n
    <3>1. Bad \subseteq Nat
      OBVIOUS
    <3> HIDE DEF Bad
    <3> QED
      BY <2>1, <3>1, LeastNumber
  <2>3. m \in 1 .. N /\ ~(p[m - 1] \subseteq p[m])
    BY <2>2
  <2>4. m # 1
    BY <2>3 DEF Peels
  <2>5. m - 1 \in 1 .. N /\ m - 1 \notin Bad
    BY <2>2, <2>3, <2>4
  <2>6. p[(m - 1) - 1] \subseteq p[m - 1]
    BY <2>5
  <2>7. p[m] = F[p[m - 1]] /\ p[m - 1] = F[p[(m - 1) - 1]]
    BY <1>3, <2>3, <2>5 DEF Iterates
  <2>8. p[m - 1] \in D /\ p[(m - 1) - 1] \in D
    BY <1>1, <1>2, <2>3, <2>5
  <2> QED
    BY <1>4, <2>3, <2>6, <2>7, <2>8
<1>6. Grows(F, p, N)
  <2> SUFFICES ASSUME NEW n \in 0 .. N PROVE p[n] \subseteq F[p[n]]
    BY DEF Grows
  <2>1. CASE n = 0
    BY <2>1 DEF Peels
  <2>2. CASE n # 0
    <3>1. n \in 1 .. N /\ n - 1 \in 0 .. N
      BY <2>2
    <3>2. p[n] = F[p[n - 1]] /\ p[n - 1] \subseteq p[n]
      BY <1>3, <1>5, <3>1 DEF Iterates
    <3> QED
      BY <1>1, <1>4, <3>1, <3>2
  <2> QED
    BY <2>1, <2>2
<1>7. F[p[N]] = p[N]
  <2>1. /\ F \in [SUBSET nodes -> SUBSET nodes] /\ a \in SUBSET nodes
        /\ p \in [0 .. Cardinality(nodes) -> SUBSET nodes]
        /\ Iterates(F, a, p, Cardinality(nodes)) /\ Grows(F, p, Cardinality(nodes))
    BY <1>1, <1>3, <1>6 DEF D
  <2>2. F[p[Cardinality(nodes)]] = p[Cardinality(nodes)]
    BY <2>1, IterationStops
  <2> QED
    BY <2>2
<1>8. p[N] \in D
  BY <1>1
<1>9. p[N] = {i \in DOMAIN preds : preds[i] \subseteq p[N]}
  BY <1>7, <1>8 DEF F
<1> QED
  BY <1>5, <1>9

-----------------------------------------------------------------------------
(***************************************************************************)
(* Reach as a relation: it is transitive, and where there is no end there  *)
(* is a loop.                                                              *)
(***************************************************************************)

LEMMA ReachOne ==
  ASSUME NEW succ, Relates(succ), NEW i
  PROVE  /\ Reach(succ, {i}) \subseteq Ids
         /\ i \in DOMAIN succ => succ[i] \subseteq Reach(succ, {i})
         /\ i \notin DOMAIN succ => Reach(succ, {i}) = {}
         /\ \A j \in Reach(succ, {i}) \cap DOMAIN succ : succ[j] \subseteq Reach(succ, {i})
         /\ \A j \in Reach(succ, {i}) : Reach(succ, {j}) \subseteq Reach(succ, {i})
         /\ \A T : (i \in DOMAIN succ => succ[i] \subseteq T)
                     /\ (\A j \in T \cap DOMAIN succ : succ[j] \subseteq T)
                   => Reach(succ, {i}) \subseteq T
<1> DEFINE R == Reach(succ, {i})
<1>1. /\ R \subseteq Ids
      /\ Successors(succ, {i}) \subseteq R
      /\ Successors(succ, R) \subseteq R
      /\ \A T : Successors(succ, {i}) \subseteq T /\ Successors(succ, T) \subseteq T
                  => R \subseteq T
  BY ReachFacts
<1> HIDE DEF R
<1>2. i \in DOMAIN succ => succ[i] \subseteq R
  BY <1>1 DEF Successors
<1>3. \A j \in R \cap DOMAIN succ : succ[j] \subseteq R
  BY <1>1 DEF Successors
<1>4. ASSUME NEW T, i \in DOMAIN succ => succ[i] \subseteq T,
             \A j \in T \cap DOMAIN succ : succ[j] \subseteq T
      PROVE  R \subseteq T
  <2>1. Successors(succ, {i}) \subseteq T /\ Successors(succ, T) \subseteq T
    BY <1>4 DEF Successors
  <2> QED
    BY <1>1, <2>1
<1>5. i \notin DOMAIN succ => R = {}
  <2>1. ASSUME i \notin DOMAIN succ PROVE R \subseteq {}
    <3> DEFINE T == {}
    <3>1. i \in DOMAIN succ => succ[i] \subseteq T
      BY <2>1
    <3>2. \A j \in T \cap DOMAIN succ : succ[j] \subseteq T
      OBVIOUS
    <3> HIDE DEF T
    <3>3. R \subseteq T
      BY <1>4, <3>1, <3>2
    <3> QED
      BY <3>3 DEF T
  <2> QED
    BY <2>1
<1>6. ASSUME NEW j \in R PROVE Reach(succ, {j}) \subseteq R
  <2>1. Successors(succ, {j}) \subseteq R
    BY <1>3 DEF Successors
  <2> QED
    BY <1>1, <2>1, ReachFacts
<1>7. \A T : (i \in DOMAIN succ => succ[i] \subseteq T)
               /\ (\A j \in T \cap DOMAIN succ : succ[j] \subseteq T)
             => R \subseteq T
  BY <1>4
<1> QED
  BY <1>1, <1>2, <1>3, <1>5, <1>6, <1>7 DEF R

\* A path is a first step and the rest.
LEMMA ReachSplits ==
  ASSUME NEW succ, Relates(succ), NEW i \in DOMAIN succ
  PROVE  Reach(succ, {i}) = succ[i] \cup UNION {Reach(succ, {j}) : j \in succ[i]}
<1> DEFINE R == Reach(succ, {i})
           T == succ[i] \cup UNION {Reach(succ, {j}) : j \in succ[i]}
<1>1. T \subseteq R
  <2>1. succ[i] \subseteq R /\ \A j \in R : Reach(succ, {j}) \subseteq R
    BY ReachOne
  <2> HIDE DEF R
  <2> QED
    BY <2>1
<1>2. R \subseteq T
  <2>1. ASSUME NEW j \in T \cap DOMAIN succ PROVE succ[j] \subseteq T
    <3>1. CASE j \in succ[i]
      <4>1. succ[j] \subseteq Reach(succ, {j})
        BY ReachOne
      <4> QED
        BY <3>1, <4>1
    <3>2. CASE j \notin succ[i]
      <4>1. PICK k \in succ[i] : j \in Reach(succ, {k})
        BY <3>2
      <4>2. succ[j] \subseteq Reach(succ, {k})
        BY <4>1, ReachOne
      <4> QED
        BY <4>2
    <3> QED
      BY <3>1, <3>2
  <2>2. succ[i] \subseteq T
    OBVIOUS
  <2> HIDE DEF T
  <2> QED
    BY <2>1, <2>2, ReachOne
<1> QED
  BY <1>1, <1>2

\* From where every member of U has a successor in U, the way leads to a loop.
LEMMA NoEndIsSnared ==
  ASSUME NEW succ, Relates(succ), NEW U \in SUBSET DOMAIN succ,
         \A i \in U : succ[i] \cap U # {}
  PROVE  U \subseteq Snared(succ)
<1> SUFFICES ASSUME NEW i \in U PROVE i \in Snared(succ)
  OBVIOUS
<1> DEFINE V == ({i} \cup Reach(succ, {i})) \cap U
           Size(j) == Cardinality(Reach(succ, {j}))
           Sizes == {Size(j) : j \in V}
<1>1. \A j : IsFiniteSet(Reach(succ, {j})) /\ Size(j) \in Nat
  <2> SUFFICES ASSUME NEW j PROVE IsFiniteSet(Reach(succ, {j})) /\ Size(j) \in Nat
    OBVIOUS
  <2>1. Reach(succ, {j}) \in SUBSET Ids /\ IsFiniteSet(Ids)
    BY ReachOne, QueriesAssumption
  <2> QED
    BY <2>1, FS_Subset, FS_CardinalityType
<1>2. PICK least \in Sizes : \A s \in Sizes : least <= s
  <2>1. Sizes \subseteq Nat /\ Sizes # {}
    BY <1>1
  <2> HIDE DEF Sizes
  <2> QED
    BY <2>1, LeastNumber
<1>3. PICK j \in V : least = Size(j)
  BY <1>2
<1>4. PICK k \in U : k \in succ[j]
  BY <1>3
<1>5. k \in Reach(succ, {j}) /\ Reach(succ, {k}) \subseteq Reach(succ, {j})
  BY <1>3, <1>4, ReachOne
<1>6. k \in V
  <2>1. CASE j = i
    BY <1>4, <1>5, <2>1
  <2>2. CASE j \in Reach(succ, {i})
    <3>1. Reach(succ, {j}) \subseteq Reach(succ, {i})
      BY <2>2, ReachOne
    <3> QED
      BY <1>4, <1>5, <3>1
  <2> QED
    BY <1>3, <2>1, <2>2
<1>7. Size(j) <= Size(k)
  BY <1>2, <1>3, <1>6
<1>8. Reach(succ, {k}) = Reach(succ, {j})
  <2>1. Size(k) <= Size(j) /\ (Size(j) = Size(k) => Reach(succ, {j}) = Reach(succ, {k}))
    <3>1. Reach(succ, {k}) \in SUBSET Reach(succ, {j}) /\ IsFiniteSet(Reach(succ, {j}))
      BY <1>1, <1>5
    <3> QED
      BY <3>1, FS_Subset
  <2>2. Size(j) \in Nat /\ Size(k) \in Nat
    BY <1>1
  <2> HIDE DEF Size
  <2> QED
    BY <1>7, <2>1, <2>2
<1>9. k \in Loops(succ)
  BY <1>5, <1>8 DEF Loops
<1>10. k \in ({i} \cup Reach(succ, {i})) \cap Loops(succ)
  BY <1>6, <1>9
<1> QED
  BY <1>10 DEF Snared

-----------------------------------------------------------------------------
(***************************************************************************)
(* Layers.  Peeling leaves what is snared, and puts every other node in    *)
(* the layer after the last of those before it.                            *)
(***************************************************************************)

LEMMA MaxIs ==
  ASSUME NEW S, S \subseteq Int, NEW m \in S, \A x \in S : x <= m
  PROVE  Max(S) = m
<1>1. \A x \in S : (\A y \in S : x >= y) => x = m
  OBVIOUS
<1>2. \A y \in S : m >= y
  OBVIOUS
<1> QED
  BY <1>1, <1>2 DEF Max

LEMMA MinIs ==
  ASSUME NEW S, S \subseteq Int, NEW m \in S, \A x \in S : m <= x
  PROVE  Min(S) = m
<1>1. \A x \in S : (\A y \in S : x <= y) => x = m
  OBVIOUS
<1> QED
  BY <1>1 DEF Min

\* A relation that stays within its domain.
Within(preds) == DOMAIN preds \subseteq Ids /\ \A i \in DOMAIN preds : preds[i] \subseteq DOMAIN preds

LEMMA WithinRelates ==
  ASSUME NEW preds, Within(preds)
  PROVE  Relates(preds) /\ IsFiniteSet(DOMAIN preds) /\ Cardinality(DOMAIN preds) \in Nat
<1>1. DOMAIN preds \in SUBSET Ids /\ IsFiniteSet(Ids)
  BY QueriesAssumption DEF Within
<1> QED
  BY <1>1, FS_Subset, FS_CardinalityType DEF Within, Relates

\* The last layer is closed under preds, so none of it is snared.
LEMMA PeeledIsFree ==
  ASSUME NEW preds, Within(preds), NEW p, NEW N \in Nat,
         N = Cardinality(DOMAIN preds), Peels(preds, p, N)
  PROVE  p[N] \cap Snared(preds) = {}
<1>1. /\ Relates(preds) /\ IsFiniteSet(DOMAIN preds)
      /\ \A n \in 1 .. N : p[n - 1] \subseteq p[n]
      /\ p[N] = {i \in DOMAIN preds : preds[i] \subseteq p[N]}
  BY WithinRelates, PeelFacts
<1>2. \A n \in 0 .. N : \A i \in p[n] : i \in DOMAIN preds /\ Reach(preds, {i}) \subseteq p[n]
  <2> SUFFICES ASSUME NEW n \in 0 .. N, NEW i \in p[n]
               PROVE  i \in DOMAIN preds /\ Reach(preds, {i}) \subseteq p[n]
    OBVIOUS
  <2>1. n \in 1 .. N
    BY DEF Peels
  <2>2. i \in DOMAIN preds /\ preds[i] \subseteq p[n - 1] /\ p[n - 1] \subseteq p[n]
    BY <1>1, <2>1 DEF Peels
  <2>3. ASSUME NEW j \in p[n] \cap DOMAIN preds PROVE preds[j] \subseteq p[n]
    BY <1>1, <2>1, <2>3 DEF Peels
  <2>4. preds[i] \subseteq p[n]
    BY <2>2
  <2> DEFINE T == p[n]
  <2>5. (i \in DOMAIN preds => preds[i] \subseteq T) /\ \A j \in T \cap DOMAIN preds : preds[j] \subseteq T
    BY <2>3, <2>4
  <2> HIDE DEF T
  <2>6. \A X : (i \in DOMAIN preds => preds[i] \subseteq X)
                 /\ (\A j \in X \cap DOMAIN preds : preds[j] \subseteq X)
               => Reach(preds, {i}) \subseteq X
    BY <1>1, ReachOne
  <2>7. Reach(preds, {i}) \subseteq T
    BY <2>5, <2>6
  <2> QED
    BY <2>2, <2>7 DEF T
<1>3. \A n \in 0 .. N : p[n] \cap Loops(preds) = {}
  <2> DEFINE Bad == {n \in 0 .. N : p[n] \cap Loops(preds) # {}}
  <2>1. SUFFICES ASSUME Bad # {} PROVE FALSE
    OBVIOUS
  <2>2. PICK m \in Bad : \A n \in Bad : m <= n
    <3>1. Bad \subseteq Nat
      OBVIOUS
    <3> HIDE DEF Bad
    <3> QED
      BY <2>1, <3>1, LeastNumber
  <2>3. m \in 0 .. N /\ p[m] \cap Loops(preds) # {}
    BY <2>2
  <2>4. m \in 1 .. N
    BY <2>3 DEF Peels
  <2>5. PICK i \in p[m] : i \in Loops(preds)
    BY <2>3
  <2>6. m - 1 \in 0 .. N /\ m - 1 \notin Bad
    BY <2>2, <2>4
  <2>7. p[m - 1] \cap Loops(preds) = {}
    BY <2>6
  <2>8. i \in DOMAIN preds /\ preds[i] \subseteq p[m - 1]
    BY <2>4, <2>5 DEF Peels
  <2>9. \A j \in p[m - 1] \cap DOMAIN preds : preds[j] \subseteq p[m - 1]
    <3> SUFFICES ASSUME NEW j \in p[m - 1] \cap DOMAIN preds PROVE preds[j] \subseteq p[m - 1]
      OBVIOUS
    <3>1. Reach(preds, {j}) \subseteq p[m - 1]
      BY <1>2, <2>6
    <3>2. preds[j] \subseteq Reach(preds, {j})
      BY <1>1, ReachOne
    <3> QED
      BY <3>1, <3>2
  <2> DEFINE T == p[m - 1]
  <2>10. (i \in DOMAIN preds => preds[i] \subseteq T) /\ \A j \in T \cap DOMAIN preds : preds[j] \subseteq T
    BY <2>8, <2>9
  <2> HIDE DEF T
  <2>11. Reach(preds, {i}) \subseteq T
    BY <1>1, <2>10, ReachOne
  <2>12. i \in Reach(preds, {i})
    BY <2>5 DEF Loops
  <2> QED
    BY <2>5, <2>7, <2>11, <2>12 DEF T
<1>4. N \in 0 .. N
  OBVIOUS
<1>5. \A i \in p[N] : ({i} \cup Reach(preds, {i})) \subseteq p[N]
  BY <1>2, <1>4
<1>6. p[N] \cap Loops(preds) = {}
  BY <1>3, <1>4
<1>7. \A i \in p[N] : ({i} \cup Reach(preds, {i})) \cap Loops(preds) = {}
  BY <1>5, <1>6
<1> QED
  BY <1>7 DEF Snared

LEMMA PeelingLeavesSnared ==
  ASSUME NEW preds, Within(preds), NEW p, NEW N \in Nat,
         N = Cardinality(DOMAIN preds), Peels(preds, p, N)
  PROVE  DOMAIN preds \ p[N] = Snared(preds)
<1>1. /\ Relates(preds) /\ IsFiniteSet(DOMAIN preds)
      /\ p[N] = {i \in DOMAIN preds : preds[i] \subseteq p[N]}
  BY WithinRelates, PeelFacts
<1> DEFINE U == DOMAIN preds \ p[N]
<1>2. U \in SUBSET DOMAIN preds /\ \A i \in U : preds[i] \cap U # {}
  BY <1>1 DEF Within
<1> HIDE DEF U
<1>3. U \subseteq Snared(preds)
  BY <1>1, <1>2, NoEndIsSnared
<1>4. Snared(preds) \subseteq DOMAIN preds
  BY DEF Snared
<1> QED
  BY <1>3, <1>4, PeeledIsFree DEF U

\* The layers lie within each other, and a node is new in exactly one.
LEMMA LayersNest ==
  ASSUME NEW preds, IsFiniteSet(DOMAIN preds), NEW p, NEW N \in Nat,
         N = Cardinality(DOMAIN preds), Peels(preds, p, N)
  PROVE  /\ \A m, n \in 0 .. N : m <= n => p[m] \subseteq p[n]
         /\ \A i \in p[N] : \E n \in 1 .. N : i \in p[n] \ p[n - 1]
         /\ \A i : \A m, n \in 1 .. N : i \in p[m] \ p[m - 1] /\ i \in p[n] \ p[n - 1] => m = n
<1>1. \A n \in 1 .. N : p[n - 1] \subseteq p[n]
  BY PeelFacts
<1>2. ASSUME NEW m \in 0 .. N, NEW k \in 0 .. N, m <= k PROVE p[m] \subseteq p[k]
  <2> DEFINE Bad == {n \in m .. N : ~(p[m] \subseteq p[n])}
  <2>1. SUFFICES ASSUME Bad # {} PROVE FALSE
    BY <1>2
  <2>2. PICK n \in Bad : \A l \in Bad : n <= l
    <3>1. Bad \subseteq Nat
      OBVIOUS
    <3> HIDE DEF Bad
    <3> QED
      BY <2>1, <3>1, LeastNumber
  <2>3. n \in m .. N /\ ~(p[m] \subseteq p[n])
    BY <2>2
  <2>4. n # m
    BY <2>3
  <2>5. n - 1 \in m .. N /\ n \in 1 .. N /\ n - 1 \notin Bad
    BY <2>2, <2>3, <2>4
  <2>6. p[m] \subseteq p[n - 1]
    BY <2>5
  <2> QED
    BY <1>1, <2>3, <2>5, <2>6
<1>3. ASSUME NEW i \in p[N] PROVE \E n \in 1 .. N : i \in p[n] \ p[n - 1]
  <2> DEFINE In == {n \in 0 .. N : i \in p[n]}
  <2>1. In \subseteq Nat /\ N \in In
    OBVIOUS
  <2>2. PICK n \in In : \A l \in In : n <= l
    <3> HIDE DEF In
    <3> QED
      BY <2>1, LeastNumber
  <2>3. n # 0
    BY <2>2 DEF Peels
  <2>4. n \in 1 .. N /\ n - 1 \in 0 .. N /\ n - 1 \notin In
    BY <2>2, <2>3
  <2> QED
    BY <2>2, <2>4
<1>4. ASSUME NEW i, NEW m \in 1 .. N, NEW n \in 1 .. N,
             i \in p[m] \ p[m - 1], i \in p[n] \ p[n - 1]
      PROVE  m = n
  <2>1. ~(m <= n - 1) /\ ~(n <= m - 1)
    <3>1. m - 1 \in 0 .. N /\ n - 1 \in 0 .. N /\ m \in 0 .. N /\ n \in 0 .. N
      OBVIOUS
    <3> QED
      BY <1>2, <1>4, <3>1
  <2> QED
    BY <2>1
<1> QED
  BY <1>2, <1>3, <1>4

Places(lev, p, N) == \A i \in p[N] : lev[i] \in 1 .. N /\ i \in p[lev[i]] \ p[lev[i] - 1]

\* The layer of a node follows the deepest of its preds.
LEMMA LayerFollows ==
  ASSUME NEW preds, Within(preds), NEW p, NEW N \in Nat,
         N = Cardinality(DOMAIN preds), Peels(preds, p, N),
         NEW lev, Places(lev, p, N),
         NEW n \in 1 .. N, NEW i \in p[n] \ p[n - 1]
  PROVE  /\ preds[i] \subseteq p[N]
         /\ n = 1 + Max({0} \cup {lev[k] : k \in preds[i]})
<1>1. /\ \A l, m \in 0 .. N : l <= m => p[l] \subseteq p[m]
      /\ \A j : \A l, m \in 1 .. N : j \in p[l] \ p[l - 1] /\ j \in p[m] \ p[m - 1] => l = m
  BY WithinRelates, LayersNest
<1>2. n - 1 \in 0 .. N /\ N \in 0 .. N /\ n \in 0 .. N
  OBVIOUS
<1>3. i \in DOMAIN preds /\ preds[i] \subseteq p[n - 1] /\ p[n - 1] \subseteq p[N]
  BY <1>1, <1>2 DEF Peels
<1> DEFINE S == {0} \cup {lev[k] : k \in preds[i]}
<1>4. \A k \in preds[i] : lev[k] \in 1 .. N /\ lev[k] <= n - 1
  <2> SUFFICES ASSUME NEW k \in preds[i] PROVE lev[k] \in 1 .. N /\ lev[k] <= n - 1
    OBVIOUS
  <2>1. k \in p[N] /\ k \in p[n - 1]
    BY <1>3
  <2>2. lev[k] \in 1 .. N /\ k \notin p[lev[k] - 1]
    BY <2>1 DEF Places
  <2>3. ~(n - 1 <= lev[k] - 1)
    <3>1. lev[k] - 1 \in 0 .. N
      BY <2>2
    <3> QED
      BY <1>1, <1>2, <2>1, <2>2, <3>1
  <2> QED
    BY <2>2, <2>3
<1>5. n - 1 \in S
  <2>1. CASE n = 1
    BY <2>1
  <2>2. CASE n # 1
    <3>1. n - 1 \in 1 .. N /\ (n - 1) - 1 \in 0 .. N
      BY <2>2
    <3>2. i \notin p[n - 1] /\ p[n - 1] = {j \in DOMAIN preds : preds[j] \subseteq p[(n - 1) - 1]}
      BY <3>1 DEF Peels
    <3>3. PICK k \in preds[i] : k \notin p[(n - 1) - 1]
      BY <1>3, <3>2
    <3>4. k \in p[n - 1] /\ k \in p[N]
      BY <1>3
    <3>5. lev[k] = n - 1
      BY <1>1, <3>1, <3>3, <3>4 DEF Places
    <3> QED
      BY <3>5
  <2> QED
    BY <2>1, <2>2
<1>6. S \subseteq Int /\ \A x \in S : x <= n - 1
  BY <1>4
<1> HIDE DEF S
<1>7. Max(S) = n - 1
  BY <1>5, <1>6, MaxIs
<1> QED
  BY <1>3, <1>7 DEF S

-----------------------------------------------------------------------------
(***************************************************************************)
(* The waves.                                                              *)
(***************************************************************************)

LEMMA SnaredGrows ==
  ASSUME NEW less, NEW more, Relates(less), Relates(more), DOMAIN less \subseteq DOMAIN more,
         \A i \in DOMAIN less : less[i] \subseteq more[i]
  PROVE  Snared(less) \subseteq Snared(more)
<1>1. \A i : Reach(less, {i}) \subseteq Reach(more, {i})
  <2> SUFFICES ASSUME NEW i PROVE Reach(less, {i}) \subseteq Reach(more, {i})
    OBVIOUS
  <2> DEFINE T == Reach(more, {i})
  <2>1. (i \in DOMAIN more => more[i] \subseteq T) /\ \A j \in T \cap DOMAIN more : more[j] \subseteq T
    BY ReachOne
  <2> HIDE DEF T
  <2>2. (i \in DOMAIN less => less[i] \subseteq T) /\ \A j \in T \cap DOMAIN less : less[j] \subseteq T
    BY <2>1
  <2>3. \A X : (i \in DOMAIN less => less[i] \subseteq X)
                 /\ (\A j \in X \cap DOMAIN less : less[j] \subseteq X)
               => Reach(less, {i}) \subseteq X
    BY ReachOne
  <2> QED
    BY <2>2, <2>3 DEF T
<1>2. Loops(less) \subseteq Loops(more)
  BY <1>1 DEF Loops
<1> QED
  BY <1>1, <1>2 DEF Snared

Eligible(tasks) == {i \in tasks : Open(i) /\ ~IsAwaiting(i)}

Virtual(tasks) == (UNION {OpenBlockers(i) : i \in Eligible(tasks)}) \ Eligible(tasks)

WavePreds(tasks) ==
  [i \in Eligible(tasks) \cup Virtual(tasks) |->
     IF i \in Virtual(tasks) THEN {} ELSE OpenBlockers(i)]

LEMMA WavePredsWithin ==
  ASSUME Typed, NEW tasks
  PROVE  /\ Within(WavePreds(tasks))
         /\ Eligible(tasks) \subseteq Ticks /\ Virtual(tasks) \subseteq Ticks
         /\ \A i \in Eligible(tasks) : WavePreds(tasks)[i] = OpenBlockers(i)
         /\ \A i \in Virtual(tasks) : WavePreds(tasks)[i] = {}
<1> DEFINE E == Eligible(tasks)
           V == Virtual(tasks)
<1>1. E \subseteq Ticks
  BY DEF Eligible, Open
<1> HIDE DEF E
<1>2. \A i \in E : OpenBlockers(i) \subseteq Ticks
  BY DEF OpenBlockers, Open
<1> DEFINE B == UNION {OpenBlockers(i) : i \in E}
<1>3. V = B \ E
  BY DEF Virtual, E
<1> HIDE DEF V
<1>4. V \subseteq Ticks /\ V \cap E = {} /\ \A i \in E : OpenBlockers(i) \subseteq E \cup V
  BY <1>2, <1>3
<1> HIDE DEF B
<1>5. WavePreds(tasks) = [i \in E \cup V |-> IF i \in V THEN {} ELSE OpenBlockers(i)]
  BY DEF WavePreds, E, V
<1>6. Within(WavePreds(tasks))
  BY <1>1, <1>4, <1>5 DEF Within, Typed
<1>7. /\ \A i \in E : WavePreds(tasks)[i] = OpenBlockers(i)
      /\ \A i \in V : WavePreds(tasks)[i] = {}
  BY <1>4, <1>5
<1> QED
  BY <1>1, <1>4, <1>6, <1>7 DEF E, V

\* Compute in terms of the layers.
LEMMA ComputeFacts ==
  ASSUME Typed, NEW tasks, NEW p, p = Peel(WavePreds(tasks)),
         NEW N, N = Cardinality(Eligible(tasks) \cup Virtual(tasks))
  PROVE  /\ N \in Nat /\ Peels(WavePreds(tasks), p, N) /\ N = Cardinality(DOMAIN WavePreds(tasks))
         /\ DOMAIN Compute(tasks).waves = 1 .. N
         /\ \A n \in 1 .. N : Compute(tasks).waves[n] = (p[n] \ p[n - 1]) \cap Eligible(tasks)
         /\ Compute(tasks).cycle = Eligible(tasks) \ p[N]
<1>1. DOMAIN WavePreds(tasks) = Eligible(tasks) \cup Virtual(tasks)
  BY DEF WavePreds
<1>2. N \in Nat /\ Peels(WavePreds(tasks), p, N)
  BY <1>1, WavePredsWithin, WithinRelates, PeelSteps
<1>3. Compute(tasks) = [waves |-> [n \in 1 .. N |-> (p[n] \ p[n - 1]) \cap Eligible(tasks)],
                        cycle |-> Eligible(tasks) \ p[N]]
  BY DEF Compute, Eligible, Virtual, WavePreds
<1> QED
  BY <1>1, <1>2, <1>3

LEMMA CycleIsSnared ==
  ASSUME Typed, NEW tasks
  PROVE  Compute(tasks).cycle =
           Snared([i \in Eligible(tasks) |-> OpenBlockers(i) \cap Eligible(tasks)])
<1> DEFINE E == Eligible(tasks)
           V == Virtual(tasks)
           preds == WavePreds(tasks)
           p == Peel(preds)
           N == Cardinality(E \cup V)
           succ == [i \in E |-> OpenBlockers(i) \cap E]
           U == E \ p[N]
<1>1. /\ Within(preds) /\ E \subseteq Ticks
      /\ \A i \in E : preds[i] = OpenBlockers(i)
      /\ \A i \in V : preds[i] = {}
      /\ DOMAIN preds = E \cup V
  BY WavePredsWithin DEF WavePreds
<1>2. N \in Nat /\ Peels(preds, p, N) /\ N = Cardinality(DOMAIN preds)
      /\ Compute(tasks).cycle = U
  BY ComputeFacts
<1>3. Relates(succ) /\ Relates(preds)
  BY <1>1, WithinRelates DEF Relates, Typed
<1> HIDE DEF E, V, preds, p, N
<1>4. p[N] = {i \in DOMAIN preds : preds[i] \subseteq p[N]}
  <2>1. IsFiniteSet(DOMAIN preds)
    BY <1>1, WithinRelates
  <2> QED
    BY <1>2, <2>1, PeelFacts
<1>5. \A i \in U : succ[i] \cap U # {}
  <2> SUFFICES ASSUME NEW i \in U PROVE succ[i] \cap U # {}
    OBVIOUS
  <2>1. i \in E /\ i \in DOMAIN preds /\ preds[i] = OpenBlockers(i) /\ preds[i] \subseteq DOMAIN preds
    BY <1>1 DEF Within
  <2>2. PICK k \in OpenBlockers(i) : k \notin p[N]
    BY <1>4, <2>1
  <2>3. k \in E \cup V
    BY <1>1, <2>1
  <2>4. k \notin V
    BY <1>1, <1>4, <2>2, <2>3
  <2> QED
    BY <2>1, <2>2, <2>3, <2>4
<1>6. U \subseteq Snared(succ)
  <2>1. U \in SUBSET DOMAIN succ
    OBVIOUS
  <2> HIDE DEF succ, U
  <2> QED
    BY <1>3, <1>5, <2>1, NoEndIsSnared
<1>7. Snared(succ) \subseteq U
  <2>1. DOMAIN succ \subseteq DOMAIN preds /\ \A i \in DOMAIN succ : succ[i] \subseteq preds[i]
    BY <1>1
  <2>2. Snared(succ) \subseteq DOMAIN succ /\ DOMAIN succ = E
    BY DEF Snared
  <2> HIDE DEF succ
  <2>3. Snared(succ) \subseteq Snared(preds)
    BY <1>3, <2>1, SnaredGrows
  <2>4. p[N] \cap Snared(preds) = {}
    BY <1>1, <1>2, PeeledIsFree
  <2> QED
    BY <2>2, <2>3, <2>4
<1> QED
  BY <1>2, <1>6, <1>7 DEF E

LEMMA WavesFollow ==
  ASSUME Typed, NEW tasks,
         NEW n \in DOMAIN Compute(tasks).waves, NEW i \in Compute(tasks).waves[n]
  PROVE  LET LevelOf(j) == IF j \in Eligible(tasks)
                             THEN CHOOSE m \in DOMAIN Compute(tasks).waves : j \in Compute(tasks).waves[m]
                             ELSE 1
         IN  n = 1 + Max({0} \cup {LevelOf(b) : b \in OpenBlockers(i)})
<1> DEFINE waves == Compute(tasks).waves
           E == Eligible(tasks)
           V == Virtual(tasks)
           preds == WavePreds(tasks)
           p == Peel(preds)
           N == Cardinality(E \cup V)
           LevelOf(j) == IF j \in E THEN CHOOSE m \in DOMAIN waves : j \in waves[m] ELSE 1
           lev == [j \in p[N] |-> LevelOf(j)]
<1>1. /\ Within(preds)
      /\ \A j \in E : preds[j] = OpenBlockers(j)
      /\ \A j \in V : preds[j] = {}
      /\ DOMAIN preds = E \cup V
  BY WavePredsWithin DEF WavePreds
<1>2. /\ N \in Nat /\ Peels(preds, p, N) /\ N = Cardinality(DOMAIN preds)
      /\ DOMAIN waves = 1 .. N
      /\ \A m \in 1 .. N : waves[m] = (p[m] \ p[m - 1]) \cap E
  BY ComputeFacts
<1>0. n \in DOMAIN waves /\ i \in waves[n]
  OBVIOUS
<1> HIDE DEF E, V, preds, p, N, waves
<1>3. \A j \in p[N] : \E m \in 1 .. N : j \in p[m] \ p[m - 1]
  BY <1>1, <1>2, WithinRelates, LayersNest
<1>4. \A j \in p[N] : LevelOf(j) \in 1 .. N /\ j \in p[LevelOf(j)] \ p[LevelOf(j) - 1]
  <2> SUFFICES ASSUME NEW j \in p[N]
               PROVE  LevelOf(j) \in 1 .. N /\ j \in p[LevelOf(j)] \ p[LevelOf(j) - 1]
    OBVIOUS
  <2>1. CASE j \in E
    <3>1. \E m \in DOMAIN waves : j \in waves[m]
      BY <1>2, <1>3, <2>1
    <3>2. LevelOf(j) \in DOMAIN waves /\ j \in waves[LevelOf(j)]
      BY <2>1, <3>1
    <3> HIDE DEF LevelOf
    <3> QED
      BY <1>2, <3>2
  <2>2. CASE j \notin E
    <3>1. N \in 0 .. N /\ p[N] \subseteq DOMAIN preds
      BY <1>2 DEF Peels
    <3>2. j \in V /\ j \in DOMAIN preds /\ preds[j] = {}
      BY <1>1, <2>2, <3>1
    <3>3. 1 \in 1 .. N
      BY <1>2, <1>3
    <3>4. j \in p[1] /\ p[0] = {}
      BY <1>2, <3>2, <3>3 DEF Peels
    <3> QED
      BY <2>2, <3>3, <3>4
  <2> QED
    BY <2>1, <2>2
<1> HIDE DEF LevelOf
<1>5. Places(lev, p, N)
  BY <1>4 DEF Places
<1>6. n \in 1 .. N /\ i \in p[n] \ p[n - 1] /\ i \in E
  BY <1>0, <1>2
<1> HIDE DEF lev
<1>7. preds[i] \subseteq p[N] /\ n = 1 + Max({0} \cup {lev[k] : k \in preds[i]})
  BY <1>1, <1>2, <1>5, <1>6, LayerFollows
<1>8. {lev[k] : k \in preds[i]} = {LevelOf(b) : b \in OpenBlockers(i)}
  <2>1. preds[i] = OpenBlockers(i)
    BY <1>1, <1>6
  <2>2. \A k \in preds[i] : lev[k] = LevelOf(k)
    BY <1>7 DEF lev
  <2> QED
    BY <2>1, <2>2
<1>9. n = 1 + Max({0} \cup {LevelOf(b) : b \in OpenBlockers(i)})
  BY <1>7, <1>8
<1> QED
  BY <1>9 DEF LevelOf, E, waves

\* Whoever is snared by a loop that leaves the ticks to be planned has, among what
\* he waits for inside, a tick with a blocker outside.
LEMMA LoopsLeave ==
  ASSUME Typed, NEW E, E \subseteq Ticks,
         NEW all, all = [j \in Ticks |-> OpenBlockers(j)],
         NEW inside, inside = [j \in E |-> OpenBlockers(j) \cap E],
         NEW i \in E \cap Snared(all), i \notin Snared(inside)
  PROVE  /\ \E j \in {i} \cup Reach(inside, {i}) : OpenBlockers(j) \ E # {}
         /\ OpenBlockers(i) # {}
<1>1. Relates(all) /\ Relates(inside) /\ DOMAIN all = Ticks /\ DOMAIN inside = E
  BY DEF Relates, Typed, OpenBlockers, Open
<1>2. PICK k \in {i} \cup Reach(all, {i}) : k \in Ticks /\ k \in Reach(all, {k})
  BY <1>1 DEF Snared, Loops
<1>3. ASSUME NEW j \in {i} \cup Reach(inside, {i}) PROVE j \in E
  <2>1. i \in DOMAIN inside => inside[i] \subseteq E
    BY <1>1
  <2>2. \A x \in E \cap DOMAIN inside : inside[x] \subseteq E
    BY <1>1
  <2>3. Reach(inside, {i}) \subseteq E
    BY <1>1, <2>1, <2>2, ReachOne
  <2> QED
    BY <1>3, <2>3
<1>4. ASSUME NEW R, R = {i} \cup Reach(inside, {i}), \A j \in R : OpenBlockers(j) \ E = {}
      PROVE  FALSE
  <2>1. \A j \in R : j \in E /\ j \in Ticks /\ all[j] = inside[j]
    BY <1>1, <1>3, <1>4
  <2>2. ASSUME NEW x \in R
        PROVE  Reach(all, {x}) \subseteq Reach(inside, {x}) /\ Reach(inside, {x}) \subseteq R
    <3> DEFINE T == Reach(inside, {x})
    <3>1. /\ x \in DOMAIN inside => inside[x] \subseteq T
          /\ \A j \in T \cap DOMAIN inside : inside[j] \subseteq T
      <4>1. Relates(inside)
        BY <1>1
      <4> QED
        BY <4>1, ReachOne, Zenon
    <3>2. T \subseteq R
      <4>1. x \in Reach(inside, {i}) => T \subseteq Reach(inside, {i})
        BY <1>1, ReachOne
      <4> QED
        BY <1>4, <2>2, <4>1
    <3> HIDE DEF T
    <3>3. /\ x \in DOMAIN all => all[x] \subseteq T
          /\ \A j \in T \cap DOMAIN all : all[j] \subseteq T
      BY <1>1, <2>1, <2>2, <3>1, <3>2
    <3>4. Reach(all, {x}) \subseteq T
      BY <1>1, <3>3, ReachOne
    <3> QED
      BY <3>2, <3>4 DEF T
  <2>3. k \in R
    BY <1>2, <1>4, <2>2
  <2>4. k \in Loops(inside)
    BY <1>1, <1>2, <2>1, <2>2, <2>3 DEF Loops
  <2>5. i \in Snared(inside)
    BY <1>1, <1>4, <2>3, <2>4 DEF Snared
  <2> QED
    BY <2>5
<1>5. ASSUME OpenBlockers(i) = {} PROVE FALSE
  <2> DEFINE T == {}
  <2>1. (i \in DOMAIN all => all[i] \subseteq T) /\ \A j \in T \cap DOMAIN all : all[j] \subseteq T
    BY <1>5
  <2> HIDE DEF T
  <2>2. Reach(all, {i}) \subseteq T
    BY <1>1, <2>1, ReachOne
  <2>3. Reach(all, {i}) = {}
    BY <2>2 DEF T
  <2> QED
    BY <1>2, <2>3
<1> QED
  BY <1>4, <1>5

LEMMA LoopsWait ==
  ASSUME Typed, NEW tasks, NEW i \in Eligible(tasks), OpenBlockers(i) # {},
         i \notin Compute(tasks).cycle
  PROVE  \E n \in DOMAIN Compute(tasks).waves : n > 1 /\ i \in Compute(tasks).waves[n]
<1> DEFINE waves == Compute(tasks).waves
           E == Eligible(tasks)
           V == Virtual(tasks)
           preds == WavePreds(tasks)
           p == Peel(preds)
           N == Cardinality(E \cup V)
<1>1. Within(preds) /\ preds[i] # {}
  BY WavePredsWithin
<1>2. /\ N \in Nat /\ Peels(preds, p, N) /\ N = Cardinality(DOMAIN preds)
      /\ DOMAIN waves = 1 .. N
      /\ \A m \in 1 .. N : waves[m] = (p[m] \ p[m - 1]) \cap E
      /\ Compute(tasks).cycle = E \ p[N]
  BY ComputeFacts
<1>0. i \in E /\ i \notin Compute(tasks).cycle
  OBVIOUS
<1> HIDE DEF E, V, preds, p, N, waves
<1>3. i \in p[N]
  BY <1>0, <1>2
<1>4. PICK m \in 1 .. N : i \in p[m] \ p[m - 1]
  BY <1>1, <1>2, <1>3, WithinRelates, LayersNest
<1>5. m # 1
  <2> SUFFICES ASSUME m = 1 PROVE FALSE
    OBVIOUS
  <2>1. p[m] = {x \in DOMAIN preds : preds[x] \subseteq p[m - 1]} /\ p[m - 1] = {}
    BY <1>2, <1>4 DEF Peels
  <2> QED
    BY <1>1, <1>4, <2>1
<1>6. m \in DOMAIN waves /\ m > 1 /\ i \in waves[m]
  BY <1>0, <1>2, <1>4, <1>5
<1> QED
  BY <1>6 DEF waves

LEMMA WavesSoundHolds == Typed => WavesSound
<1> SUFFICES ASSUME Typed PROVE WavesSound
  OBVIOUS
<1>1. ASSUME NEW tasks
      PROVE  LET result   == Compute(tasks)
                 eligible == Eligible(tasks)
                 inside   == [i \in eligible |-> OpenBlockers(i) \cap eligible]
                 LevelOf(i) == IF i \in eligible
                                 THEN CHOOSE n \in DOMAIN result.waves : i \in result.waves[n] ELSE 1
             IN  /\ result.cycle = Snared(inside)
                 /\ \A n \in DOMAIN result.waves : \A i \in result.waves[n] :
                      n = 1 + Max({0} \cup {LevelOf(b) : b \in OpenBlockers(i)})
                 /\ \A i \in eligible \cap Snared([j \in Ticks |-> OpenBlockers(j)]) :
                      \/ i \in result.cycle
                      \/ /\ \E j \in {i} \cup Reach(inside, {i}) : OpenBlockers(j) \ eligible # {}
                         /\ \E n \in DOMAIN result.waves : n > 1 /\ i \in result.waves[n]
  <2> DEFINE inside == [i \in Eligible(tasks) |-> OpenBlockers(i) \cap Eligible(tasks)]
             all == [j \in Ticks |-> OpenBlockers(j)]
             LevelOf(j) == IF j \in Eligible(tasks)
               THEN CHOOSE m \in DOMAIN Compute(tasks).waves : j \in Compute(tasks).waves[m] ELSE 1
  <2>2. Compute(tasks).cycle = Snared(inside)
    BY CycleIsSnared
  <2>3. \A n \in DOMAIN Compute(tasks).waves : \A i \in Compute(tasks).waves[n] :
          n = 1 + Max({0} \cup {LevelOf(b) : b \in OpenBlockers(i)})
    BY WavesFollow
  <2>4. ASSUME NEW i \in Eligible(tasks) \cap Snared(all), i \notin Compute(tasks).cycle
        PROVE  /\ \E j \in {i} \cup Reach(inside, {i}) : OpenBlockers(j) \ Eligible(tasks) # {}
               /\ \E n \in DOMAIN Compute(tasks).waves : n > 1 /\ i \in Compute(tasks).waves[n]
    <3> HIDE DEF inside, all
    <3>1. Eligible(tasks) \subseteq Ticks
      BY WavePredsWithin
    <3>2. /\ \E j \in {i} \cup Reach(inside, {i}) : OpenBlockers(j) \ Eligible(tasks) # {}
          /\ OpenBlockers(i) # {}
      BY <2>2, <2>4, <3>1, LoopsLeave DEF inside, all
    <3> QED
      BY <2>4, <3>2, LoopsWait
  <2>5. \A i \in Eligible(tasks) \cap Snared(all) :
           \/ i \in Compute(tasks).cycle
           \/ /\ \E j \in {i} \cup Reach(inside, {i}) : OpenBlockers(j) \ Eligible(tasks) # {}
              /\ \E n \in DOMAIN Compute(tasks).waves : n > 1 /\ i \in Compute(tasks).waves[n]
    BY <2>4
  <2> QED
    BY <2>2, <2>3, <2>5, Zenon
<1> QED
  BY <1>1, Zenon DEF WavesSound, Eligible

\* For every tracker and every set of ticks to be planned: a tick is in the wave
\* after its last open blocker, in none exactly if it is on, or behind, a loop of
\* blockers among them, and if it is snared by a loop that leaves them it waits for
\* a tick outside and is not in the first wave.
THEOREM WavesAreSound == Spec => []WavesSound
  BY TypeCorrect, WavesSoundHolds, PTL

-----------------------------------------------------------------------------
(***************************************************************************)
(* A frontier at rest.                                                     *)
(***************************************************************************)

\* An open tick that nothing but open ticks keeps from being an item.
Unexplained(j) ==
  /\ ~IsAwaiting(j) /\ ~ticks[j].deferred /\ ticks[j].status # "in_progress"
  /\ ~SaysComplete(j)

LEMMA WaitsForRelates ==
  ASSUME Typed
  PROVE  /\ Relates(WaitsFor) /\ DOMAIN WaitsFor = Ticks
         /\ \A i \in Ticks : \A j \in WaitsFor[i] : j \in Ticks /\ Open(j)
<1>1. /\ DOMAIN WaitsFor = Ticks
      /\ \A i \in Ticks : WaitsFor[i] =
           OpenBlockers(i) \cup {c \in Children(i) : Open(c) /\ ticks[i].type = "epic"}
  BY DEF WaitsFor
<1>2. \A i \in Ticks : \A j \in WaitsFor[i] : j \in Ticks /\ Open(j)
  BY <1>1 DEF OpenBlockers, Open
<1> QED
  BY <1>1, <1>2 DEF Relates, Typed

LEMMA UnexplainedWaits ==
  ASSUME Typed, NEW j \in Ticks, Open(j), Unexplained(j), ~Startable(j)
  PROVE  WaitsFor[j] # {}
<1>1. WaitsFor[j] = OpenBlockers(j) \cup {c \in Children(j) : Open(c) /\ ticks[j].type = "epic"}
  BY DEF WaitsFor
<1>2. CASE OpenBlockers(j) # {}
  BY <1>1, <1>2
<1>3. CASE OpenBlockers(j) = {}
  <2>1. ticks[j].status = "open"
    BY Fields DEF Unexplained, Open
  <2>2. ticks[j].type = "epic" /\ ~NeedsPlanning(j)
    BY <1>3, <2>1 DEF Startable, Unexplained
  <2>3. Children(j) # {}
    BY <1>3, <2>1, <2>2 DEF NeedsPlanning, Ready, Unexplained
  <2>4. PICK c \in Children(j) : Open(c)
    BY <2>3 DEF Unexplained, SaysComplete
  <2> QED
    BY <1>1, <2>2, <2>4
<1> QED
  BY <1>2, <1>3

LEMMA RestIsExplainedHolds == Typed => RestIsExplained
<1> SUFFICES ASSUME Typed, Summary(Frontier(Root, NoFilter)) # "actionable",
                    NEW i \in Ticks, Open(i)
             PROVE  \E j \in {i} \cup Reach(WaitsFor, {i}) :
                      \/ IsAwaiting(j) \/ ticks[j].deferred \/ ticks[j].status = "in_progress"
                      \/ SaysComplete(j) \/ j \in Loops(WaitsFor)
  BY DEF RestIsExplained
<1> DEFINE R == {i} \cup Reach(WaitsFor, {i})
<1>1. \A j \in Ticks : ~Startable(j)
  <2>1. InScope(Root, NoFilter) = Ticks /\ ~Actionable(Frontier(Root, NoFilter))
    BY NoFilterIsAll DEF InScope, Actionable
  <2>2. {j \in InScope(Root, NoFilter) : Startable(j)} = {}
    BY <2>1, FrontierFacts
  <2> QED
    BY <2>1, <2>2
<1>2. \A j \in R : j \in Ticks /\ Open(j)
  <2> DEFINE T == {j \in Ticks : Open(j)}
  <2>1. (i \in DOMAIN WaitsFor => WaitsFor[i] \subseteq T)
        /\ \A j \in T \cap DOMAIN WaitsFor : WaitsFor[j] \subseteq T
    BY WaitsForRelates
  <2> HIDE DEF T
  <2>2. \A X : (i \in DOMAIN WaitsFor => WaitsFor[i] \subseteq X)
                 /\ (\A j \in X \cap DOMAIN WaitsFor : WaitsFor[j] \subseteq X)
               => Reach(WaitsFor, {i}) \subseteq X
    BY WaitsForRelates, ReachOne
  <2>3. Reach(WaitsFor, {i}) \subseteq T
    BY <2>1, <2>2
  <2> QED
    BY <2>3 DEF T
<1>3. \A j \in R : WaitsFor[j] \subseteq R
  <2>1. /\ i \in DOMAIN WaitsFor => WaitsFor[i] \subseteq Reach(WaitsFor, {i})
        /\ \A j \in Reach(WaitsFor, {i}) \cap DOMAIN WaitsFor : WaitsFor[j] \subseteq Reach(WaitsFor, {i})
    BY WaitsForRelates, ReachOne
  <2> QED
    BY <1>2, <2>1, WaitsForRelates
<1> HIDE DEF R
<1>4. SUFFICES ASSUME \A j \in R : Unexplained(j)
               PROVE  \E j \in R : j \in Loops(WaitsFor)
  BY DEF Unexplained, R
<1>5. R \in SUBSET DOMAIN WaitsFor /\ \A j \in R : WaitsFor[j] \cap R # {}
  BY <1>1, <1>2, <1>3, <1>4, UnexplainedWaits, WaitsForRelates
<1>6. i \in R
  BY DEF R
<1>7. i \in Snared(WaitsFor)
  BY <1>5, <1>6, NoEndIsSnared, WaitsForRelates
<1> QED
  BY <1>7 DEF Snared, R

\* When the frontier of any tracker reports rest, every open tick waits in the end
\* for a human, a date, work in flight, an epic to be closed, or a loop.
THEOREM RestIsAlwaysExplained == Spec => []RestIsExplained
  BY TypeCorrect, RestIsExplainedHolds, PTL

-----------------------------------------------------------------------------
(***************************************************************************)
(* The roadmap.                                                            *)
(***************************************************************************)

LEMMA NodePredsFacts ==
  ASSUME Typed
  PROVE  /\ DOMAIN NodePreds = Nodes /\ Within(NodePreds) /\ Nodes \subseteq Ticks
         /\ \A i \in Nodes : NodePreds[i] \subseteq Nodes
<1>1. Nodes \subseteq Ticks
  BY DEF Nodes
<1>2. NodePreds = [i \in Nodes |-> (ticks[i].blockedBy \cup ticks[i].after) \cap Nodes]
  BY DEF NodePreds
<1> QED
  BY <1>1, <1>2 DEF Within, Typed

\* The wave of a node follows those of its preds, unless it is stuck.
LEMMA NodeWaves ==
  ASSUME Typed, NEW i \in Nodes
  PROVE  IF i \in Snared(NodePreds) THEN RoadmapWaves[i] = Cardinality(Nodes) + 1
         ELSE RoadmapWaves[i] = 1 + Max({0} \cup {RoadmapWaves[p] : p \in NodePreds[i]})
<1> DEFINE preds == NodePreds
           p == Peel(preds)
           N == Cardinality(Nodes)
           wave == RoadmapWaves
           lev == [j \in p[N] |-> wave[j]]
<1>1. DOMAIN preds = Nodes /\ Within(preds) /\ \A j \in Nodes : preds[j] \subseteq Nodes
  BY NodePredsFacts
<1>2. N \in Nat /\ Peels(preds, p, N) /\ N = Cardinality(DOMAIN preds)
  BY <1>1, WithinRelates, PeelSteps
<1>3. wave = [j \in Nodes |-> IF j \in p[N] THEN Min({n \in 1 .. N : j \in p[n]}) ELSE N + 1]
  BY DEF RoadmapWaves
<1> HIDE DEF preds, p, N, wave
<1>4. Nodes \ p[N] = Snared(preds)
  BY <1>1, <1>2, PeelingLeavesSnared
<1>5. p[N] \subseteq Nodes
  <2>1. N \in 0 .. N
    BY <1>2
  <2> QED
    BY <1>1, <1>2, <2>1 DEF Peels
<1>6. \A m, n \in 0 .. N : m <= n => p[m] \subseteq p[n]
  <2>1. IsFiniteSet(DOMAIN preds)
    BY <1>1, WithinRelates
  <2> QED
    BY <1>2, <2>1, LayersNest
<1>7. Places(lev, p, N)
  <2> SUFFICES ASSUME NEW j \in p[N]
               PROVE  wave[j] \in 1 .. N /\ j \in p[wave[j]] \ p[wave[j] - 1]
    BY DEF Places
  <2>1. PICK n \in 1 .. N : j \in p[n] \ p[n - 1]
    <3>1. IsFiniteSet(DOMAIN preds)
      BY <1>1, WithinRelates
    <3> QED
      BY <1>2, <3>1, LayersNest
  <2> DEFINE S == {m \in 1 .. N : j \in p[m]}
  <2>2. \A m \in S : n <= m
    <3> SUFFICES ASSUME NEW m \in S, ~(n <= m) PROVE FALSE
      OBVIOUS
    <3>1. m \in 0 .. N /\ n - 1 \in 0 .. N /\ m <= n - 1
      BY <1>2
    <3> QED
      BY <1>6, <2>1, <3>1
  <2>3. S \subseteq Int /\ n \in S
    BY <2>1
  <2> HIDE DEF S
  <2>4. Min(S) = n
    BY <2>2, <2>3, MinIs
  <2>5. wave[j] = n
    BY <1>3, <1>5, <2>4 DEF S
  <2> QED
    BY <2>1, <2>5
<1>8. ASSUME i \in Snared(preds) PROVE wave[i] = N + 1
  BY <1>3, <1>4, <1>8
<1>9. ASSUME i \notin Snared(preds)
      PROVE  wave[i] = 1 + Max({0} \cup {wave[j] : j \in preds[i]})
  <2>1. i \in p[N]
    BY <1>4, <1>9
  <2>2. lev[i] \in 1 .. N /\ i \in p[lev[i]] \ p[lev[i] - 1] /\ lev[i] = wave[i]
    BY <1>7, <2>1 DEF Places
  <2> HIDE DEF lev
  <2> DEFINE n == lev[i]
  <2>3. n \in 1 .. N /\ i \in p[n] \ p[n - 1]
    BY <2>2
  <2> HIDE DEF n
  <2>4. preds[i] \subseteq p[N] /\ n = 1 + Max({0} \cup {lev[k] : k \in preds[i]})
    BY <1>1, <1>2, <1>7, <2>3, LayerFollows
  <2>5. {lev[k] : k \in preds[i]} = {wave[j] : j \in preds[i]}
    BY <2>4 DEF lev
  <2> QED
    BY <2>2, <2>4, <2>5 DEF n
<1> QED
  BY <1>8, <1>9 DEF preds, N, wave

\* What leads to something snared, and only that, is snared.
LEMMA SnaredBack ==
  ASSUME NEW succ, Within(succ), NEW i \in DOMAIN succ
  PROVE  i \in Snared(succ) <=> succ[i] \cap Snared(succ) # {}
<1> DEFINE L == Loops(succ)
           R == Reach(succ, {i})
<1>1. Relates(succ) /\ \A j \in succ[i] : j \in DOMAIN succ
  BY WithinRelates DEF Within
<1>2. R = succ[i] \cup UNION {Reach(succ, {j}) : j \in succ[i]}
  BY <1>1, ReachSplits
<1>3. \A j : j \in Snared(succ) <=> j \in DOMAIN succ /\ ({j} \cup Reach(succ, {j})) \cap L # {}
  BY DEF Snared
<1>4. R = Reach(succ, {i}) /\ (i \in L <=> i \in R)
  BY DEF Loops
<1> HIDE DEF L, R
<1>5. ASSUME NEW j \in succ[i], j \in Snared(succ) PROVE i \in Snared(succ)
  <2>1. ({j} \cup Reach(succ, {j})) \subseteq R
    BY <1>2
  <2> QED
    BY <1>3, <1>4, <1>5, <2>1
<1>6. ASSUME i \in Snared(succ) PROVE \E j \in succ[i] : j \in Snared(succ)
  <2>1. PICK k \in L : k = i \/ k \in R
    BY <1>3, <1>4, <1>6
  <2>2. k \in R
    BY <1>4, <2>1
  <2>3. PICK j \in succ[i] : k = j \/ k \in Reach(succ, {j})
    BY <1>2, <2>2
  <2> QED
    BY <1>1, <1>3, <2>3
<1> QED
  BY <1>5, <1>6

\* The tree layout prints what is not below a loop of projects.
LEMMA TreeIsWhole ==
  ASSUME Typed
  PROVE  TreeShows(Nodes) = Nodes \ Snared([i \in Nodes |-> {EnclosingProject(i)} \ {Root}])
<1> DEFINE up == [i \in Nodes |-> {EnclosingProject(i)} \ {Root}]
           down == Members(Nodes)
           roots == {i \in Nodes : EnclosingProject(i) = Root}
           Shown == TreeShows(Nodes)
<1>1. \A i \in Nodes : /\ EnclosingProject(i) \in Nodes \cup {Root}
                       /\ EnclosingProject(i) # Root => Role(EnclosingProject(i)) = "project"
  BY DEF EnclosingProject
<1>2. Nodes \subseteq Ids /\ Root \notin Nodes
  BY RootIsNoTick DEF Nodes, Typed
<1>3. /\ DOMAIN down = Nodes
      /\ \A q, i \in Nodes : i \in down[q] <=> EnclosingProject(i) = q
      /\ \A q \in Nodes : down[q] \subseteq Nodes
  <2>1. down = [q \in Nodes |-> {i \in Nodes : Role(q) = "project" /\ EnclosingProject(i) = q}]
    BY DEF Members
  <2> QED
    BY <1>1, <1>2, <2>1
<1>4. /\ DOMAIN up = Nodes
      /\ \A i \in roots : up[i] = {}
      /\ \A i \in Nodes \ roots : up[i] = {EnclosingProject(i)} /\ EnclosingProject(i) \in Nodes
  BY <1>1
<1>5. roots \subseteq Nodes
  OBVIOUS
<1>6. Shown = roots \cup Reach(down, roots)
  BY DEF TreeShows
<1> HIDE DEF up, down, Shown, roots
<1>7. Relates(up) /\ Within(up) /\ Relates(down)
  BY <1>2, <1>3, <1>4 DEF Relates, Within
<1>8. /\ Successors(down, roots) \subseteq Reach(down, roots)
      /\ Successors(down, Reach(down, roots)) \subseteq Reach(down, roots)
      /\ \A T : Successors(down, roots) \subseteq T /\ Successors(down, T) \subseteq T
                  => Reach(down, roots) \subseteq T
  BY <1>7, ReachFacts
<1>9. \A q \in Shown \cap Nodes : down[q] \subseteq Shown
  <2>1. \A q \in Shown \cap Nodes : q \in roots \/ q \in Reach(down, roots)
    BY <1>6
  <2> QED
    BY <1>3, <1>6, <1>8, <2>1 DEF Successors
<1>10. Nodes \ Shown \subseteq Snared(up)
  <2> DEFINE U == Nodes \ Shown
  <2>1. \A i \in U : up[i] \cap U # {}
    <3> SUFFICES ASSUME NEW i \in U PROVE up[i] \cap U # {}
      OBVIOUS
    <3>1. i \in Nodes \ roots
      BY <1>6
    <3>2. up[i] = {EnclosingProject(i)} /\ EnclosingProject(i) \in Nodes
      BY <1>4, <3>1
    <3>3. EnclosingProject(i) \notin Shown
      BY <1>3, <1>9, <3>2
    <3> QED
      BY <3>2, <3>3
  <2>2. U \in SUBSET DOMAIN up
    BY <1>4
  <2> HIDE DEF U
  <2>3. U \subseteq Snared(up)
    BY <1>7, <2>1, <2>2, NoEndIsSnared
  <2> QED
    BY <2>3 DEF U
<1>11. Shown \subseteq Nodes \ Snared(up)
  <2> DEFINE T == Nodes \ Snared(up)
  <2>1. \A i \in Nodes : i \in Snared(up) <=> up[i] \cap Snared(up) # {}
    BY <1>4, <1>7, SnaredBack
  <2>2. roots \subseteq T
    BY <1>4, <1>5, <2>1
  <2>3. Successors(down, T) \subseteq T
    <3> SUFFICES ASSUME NEW q \in T \cap Nodes, NEW i \in down[q] PROVE i \in T
      BY <1>3 DEF Successors
    <3>1. i \in Nodes /\ EnclosingProject(i) = q /\ q \notin Snared(up)
      BY <1>3
    <3>2. up[i] \cap Snared(up) = {}
      BY <1>4, <3>1
    <3> QED
      BY <2>1, <3>1, <3>2
  <2> HIDE DEF T
  <2>4. Successors(down, roots) \subseteq T
    BY <2>2, <2>3 DEF Successors
  <2>5. Reach(down, roots) \subseteq T
    BY <1>8, <2>3, <2>4
  <2> QED
    BY <1>6, <2>2, <2>5 DEF T
<1>12. Shown = Nodes \ Snared(up)
  BY <1>10, <1>11
<1> QED
  BY <1>12 DEF Shown, up

\* A container has the leaves of its children.
LEMMA LeavesOfChildren ==
  ASSUME Typed, NEW i \in Ticks, Children(i) # {}
  PROVE  Leaves(i) = UNION {Leaves(c) : c \in Children(i)}
<1> DEFINE down == [p \in Ids |-> Children(p)]
<1>1. Relates(down) /\ i \in DOMAIN down /\ down[i] = Children(i)
  BY DEF Relates, Children, Typed
<1>2. \A x : Below(x) = Reach(down, {x})
  BY DEF Below
<1>3. Children(i) \subseteq Ticks
  BY DEF Children
<1> HIDE DEF down
<1>4. Reach(down, {i}) = down[i] \cup UNION {Reach(down, {c}) : c \in down[i]}
  BY <1>1, ReachSplits
<1>5. Below(i) = Children(i) \cup UNION {Below(c) : c \in Children(i)}
  BY <1>1, <1>2, <1>4
<1>6. \A c \in Children(i) : Leaves(c) = {x \in Below(c) \cup {c} : Children(x) = {}}
  BY <1>3 DEF Leaves
<1>7. Leaves(i) = {x \in Below(i) : Children(x) = {}}
  BY DEF Leaves
<1> QED
  BY <1>5, <1>6, <1>7

\* The nodes linked with one are the same from each of them.
LEMMA ChainIsShared ==
  ASSUME Typed, NEW i \in Nodes, NEW j \in Chain(i)
  PROVE  Chain(j) = Chain(i)
<1> DEFINE preds == NodePreds
           link == [x \in Nodes |-> preds[x] \cup {k \in Nodes : x \in preds[k]}]
<1>1. /\ Nodes \subseteq Ids
      /\ \A x \in Nodes : preds[x] \subseteq Nodes
  BY NodePredsFacts DEF Typed
<1>2. \A x : Chain(x) = {x} \cup Reach(link, {x})
  BY DEF Chain
<1> HIDE DEF preds
<1>3. /\ Relates(link) /\ DOMAIN link = Nodes
      /\ \A x \in Nodes : link[x] \subseteq Nodes
      /\ \A x, y \in Nodes : y \in link[x] => x \in link[y]
  BY <1>1 DEF Relates
<1> HIDE DEF link
<1>4. ASSUME j # i PROVE i \in Reach(link, {j}) /\ j \in Reach(link, {i})
  <2>1. j \in Reach(link, {i})
    BY <1>2, <1>4
  <2> DEFINE T == {x \in Nodes : i \in Reach(link, {x})}
  <2>2. link[i] \subseteq T
    <3> SUFFICES ASSUME NEW x \in link[i] PROVE x \in T
      OBVIOUS
    <3>1. x \in Nodes /\ i \in link[x]
      BY <1>3
    <3>2. link[x] \subseteq Reach(link, {x})
      BY <1>3, <3>1, ReachOne
    <3> QED
      BY <3>1, <3>2
  <2>3. \A x \in T \cap DOMAIN link : link[x] \subseteq T
    <3> SUFFICES ASSUME NEW x \in Nodes, i \in Reach(link, {x}), NEW y \in link[x] PROVE y \in T
      OBVIOUS
    <3>1. y \in Nodes /\ x \in link[y]
      BY <1>3
    <3>2. /\ link[y] \subseteq Reach(link, {y})
          /\ \A z \in Reach(link, {y}) : Reach(link, {z}) \subseteq Reach(link, {y})
      BY <1>3, <3>1, ReachOne
    <3> QED
      BY <3>1, <3>2
  <2> HIDE DEF T
  <2>4. \A X : (i \in DOMAIN link => link[i] \subseteq X)
                 /\ (\A x \in X \cap DOMAIN link : link[x] \subseteq X)
               => Reach(link, {i}) \subseteq X
    BY <1>3, ReachOne
  <2>5. Reach(link, {i}) \subseteq T
    BY <2>2, <2>3, <2>4
  <2> QED
    BY <2>1, <2>5 DEF T
<1>5. \A x, y : y \in Reach(link, {x}) => Reach(link, {y}) \subseteq Reach(link, {x})
  BY <1>3, ReachOne
<1>6. CASE j = i
  BY <1>6
<1>7. CASE j # i
  BY <1>2, <1>4, <1>5, <1>7
<1> QED
  BY <1>6, <1>7

\* A project that is done is not overdue, and is to be closed out unless it is.
LEMMA ProjectsEnd ==
  ASSUME Typed, NEW p \in Nodes, Role(p) = "project"
  PROVE  /\ NeedsCloseout(p) <=> Open(p) /\ NodeStatus(p) = "done"
         /\ NodeStatus(p) = "done" => p \notin Apply([overdue |-> TRUE])
<1>1. NodeStatus(p) = "done" <=> Total(p) > 0 /\ Closed(p) = Total(p)
  BY DEF NodeStatus, ProjectStatus
<1>2. p \in Ticks /\ Total(p) \in Nat
  <2>1. Below(p) \subseteq Ids
    <3> DEFINE down == [q \in Ids |-> Children(q)]
    <3>1. Relates(down)
      BY DEF Relates, Children, Typed
    <3> HIDE DEF down
    <3>2. Reach(down, {p}) \subseteq Ids
      BY <3>1, ReachOne
    <3> QED
      BY <3>2 DEF Below, down
  <2>2. p \in Ticks
    BY DEF Nodes
  <2>3. Leaves(p) \in SUBSET Ids
    BY <2>1, <2>2 DEF Leaves, Typed
  <2>4. IsFiniteSet(Leaves(p))
    BY <2>3, FS_Subset, QueriesAssumption
  <2> QED
    BY <2>2, <2>4, FS_CardinalityType DEF Total
<1>3. NeedsCloseout(p) <=> Open(p) /\ NodeStatus(p) = "done"
  BY <1>1 DEF NeedsCloseout
<1>4. ASSUME Closed(p) = Total(p) PROVE Slip(p) # "overdue"
  <2>1. ~(Closed(p) < Total(p))
    BY <1>2, <1>4
  <2>2. CASE ticks[p].due = None
    BY <2>2 DEF Slip, None
  <2>3. CASE ticks[p].due # None
    BY <2>1, <2>3 DEF Slip
  <2> QED
    BY <2>2, <2>3
<1>5. ASSUME p \in Apply([overdue |-> TRUE]) PROVE Slip(p) = "overdue"
  BY <1>5 DEF Apply
<1> QED
  BY <1>1, <1>3, <1>4, <1>5

LEMMA RoadmapWholeHolds == Typed => RoadmapWhole
<1> SUFFICES ASSUME Typed PROVE RoadmapWhole
  OBVIOUS
<1>1. \A i \in Nodes :
        IF i \in Snared(NodePreds) THEN RoadmapWaves[i] = Cardinality(Nodes) + 1
        ELSE RoadmapWaves[i] = 1 + Max({0} \cup {RoadmapWaves[p] : p \in NodePreds[i]})
  BY NodeWaves
<1>2. TreeShows(Nodes) = Nodes \ Snared([i \in Nodes |-> {EnclosingProject(i)} \ {Root}])
  BY TreeIsWhole
<1>3. \A i \in Ticks : Children(i) # {} => Leaves(i) = UNION {Leaves(c) : c \in Children(i)}
  BY LeavesOfChildren
<1>4. \A i \in Nodes : \A j \in Chain(i) : Chain(j) = Chain(i)
  BY ChainIsShared
<1>5. \A p \in {i \in Nodes : Role(i) = "project"} :
        /\ NeedsCloseout(p) <=> Open(p) /\ NodeStatus(p) = "done"
        /\ NodeStatus(p) = "done" => p \notin Apply([overdue |-> TRUE])
  BY ProjectsEnd
<1> QED
  BY <1>1, <1>2, <1>3, <1>4, <1>5, Zenon DEF RoadmapWhole

\* For every tracker: the roadmap's waves follow the order of the nodes, its tree
\* hides only what is below a loop of projects, and what it says of a container
\* follows from the children.
THEOREM RoadmapIsWhole == Spec => []RoadmapWhole
  BY TypeCorrect, RoadmapWholeHolds, PTL

-----------------------------------------------------------------------------
(***************************************************************************)
(* What the close of an epic announces.                                    *)
(***************************************************************************)

LEMMA BelowChildren ==
  ASSUME Typed, NEW s \in Ids
  PROVE  Children(s) \subseteq Below(s)
<1> DEFINE down == [p \in Ids |-> Children(p)]
<1>1. Relates(down) /\ s \in DOMAIN down /\ down[s] = Children(s)
  BY DEF Relates, Children, Typed
<1> HIDE DEF down
<1>2. Children(s) \subseteq Reach(down, {s})
  BY <1>1, ReachOne
<1> QED
  BY <1>2 DEF Below, down

\* An epic to be planned is on the frontier of its parent.
LEMMA PlannedByParent ==
  Typed => \A s \in Ids : \A e \in Ticks :
             ticks[e].parent = s /\ NeedsPlanning(e) => e \in ItemIds(Frontier(s, NoFilter))
<1> SUFFICES ASSUME Typed, NEW s \in Ids, NEW e \in Ticks, ticks[e].parent = s, NeedsPlanning(e)
             PROVE  e \in ItemIds(Frontier(s, NoFilter))
  OBVIOUS
<1>1. s # Root
  BY RootIsNoTick
<1>2. e \in Below(s)
  BY BelowChildren DEF Children
<1>3. e \in InScope(s, NoFilter)
  BY <1>1, <1>2, NoFilterIsAll DEF InScope
<1>4. Startable(e)
  BY PlanStartable
<1>5. ItemIds(Frontier(s, NoFilter)) =
        {i \in InScope(s, NoFilter) : Startable(i)} \cup {i \in {s} \cap Ticks : NeedsPlanning(i)}
  BY FrontierFacts
<1> QED
  BY <1>3, <1>4, <1>5

\* The scope that a loud close announces is the project of the epic that ends.
LEMMA LoudScope ==
  ASSUME Typed, NEW i \in Ticks, IsLoud(i),
         NEW epic, epic = IF ticks[i].type = "epic" THEN i ELSE ticks[i].parent,
         NEW project, project = IF epic \in Ticks THEN ticks[epic].parent ELSE Root,
         project # Root
  PROVE  CloseScope(i) = project /\ project \in Ids
<1>1. epic \in Ticks /\ project = ticks[epic].parent
  OBVIOUS
<1>2. project \in Ids
  BY <1>1, Fields
<1> QED
  BY <1>1, <1>2 DEF CloseScope, IsLoud

\* What was last printed was printed of the tracker as it is.
Said == said = Silent \/ \E i \in Ticks : said \in Continuation(i)

LEMMA SameContinuation ==
  ASSUME ticks' = ticks, NEW i
  PROVE  Continuation(i)' = Continuation(i)
  BY DEF Continuation, Frontier, CloseScope, NoFilter, Apply, Slip, Closed, Total, Leaves, Below,
     Children, Open, Ready, OpenBlockers, IsAwaiting, NeedsPlanning, PlanningCandidates, Action,
     Actionable, Summary, Named, ItemIds, IsLoud, Ticks

LEMMA StepSaid == Typed /\ Said /\ [Next]_vars => Said'
<1> SUFFICES ASSUME Typed, Said, [Next]_vars PROVE Said'
  OBVIOUS
<1>1. CASE UNCHANGED vars
  <2>1. ticks' = ticks /\ said' = said /\ Ticks' = Ticks
    BY <1>1 DEF vars, Ticks
  <2>2. \A i \in Ticks : Continuation(i)' = Continuation(i)
    BY <2>1, SameContinuation
  <2>3. Silent' = Silent
    BY DEF Silent
  <2> QED
    BY <2>1, <2>2 DEF Said
<1>2. ASSUME NEW new, Edit(new) PROVE Said'
  BY <1>2 DEF Edit, Said
<1>3. CASE Create
  BY <1>2, <1>3, Zenon DEF Create
<1>4. ASSUME NEW i \in Ticks, Update(i) PROVE Said'
  BY <1>2, <1>4, Zenon DEF Update
<1>5. ASSUME NEW i \in Ticks, Block(i) PROVE Said'
  BY <1>2, <1>5, Zenon DEF Block
<1>6. ASSUME NEW i \in Ticks, Unblock(i) PROVE Said'
  BY <1>2, <1>6, Zenon DEF Unblock
<1>7. ASSUME NEW i \in Ticks, Delete(i) PROVE Said'
  BY <1>2, <1>7, Zenon DEF Delete
<1>8. ASSUME NEW i \in Ticks, Close(i) PROVE Said'
  <2>1. CASE Edit(Routed(i))
    BY <1>2, <2>1, Zenon
  <2>2. ASSUME NEW C, Write(Ended(i, C)), said' \in Continuation(i)'
        PROVE  Said'
    <3>1. i \in Ticks'
      BY <2>2 DEF Write, Ended, Ticks
    <3> QED
      BY <2>2, <3>1 DEF Said
  <2> QED
    BY <1>8, <2>1, <2>2, CloseSteps, Zenon
<1> QED
  BY <1>1, <1>3, <1>4, <1>5, <1>6, <1>7, <1>8 DEF Next

LEMMA SaidFacts ==
  ASSUME NEW i, said \in Continuation(i),
         NEW front, front = Frontier(CloseScope(i), NoFilter),
         NEW ids, ids = ItemIds(front)
  PROVE  /\ said.of = i
         /\ Actionable(front) =>
              /\ IsLoud(i) => said.line = "go on"
              /\ said.named \subseteq ids /\ said.more = Cardinality(ids \ said.named)
              /\ IF Cardinality(ids) <= MaxNamed THEN said.named = ids
                 ELSE Cardinality(said.named) = MaxNamed
         /\ ~Actionable(front) => said.named = {} /\ said.more = 0
<1>1. CASE Actionable(front)
  <2>1. PICK S \in Named(front) :
          said = [of |-> i, line |-> IF IsLoud(i) THEN "go on" ELSE "actionable",
                  named |-> S, more |-> Cardinality(ids \ S)]
    BY <1>1, Zenon DEF Continuation
  <2>2. S \subseteq ids /\ IF Cardinality(ids) <= MaxNamed THEN S = ids ELSE Cardinality(S) = MaxNamed
    BY <2>1, Zenon DEF Named
  <2> QED
    BY <1>1, <2>1, <2>2
<1>2. CASE ~Actionable(front)
  <2>1. said = [of |-> i, line |-> IF IsLoud(i) THEN "at rest" ELSE None,
                named |-> {}, more |-> 0]
    BY <1>2, Zenon DEF Continuation
  <2> QED
    BY <1>2, <2>1
<1> QED
  BY <1>1, <1>2

EpicOf(i) == IF ticks[i].type = "epic" THEN i ELSE ticks[i].parent
ProjectOf(i) == IF EpicOf(i) \in Ticks THEN ticks[EpicOf(i)].parent ELSE Root
ToPlan(project) == {e \in Ticks : ticks[e].parent = project /\ NeedsPlanning(e)}

LEMMA LoudClose ==
  ASSUME Typed, NEW i \in Ticks, said \in Continuation(i), IsLoud(i),
         NEW project, project = ProjectOf(i), project # Root,
         NEW next, next = ToPlan(project)
  PROVE  /\ next # {} => said.line = "go on"
         /\ Cardinality(next \ said.named) <= said.more
         /\ said.more > 0 => Cardinality(said.named) = MaxNamed
         /\ said.named \subseteq ItemIds(Frontier(project, NoFilter))
<1>1. CloseScope(i) = project /\ project \in Ids
  BY LoudScope DEF EpicOf, ProjectOf
<1> DEFINE front == Frontier(CloseScope(i), NoFilter)
           ids == ItemIds(front)
<1>2. next \subseteq ids
  BY <1>1, PlannedByParent DEF ToPlan
<1>3. (Actionable(front) <=> ids # {}) /\ ids \subseteq Ticks
  BY FrontierFacts
<1>4. ids = ItemIds(Frontier(project, NoFilter))
  BY <1>1
<1>5. /\ Actionable(front) =>
           /\ said.line = "go on"
           /\ said.named \subseteq ids /\ said.more = Cardinality(ids \ said.named)
           /\ IF Cardinality(ids) <= MaxNamed THEN said.named = ids
              ELSE Cardinality(said.named) = MaxNamed
      /\ ~Actionable(front) => said.named = {} /\ said.more = 0
  BY SaidFacts
<1> HIDE DEF front, ids
<1>6. IsFiniteSet(ids) /\ Cardinality(ids) \in Nat
  <2>1. ids \in SUBSET Ids /\ IsFiniteSet(Ids)
    BY <1>3, QueriesAssumption DEF Typed
  <2> QED
    BY <2>1, FS_Subset, FS_CardinalityType
<1>7. CASE Actionable(front)
  <2>1. Cardinality(next \ said.named) <= Cardinality(ids \ said.named)
    <3>1. IsFiniteSet(ids \ said.named) /\ next \ said.named \in SUBSET (ids \ said.named)
      BY <1>2, <1>6, FS_Subset
    <3> QED
      BY <3>1, FS_Subset
  <2>2. Cardinality(ids \ said.named) > 0 => Cardinality(said.named) = MaxNamed
    <3>1. CASE Cardinality(ids) <= MaxNamed
      <4>1. ids \ said.named = {}
        BY <1>5, <1>7, <3>1, Zenon
      <4>2. Cardinality(ids \ said.named) = 0
        BY <4>1, FS_EmptySet, Zenon
      <4> QED
        BY <4>2
    <3>2. CASE ~(Cardinality(ids) <= MaxNamed)
      BY <1>5, <1>7, <3>2, Zenon
    <3> QED
      BY <3>1, <3>2
  <2>3. /\ said.line = "go on" /\ said.more = Cardinality(ids \ said.named)
        /\ said.named \subseteq ids
    BY <1>5, <1>7, Zenon
  <2>4. Cardinality(next \ said.named) <= said.more
    BY <2>1, <2>3, Zenon
  <2>5. said.more > 0 => Cardinality(said.named) = MaxNamed
    BY <2>2, <2>3, Zenon
  <2>6. said.named \subseteq ItemIds(Frontier(project, NoFilter))
    BY <1>4, <2>3, Zenon
  <2>7. next # {} => said.line = "go on"
    BY <2>3, Zenon
  <2> QED
    BY <2>4, <2>5, <2>6, <2>7, Zenon
<1>8. CASE ~Actionable(front)
  <2>1. next = {} /\ said.named = {} /\ said.more = 0
    BY <1>2, <1>3, <1>5, <1>8
  <2>2. Cardinality(next \ said.named) = 0
    BY <2>1, FS_EmptySet
  <2>3. ~(said.more > 0) /\ Cardinality(next \ said.named) <= said.more
    BY <2>1, <2>2
  <2> QED
    BY <2>1, <2>3, Zenon
<1> QED
  BY <1>7, <1>8

LEMMA CloseNamesNextHolds == Typed /\ Said => CloseNamesNext
<1> SUFFICES ASSUME Typed, Said PROVE CloseNamesNext
  OBVIOUS
<1>1. CASE said = Silent
  <2>1. said.of = Root
    BY <1>1 DEF Silent
  <2> QED
    BY <2>1, Zenon DEF CloseNamesNext
<1>2. ASSUME NEW i \in Ticks, said \in Continuation(i) PROVE CloseNamesNext
  <2>1. said.of = i
    BY <1>2, SaidFacts
  <2>2. IsLoud(i) /\ ProjectOf(i) # Root =>
          /\ ToPlan(ProjectOf(i)) # {} => said.line = "go on"
          /\ Cardinality(ToPlan(ProjectOf(i)) \ said.named) <= said.more
          /\ said.more > 0 => Cardinality(said.named) = MaxNamed
          /\ said.named \subseteq ItemIds(Frontier(ProjectOf(i), NoFilter))
    BY <1>2, LoudClose
  <2> QED
    BY <2>1, <2>2, Zenon DEF CloseNamesNext, EpicOf, ProjectOf, ToPlan
<1> QED
  BY <1>1, <1>2, Zenon DEF Said

\* In any tracker, and however many items a line names, tk close of an epic or of
\* its close-out tick says loudly that the run goes on while an epic of the same
\* project can be planned, which it names or counts.
THEOREM ClosesNameNext == Spec => []CloseNamesNext
<1>1. Init => Said
  BY DEF Init, Said
<1> QED
  BY <1>1, TypeCorrect, StepSaid, CloseNamesNextHolds, PTL DEF Spec

-----------------------------------------------------------------------------
(***************************************************************************)
(* The rest of tk graph --all: a function on the subsets of a finite set,  *)
(* each of whose values depends on those at smaller subsets, is defined.   *)
(***************************************************************************)

LEMMA GreatestNumber ==
  ASSUME NEW S, S \subseteq Nat, IsFiniteSet(S), S # {}
  PROVE  Max(S) \in S
<1> DEFINE Above(y) == {x \in S : x > y}
           Size(y) == Cardinality(Above(y))
           Sizes == {Size(y) : y \in S}
<1>1. \A y \in S : IsFiniteSet(Above(y)) /\ Size(y) \in Nat
  <2> SUFFICES ASSUME NEW y \in S PROVE IsFiniteSet(Above(y)) /\ Size(y) \in Nat
    OBVIOUS
  <2>1. Above(y) \in SUBSET S
    OBVIOUS
  <2> HIDE DEF Above
  <2> QED
    BY <2>1, FS_Subset, FS_CardinalityType
<1>2. PICK least \in Sizes : \A s \in Sizes : least <= s
  <2>1. Sizes \subseteq Nat /\ Sizes # {}
    BY <1>1
  <2> HIDE DEF Sizes
  <2> QED
    BY <2>1, LeastNumber
<1>3. PICK y \in S : least = Size(y)
  BY <1>2
<1>4. \A x \in S : y >= x
  <2> SUFFICES ASSUME NEW x \in S, x > y PROVE FALSE
    OBVIOUS
  <2>1. Above(x) \in SUBSET Above(y) /\ Above(x) # Above(y)
    <3>1. x \in Nat /\ y \in Nat
      OBVIOUS
    <3>2. x \in Above(y) /\ x \notin Above(x)
      BY <3>1
    <3>3. \A z \in S : z > x => z > y
      BY <3>1
    <3> QED
      BY <3>2, <3>3
  <2>2. Size(y) <= Size(x)
    BY <1>2, <1>3
  <2> HIDE DEF Above
  <2>3. Cardinality(Above(x)) <= Cardinality(Above(y)) /\ Cardinality(Above(y)) # Cardinality(Above(x))
    BY <1>1, <2>1, FS_Subset
  <2> QED
    BY <1>1, <2>2, <2>3
<1> QED
  BY <1>4 DEF Max

OnSubsets(D, X) == \E V : D = [SUBSET X -> V]

BySize(F, X, D) ==
  \A g, h \in D : \A S \in SUBSET X :
    (\A T \in SUBSET S : T # S => g[T] = h[T]) => F[g][S] = F[h][S]

LEMMA DefinedBySize ==
  ASSUME NEW X, IsFiniteSet(X), NEW D, OnSubsets(D, X),
         NEW F \in [D -> D], NEW a \in D, BySize(F, X, D)
  PROVE  \E g \in D : F[g] = g
<1> DEFINE N == Cardinality(X)
<1>1. N \in Nat
  BY FS_CardinalityType
<1> HIDE DEF N
<1>2. PICK f \in [0 .. N + 2 -> D] : Iterates(F, a, f, N + 2)
  <2>1. N + 2 \in Nat
    BY <1>1
  <2> QED
    BY <2>1, IterationExists
<1>3. \A n \in 0 .. N + 2 : f[n] \in D
  BY <1>2
<1>4. \A n \in 0 .. N + 1 : f[n + 1] = F[f[n]]
  <2> SUFFICES ASSUME NEW n \in 0 .. N + 1 PROVE f[n + 1] = F[f[n]]
    OBVIOUS
  <2>1. n + 1 \in 1 .. N + 2 /\ (n + 1) - 1 = n
    BY <1>1
  <2> QED
    BY <1>2, <2>1 DEF Iterates
<1> DEFINE Same(n) == \A S \in SUBSET X : Cardinality(S) < n => f[n][S] = f[n + 1][S]
           Bad == {n \in 0 .. N + 1 : ~Same(n)}
<1>5. \A S \in SUBSET X : IsFiniteSet(S) /\ Cardinality(S) \in Nat /\ Cardinality(S) <= N
  BY FS_Subset, FS_CardinalityType DEF N
<1>6. Bad = {}
  <2>1. SUFFICES ASSUME Bad # {} PROVE FALSE
    OBVIOUS
  <2>2. PICK m \in Bad : \A n \in Bad : m <= n
    <3>1. Bad \subseteq Nat
      BY <1>1
    <3> HIDE DEF Bad
    <3> QED
      BY <2>1, <3>1, LeastNumber
  <2>3. m \in 0 .. N + 1 /\ ~Same(m)
    BY <2>2
  <2>4. PICK S \in SUBSET X : Cardinality(S) < m /\ f[m][S] # f[m + 1][S]
    BY <2>3
  <2>5. m - 1 \in 0 .. N + 1 /\ m \in 0 .. N + 2
    BY <1>1, <1>5, <2>3, <2>4
  <2>6. Same(m - 1)
    <3>1. ~(m <= m - 1)
      BY <2>5
    <3> HIDE DEF Same
    <3> QED
      BY <2>2, <2>5, <3>1
  <2>7. f[m] = F[f[m - 1]] /\ f[m + 1] = F[f[m]]
    <3>1. (m - 1) + 1 = m
      BY <2>5
    <3> QED
      BY <1>4, <2>3, <2>5, <3>1
  <2>8. \A T \in SUBSET S : T # S => f[m - 1][T] = f[m][T]
    <3> SUFFICES ASSUME NEW T \in SUBSET S, T # S PROVE f[m - 1][T] = f[m][T]
      OBVIOUS
    <3>1. Cardinality(T) <= Cardinality(S) /\ Cardinality(S) # Cardinality(T)
      BY <1>5, FS_Subset
    <3>2. T \in SUBSET X /\ Cardinality(T) < m - 1
      BY <1>5, <2>4, <2>5, <3>1
    <3>3. (m - 1) + 1 = m
      BY <2>5
    <3> QED
      BY <2>6, <3>2, <3>3
  <2>9. f[m - 1] \in D /\ f[m] \in D
    BY <1>1, <1>3, <2>5
  <2>10. F[f[m - 1]][S] = F[f[m]][S]
    BY <2>8, <2>9 DEF BySize
  <2> QED
    BY <2>4, <2>7, <2>10
<1>7. N + 1 \in 0 .. N + 1 /\ N + 1 \in 0 .. N + 2 /\ (N + 1) + 1 \in 0 .. N + 2
  BY <1>1
<1>8. Same(N + 1)
  BY <1>6, <1>7
<1>9. \A S \in SUBSET X : f[N + 1][S] = f[(N + 1) + 1][S]
  BY <1>1, <1>5, <1>8
<1>10. f[N + 1] \in D /\ f[(N + 1) + 1] \in D
  BY <1>3, <1>7
<1>11. f[N + 1] = f[(N + 1) + 1]
  BY <1>9, <1>10 DEF OnSubsets
<1>12. F[f[N + 1]] = f[N + 1]
  BY <1>4, <1>7, <1>11
<1> QED
  BY <1>10, <1>12

\* WithRest keeps the waves and adds to them of the rest alone.
LEMMA RestFacts ==
  ASSUME NEW waves, NEW rest \in SUBSET Ids,
         \A n \in DOMAIN waves : waves[n] \subseteq Ids
  PROVE  /\ DOMAIN WithRest(waves, rest) = 1 .. 2 * Cardinality(Ids)
         /\ \A n \in 1 .. 2 * Cardinality(Ids) :
              LET kept == IF n \in DOMAIN waves THEN waves[n] ELSE {} IN
              kept \subseteq WithRest(waves, rest)[n] /\ WithRest(waves, rest)[n] \subseteq kept \cup rest
<1> DEFINE LevelOf(placed, i) ==
             1 + Max({0} \cup {n \in DOMAIN placed : placed[n] \cap ticks[i].blockedBy # {}})
           Put(placed, i) ==
             [n \in DOMAIN placed |-> IF n = LevelOf(placed, i) THEN placed[n] \cup {i} ELSE placed[n]]
           placing[S \in SUBSET rest] ==
             IF S = {} THEN [n \in 1 .. 2 * Cardinality(Ids) |->
                               IF n \in DOMAIN waves THEN waves[n] ELSE {}]
             ELSE Put(placing[S \ {Max(S)}], Max(S))
           M == 2 * Cardinality(Ids)
           base == [n \in 1 .. M |-> IF n \in DOMAIN waves THEN waves[n] ELSE {}]
           V == {w \in [1 .. M -> SUBSET Ids] :
                   \A n \in 1 .. M : base[n] \subseteq w[n] /\ w[n] \subseteq base[n] \cup rest}
           D == [SUBSET rest -> V]
           Step(g) == [S \in SUBSET rest |-> IF S = {} THEN base ELSE Put(g[S \ {Max(S)}], Max(S))]
<1>1. WithRest(waves, rest) = placing[rest]
  BY DEF WithRest
<1>2. base \in V
  <2>1. base \in [1 .. M -> SUBSET Ids]
    OBVIOUS
  <2> HIDE DEF base, M
  <2> QED
    BY <2>1
<1>3. \A w \in V : \A i \in rest : Put(w, i) \in V
  <2> HIDE DEF LevelOf, base, M
  <2> SUFFICES ASSUME NEW w \in V, NEW i \in rest PROVE Put(w, i) \in V
    OBVIOUS
  <2>1. Put(w, i) = [n \in 1 .. M |-> IF n = LevelOf(w, i) THEN w[n] \cup {i} ELSE w[n]]
    OBVIOUS
  <2> QED
    BY <2>1
<1>4. \A S \in SUBSET rest : S # {} => Max(S) \in S /\ S \ {Max(S)} \in SUBSET rest
                                        /\ IsFiniteSet(S) /\ Cardinality(S \ {Max(S)}) < Cardinality(S)
  <2> SUFFICES ASSUME NEW S \in SUBSET rest, S # {}
               PROVE  Max(S) \in S /\ S \ {Max(S)} \in SUBSET rest
                      /\ IsFiniteSet(S) /\ Cardinality(S \ {Max(S)}) < Cardinality(S)
    OBVIOUS
  <2>1. S \subseteq Nat /\ IsFiniteSet(S)
    <3>1. S \in SUBSET Ids
      OBVIOUS
    <3> QED
      BY <3>1, FS_Subset, QueriesAssumption
  <2>2. Max(S) \in S
    BY <2>1, GreatestNumber
  <2>3. Cardinality(S \ {Max(S)}) = Cardinality(S) - 1 /\ Cardinality(S) \in Nat
    BY <2>1, <2>2, FS_RemoveElement, FS_CardinalityType
  <2>4. S \ {Max(S)} \in SUBSET rest
    OBVIOUS
  <2> DEFINE n == Cardinality(S)
             m == Cardinality(S \ {Max(S)})
  <2>5. m = n - 1 /\ n \in Nat
    BY <2>3
  <2> HIDE DEF m, n
  <2>6. m < n
    BY <2>5
  <2> QED
    BY <2>1, <2>2, <2>4, <2>6 DEF m, n
<1>5. \A S \in SUBSET rest : IsFiniteSet(S) /\ Cardinality(S) \in Nat
  <2> SUFFICES ASSUME NEW S \in SUBSET rest PROVE IsFiniteSet(S) /\ Cardinality(S) \in Nat
    OBVIOUS
  <2>1. S \in SUBSET Ids
    OBVIOUS
  <2> QED
    BY <2>1, FS_Subset, FS_CardinalityType, QueriesAssumption
<1>6. IsFiniteSet(rest)
  BY <1>5
<1>7. placing = [S \in SUBSET rest |-> IF S = {} THEN base ELSE Put(placing[S \ {Max(S)}], Max(S))]
  <2> HIDE DEF Put
  <2> DEFINE F == [g \in D |-> Step(g)]
  <2>1. \A g \in D : Step(g) \in D
    <3> HIDE DEF V, base
    <3> SUFFICES ASSUME NEW g \in D PROVE Step(g) \in D
      OBVIOUS
    <3>1. \A S \in SUBSET rest : S # {} => Put(g[S \ {Max(S)}], Max(S)) \in V
      BY <1>3, <1>4
    <3> QED
      BY <1>2, <3>1
  <2>2. F \in [D -> D]
    <3> HIDE DEF D, Step
    <3> QED
      BY <2>1
  <2>3. BySize(F, rest, D)
    <3> HIDE DEF V, base
    <3> SUFFICES ASSUME NEW g \in D, NEW h \in D, NEW S \in SUBSET rest,
                        \A T \in SUBSET S : T # S => g[T] = h[T]
                 PROVE  F[g][S] = F[h][S]
      BY DEF BySize
    <3>1. F[g][S] = (IF S = {} THEN base ELSE Put(g[S \ {Max(S)}], Max(S)))
          /\ F[h][S] = (IF S = {} THEN base ELSE Put(h[S \ {Max(S)}], Max(S)))
      OBVIOUS
    <3>2. S # {} => g[S \ {Max(S)}] = h[S \ {Max(S)}]
      BY <1>4
    <3> QED
      BY <3>1, <3>2
  <2> DEFINE a == [S \in SUBSET rest |-> base]
  <2>4. a \in D
    BY <1>2
  <2>5. PICK g \in D : F[g] = g
    <3> HIDE DEF V
    <3>1. OnSubsets(D, rest)
      BY DEF OnSubsets
    <3> HIDE DEF D, F, a
    <3> QED
      BY <1>6, <2>2, <2>3, <2>4, <3>1, DefinedBySize
  <2>6. g = [S \in SUBSET rest |-> IF S = {} THEN base ELSE Put(g[S \ {Max(S)}], Max(S))]
    <3> HIDE DEF V, base, Put
    <3> QED
      BY <2>5
  <2> HIDE DEF V
  <2> QED
    BY <2>6 DEF placing, base, M
<1> HIDE DEF placing
<1>8. \A S \in SUBSET rest : placing[S] \in V
  <2> HIDE DEF V, base, Put
  <2> DEFINE Bad == {S \in SUBSET rest : placing[S] \notin V}
             Sizes == {Cardinality(S) : S \in Bad}
  <2>1. SUFFICES ASSUME Bad # {} PROVE FALSE
    OBVIOUS
  <2>2. PICK least \in Sizes : \A s \in Sizes : least <= s
    <3>1. Sizes \subseteq Nat /\ Sizes # {}
      BY <1>5, <2>1
    <3> HIDE DEF Sizes
    <3> QED
      BY <3>1, LeastNumber
  <2>3. PICK S \in Bad : least = Cardinality(S)
    BY <2>2
  <2>4. S \in SUBSET rest /\ placing[S] \notin V
    BY <2>3
  <2>5. placing[S] = IF S = {} THEN base ELSE Put(placing[S \ {Max(S)}], Max(S))
    BY <1>7, <2>4
  <2>6. S # {}
    BY <1>2, <2>4, <2>5
  <2>7. S \ {Max(S)} \notin Bad
    <3>1. ~(Cardinality(S) <= Cardinality(S \ {Max(S)}))
      BY <1>4, <1>5, <2>4, <2>6
    <3> QED
      BY <2>2, <2>3, <3>1
  <2>8. placing[S \ {Max(S)}] \in V
    BY <1>4, <2>4, <2>6, <2>7
  <2> QED
    BY <1>3, <1>4, <2>4, <2>5, <2>6, <2>8
<1>9. WithRest(waves, rest) \in V
  BY <1>1, <1>8
<1>10. \A n \in 1 .. M : base[n] = IF n \in DOMAIN waves THEN waves[n] ELSE {}
  OBVIOUS
<1> HIDE DEF base
<1> QED
  BY <1>9, <1>10

-----------------------------------------------------------------------------
(***************************************************************************)
(* The commands agree on what an agent may take: the whole tracker.        *)
(***************************************************************************)

LEMMA OwnersShare ==
  ASSUME NEW o
  PROVE  Apply([owner |-> o]) = {i \in Ticks : ticks[i].owner = o}
<1> DEFINE filter == [owner |-> o]
<1>1. DOMAIN filter = {"owner"} /\ filter["owner"] = o
  OBVIOUS
<1> HIDE DEF filter
<1>2. Apply(filter) = {i \in Ticks : ticks[i]["owner"] = o}
  BY <1>1 DEF Apply
<1> QED
  BY <1>2 DEF filter

LEMMA WholeFacts ==
  ASSUME Typed
  PROVE  LET whole == Frontier(Root, NoFilter)
             next  == NextTick(Root, NoFilter)
         IN  /\ ItemIds(whole) = {i \in Ticks : Startable(i)}
             /\ whole.items = {[id |-> i, action |-> Action(i)] : i \in {j \in Ticks : Startable(j)}}
             /\ Actionable(whole) => next # NoTick
             /\ next # NoTick => next.id \in ReadyList(NoFilter)
             /\ ReadyList(NoFilter) = Ready(Ticks)
<1> DEFINE whole == Frontier(Root, NoFilter)
           next  == NextTick(Root, NoFilter)
           filtered == {i \in Apply(NoFilter) : Root # Root => ticks[i].parent = Root}
           ready == Ready(Ticks)
           plan  == PlanningCandidates(Root, Ticks)
           ids == {i \in Ticks : Startable(i)}
<1>1. InScope(Root, NoFilter) = Ticks /\ {i \in {Root} \cap Ticks : NeedsPlanning(i)} = {}
      /\ filtered = Ticks
  BY NoFilterIsAll, RootIsNoTick DEF InScope
<1>2. {i \in InScope(Root, NoFilter) : Startable(i)} \cup {i \in {Root} \cap Ticks : NeedsPlanning(i)} = ids
  BY <1>1
<1>3. /\ ItemIds(whole) = ids
      /\ whole.items = {[id |-> i, action |-> Action(i)] : i \in ids}
      /\ Actionable(whole) <=> ids # {}
  BY <1>2, FrontierFacts
<1>4. ids \subseteq ready
  BY ReadyFacts DEF Startable
<1>5. plan \subseteq ready
  BY PlanFacts, ReadyFacts DEF PlanningCandidates
<1>6. ready \subseteq Ticks
  BY DEF Ready
<1>7. /\ ready \cup plan = {} => next = NoTick
      /\ ready \cup plan # {} => /\ next.id \in IF ready # {} THEN ready ELSE plan
                                 /\ next = [id |-> next.id, action |-> NextAction(next.id)]
  <2> DEFINE F == Ticks
  <2>1. F \subseteq Ticks /\ F = {i \in Apply(NoFilter) : Root # Root => ticks[i].parent = Root}
    BY NoFilterIsAll
  <2> QED
    BY <2>1, NextFacts
<1> HIDE DEF whole, next, ready, plan, ids
<1>8. ready # {} => next.id \in ready
  BY <1>7
<1>9. next # NoTick => next.id \in ready
  BY <1>5, <1>7
<1>10. ready # {} => next # NoTick
  <2>1. NoTick.id = Root
    BY DEF NoTick
  <2> QED
    BY <1>6, <1>8, <2>1, RootIsNoTick
<1>11. ReadyList(NoFilter) = ready
  BY NoFilterIsAll DEF ReadyList, ready
<1> QED
  BY <1>3, <1>4, <1>9, <1>10, <1>11 DEF whole, next, ready, ids

LEMMA WholeAgrees ==
  ASSUME Typed
  PROVE  LET whole == Frontier(Root, NoFilter) IN
         /\ ItemIds(whole) \cap UNION {Blocks(b) : b \in {j \in Ticks : Open(j)}} = {}
         /\ {i \in ItemIds(whole) : ticks[i].type = "task"} =
              {i \in ReadyList(NoFilter) : ticks[i].type = "task" /\ ticks[i].status = "open"}
         /\ whole.items = UNION {Frontier(Root, [owner |-> o]).items : o \in Owners}
<1> DEFINE whole == Frontier(Root, NoFilter)
           Item(i) == [id |-> i, action |-> Action(i)]
           Share(o) == {i \in Ticks : Startable(i) /\ ticks[i].owner = o}
<1>1. /\ ItemIds(whole) = {i \in Ticks : Startable(i)}
      /\ whole.items = {Item(i) : i \in {j \in Ticks : Startable(j)}}
      /\ ReadyList(NoFilter) = Ready(Ticks)
  BY WholeFacts
<1> HIDE DEF whole
<1>2. ASSUME NEW i \in Ticks, Startable(i), NEW b \in Ticks, Open(b) PROVE i \notin Blocks(b)
  BY <1>2 DEF Startable, Blocks, OpenBlockers
<1>3. ItemIds(whole) \cap UNION {Blocks(b) : b \in {j \in Ticks : Open(j)}} = {}
  BY <1>1, <1>2
<1>4. {i \in ItemIds(whole) : ticks[i].type = "task"} =
        {i \in ReadyList(NoFilter) : ticks[i].type = "task" /\ ticks[i].status = "open"}
  BY <1>1, ReadyFacts DEF Startable
<1>5. \A o \in Owners : Frontier(Root, [owner |-> o]).items = {Item(i) : i \in Share(o)}
  <2> SUFFICES ASSUME NEW o \in Owners
               PROVE  Frontier(Root, [owner |-> o]).items = {Item(i) : i \in Share(o)}
    OBVIOUS
  <2> DEFINE filter == [owner |-> o]
  <2>1. Apply(filter) = {i \in Ticks : ticks[i].owner = o}
    BY OwnersShare
  <2> HIDE DEF filter
  <2>2. InScope(Root, filter) = {i \in Ticks : ticks[i].owner = o}
    BY <2>1 DEF InScope
  <2>3. {i \in {Root} \cap Ticks : NeedsPlanning(i)} = {}
    BY RootIsNoTick
  <2>4. {i \in InScope(Root, filter) : Startable(i)} \cup {i \in {Root} \cap Ticks : NeedsPlanning(i)}
          = Share(o)
    BY <2>2, <2>3
  <2>5. Frontier(Root, filter).items = {Item(i) : i \in Share(o)}
    BY <2>4, FrontierFacts
  <2> QED
    BY <2>5 DEF filter
<1> HIDE DEF Item
<1>6. whole.items = UNION {Frontier(Root, [owner |-> o]).items : o \in Owners}
  <2>1. \A i \in Ticks : ticks[i].owner \in Owners
    BY Fields
  <2>2. ASSUME NEW x \in whole.items
        PROVE  \E o \in Owners : x \in Frontier(Root, [owner |-> o]).items
    <3>1. PICK i \in {j \in Ticks : Startable(j)} : x = Item(i)
      BY <1>1
    <3>2. ticks[i].owner \in Owners /\ i \in Share(ticks[i].owner)
      BY <2>1
    <3>3. x \in {Item(j) : j \in Share(ticks[i].owner)}
      BY <3>1, <3>2
    <3> QED
      BY <1>5, <3>2, <3>3
  <2>3. ASSUME NEW o \in Owners, NEW x \in Frontier(Root, [owner |-> o]).items
        PROVE  x \in whole.items
    <3>1. PICK i \in Share(o) : x = Item(i)
      BY <1>5
    <3> QED
      BY <1>1, <3>1
  <2> QED
    BY <2>2, <2>3
<1> QED
  BY <1>3, <1>4, <1>6 DEF whole

\* The counts of tk stats for an owner are his share of the whole.
LEMMA StatisticsAgree ==
  ASSUME NEW o
  PROVE  Statistics([owner |-> o]) =
           LET mine(S) == Cardinality({i \in S : ticks[i].owner = o}) IN
           [total |-> mine(Ticks), ready |-> mine(ReadyList(NoFilter)),
            blocked |-> mine(Blocked(Ticks))]
<1> DEFINE mine == {i \in Ticks : ticks[i].owner = o}
<1>1. Apply([owner |-> o]) = mine
  BY OwnersShare
<1>2. Statistics([owner |-> o]) = [total |-> Cardinality(mine), ready |-> Cardinality(Ready(mine)),
                                   blocked |-> Cardinality(Blocked(mine))]
  BY <1>1 DEF Statistics
<1>3. Ready(mine) = {i \in ReadyList(NoFilter) : ticks[i].owner = o}
  BY NoFilterIsAll DEF ReadyList, Ready
<1>4. Blocked(mine) = {i \in Blocked(Ticks) : ticks[i].owner = o}
  BY DEF Blocked
<1> QED
  BY <1>2, <1>3, <1>4

-----------------------------------------------------------------------------
(***************************************************************************)
(* The commands agree: an epic.                                            *)
(***************************************************************************)

\* The first wave is made of the eligible ticks with no open blocker.
LEMMA FirstWave ==
  ASSUME Typed, NEW tasks, NEW waves, waves = Compute(tasks).waves
  PROVE  /\ \A n \in DOMAIN waves : waves[n] \subseteq Eligible(tasks)
         /\ \A i \in Eligible(tasks) : OpenBlockers(i) = {} => 1 \in DOMAIN waves /\ i \in waves[1]
<1> DEFINE E == Eligible(tasks)
           preds == WavePreds(tasks)
           p == Peel(preds)
           N == Cardinality(E \cup Virtual(tasks))
<1>1. /\ N \in Nat /\ Peels(preds, p, N) /\ N = Cardinality(DOMAIN preds)
      /\ DOMAIN waves = 1 .. N
      /\ \A n \in 1 .. N : waves[n] = (p[n] \ p[n - 1]) \cap E
  BY ComputeFacts
<1>2. /\ E \subseteq DOMAIN preds
      /\ \A i \in E : preds[i] = OpenBlockers(i)
  BY WavePredsWithin DEF WavePreds
<1>3. IsFiniteSet(DOMAIN preds)
  BY WavePredsWithin, WithinRelates
<1> HIDE DEF E, preds, p, N
<1>4. ASSUME NEW i \in E, OpenBlockers(i) = {} PROVE 1 \in DOMAIN waves /\ i \in waves[1]
  <2>1. DOMAIN preds # {}
    BY <1>2
  <2>2. N # 0
    BY <1>1, <1>3, <2>1, FS_EmptySet
  <2>3. 1 \in 1 .. N
    BY <1>1, <2>2
  <2>4. p[1] = {j \in DOMAIN preds : preds[j] \subseteq p[0]} /\ p[0] = {}
    BY <1>1, <2>3 DEF Peels
  <2>5. i \in p[1] \ p[0]
    BY <1>2, <1>4, <2>4
  <2> QED
    BY <1>1, <2>3, <2>5
<1> QED
  BY <1>1, <1>4 DEF E

Tasks(e) == {i \in GraphTasks(e, FALSE) : Startable(i)}

LEMMA TaskFacts ==
  ASSUME NEW e, NEW all \in BOOLEAN
  PROVE  /\ \A i : i \in GraphTasks(e, all) <=>
                     i \in Ticks /\ ticks[i].parent = e /\ ticks[i].type # "epic" /\ (all \/ Open(i))
         /\ \A i \in Tasks(e) : i \in Eligible(GraphTasks(e, all)) /\ OpenBlockers(i) = {}
<1>1. \A a \in BOOLEAN : \A i : i \in GraphTasks(e, a) <=>
        i \in Ticks /\ ticks[i].parent = e /\ ticks[i].type # "epic" /\ (a \/ Open(i))
  BY DEF GraphTasks, Children
<1> QED
  BY <1>1 DEF Tasks, Startable, Eligible

LEMMA DispatchFacts ==
  ASSUME NEW e, NEW all,
         \A n \in DOMAIN GraphWaves(e, all) :
           \A i \in GraphWaves(e, all)[n] : i \in Ticks /\ ticks[i].parent = e /\ ticks[i].type # "epic",
         \A i \in Tasks(e) : 1 \in DOMAIN GraphWaves(e, all) /\ i \in GraphWaves(e, all)[1]
  PROVE  DispatchNow(e, all) = Tasks(e)
<1>1. \A i : i \in DispatchNow(e, all) <=>
        /\ i \in Ticks /\ 1 \in DOMAIN GraphWaves(e, all) /\ i \in GraphWaves(e, all)[1]
        /\ ~ticks[i].deferred /\ ~IsAwaiting(i) /\ OpenBlockers(i) = {} /\ ticks[i].status = "open"
  BY DEF DispatchNow
<1>2. \A i : i \in Tasks(e) <=>
        /\ i \in Ticks /\ ticks[i].parent = e /\ ticks[i].type # "epic" /\ Open(i)
        /\ ~ticks[i].deferred /\ ~IsAwaiting(i) /\ OpenBlockers(i) = {} /\ ticks[i].status = "open"
  BY DEF Tasks, Startable, GraphTasks, Children
<1>3. \A i \in Ticks : ticks[i].status = "open" => Open(i)
  BY DEF Open
<1> QED
  BY <1>1, <1>2, <1>3

LEMMA DispatchOpen ==
  ASSUME Typed, NEW e
  PROVE  DispatchNow(e, FALSE) = Tasks(e)
<1> DEFINE tasks == GraphTasks(e, FALSE)
           waves == Compute(tasks).waves
<1>1. GraphWaves(e, FALSE) = waves
  BY DEF GraphWaves
<1>2. /\ \A n \in DOMAIN waves : waves[n] \subseteq Eligible(tasks)
      /\ \A i \in Eligible(tasks) : OpenBlockers(i) = {} => 1 \in DOMAIN waves /\ i \in waves[1]
  BY FirstWave
<1>3. \A i \in Eligible(tasks) : i \in Ticks /\ ticks[i].parent = e /\ ticks[i].type # "epic"
  BY TaskFacts DEF Eligible
<1>4. \A i \in Tasks(e) : i \in Eligible(tasks) /\ OpenBlockers(i) = {}
  BY TaskFacts
<1> HIDE DEF waves, tasks
<1>5. \A n \in DOMAIN waves :
        \A i \in waves[n] : i \in Ticks /\ ticks[i].parent = e /\ ticks[i].type # "epic"
  BY <1>2, <1>3
<1>6. \A i \in Tasks(e) : 1 \in DOMAIN waves /\ i \in waves[1]
  BY <1>2, <1>4
<1> QED
  BY <1>1, <1>5, <1>6, DispatchFacts

LEMMA DispatchAll ==
  ASSUME Typed, NEW e \in Ticks
  PROVE  DispatchNow(e, TRUE) = Tasks(e)
<1> DEFINE tasks == GraphTasks(e, TRUE)
           waves == Compute(tasks).waves
           rest  == tasks \ UNION Range(waves)
           M     == 2 * Cardinality(Ids)
           put   == WithRest(waves, rest)
           Kept(n) == IF n \in DOMAIN waves THEN waves[n] ELSE {}
<1>1. GraphWaves(e, TRUE) = put
  BY DEF GraphWaves
<1>2. /\ \A n \in DOMAIN waves : waves[n] \subseteq Eligible(tasks)
      /\ \A i \in Eligible(tasks) : OpenBlockers(i) = {} => 1 \in DOMAIN waves /\ i \in waves[1]
  BY FirstWave
<1>3. \A i \in tasks : i \in Ticks /\ i \in Ids /\ ticks[i].parent = e /\ ticks[i].type # "epic"
  BY TaskFacts DEF Typed
<1>4. \A i \in Tasks(e) : i \in Eligible(tasks) /\ OpenBlockers(i) = {}
  BY TaskFacts
<1>5. Eligible(tasks) \subseteq tasks
  BY DEF Eligible
<1>6. rest \in SUBSET Ids /\ rest \subseteq tasks
  BY <1>3
<1> HIDE DEF tasks, waves, rest
<1>7. \A n \in DOMAIN waves : waves[n] \subseteq Ids
  BY <1>2, <1>3, <1>5
<1>8. /\ DOMAIN put = 1 .. M
      /\ \A n \in 1 .. M : Kept(n) \subseteq put[n] /\ put[n] \subseteq Kept(n) \cup rest
  BY <1>6, <1>7, RestFacts
<1> HIDE DEF put, M
<1>9. \A n \in DOMAIN put :
        \A i \in put[n] : i \in Ticks /\ ticks[i].parent = e /\ ticks[i].type # "epic"
  BY <1>2, <1>3, <1>5, <1>6, <1>8
<1>10. 1 \in 1 .. M
  <2>1. e \in Ids /\ IsFiniteSet(Ids)
    BY QueriesAssumption DEF Typed
  <2>2. Cardinality(Ids) \in Nat /\ Cardinality(Ids) # 0
    BY <2>1, FS_EmptySet, FS_CardinalityType
  <2> QED
    BY <2>2 DEF M
<1>11. \A i \in Tasks(e) : 1 \in DOMAIN put /\ i \in put[1]
  BY <1>2, <1>4, <1>8, <1>10
<1> QED
  BY <1>1, <1>9, <1>11, DispatchFacts

\* The items of an epic's frontier among its tasks are what tk graph dispatches.
LEMMA EpicItems ==
  ASSUME Typed, NEW e \in Ticks, ticks[e].type = "epic"
  PROVE  /\ GraphTasks(e, FALSE) \cap ItemIds(Frontier(e, NoFilter)) = Tasks(e)
         /\ SaysPlan(e) <=> e \in ItemIds(Frontier(e, NoFilter))
<1> DEFINE ids == {i \in InScope(e, NoFilter) : Startable(i)}
                    \cup {i \in {e} \cap Ticks : NeedsPlanning(i)}
           items == ItemIds(Frontier(e, NoFilter))
<1>1. items = ids /\ \A i \in ids : Startable(i)
  BY FrontierFacts
<1>2. InScope(e, NoFilter) = Ticks \cap Below(e)
  BY NoFilterIsAll, RootIsNoTick DEF InScope
<1>3. e \in Ids
  BY DEF Typed
<1>4. Children(e) \subseteq Below(e)
  BY <1>3, BelowChildren
<1>5. \A i \in GraphTasks(e, FALSE) : i \in Ticks \cap Below(e)
  BY <1>4 DEF GraphTasks, Children
<1> HIDE DEF items
<1>6. GraphTasks(e, FALSE) \cap items = Tasks(e)
  BY <1>1, <1>2, <1>5 DEF Tasks
<1>7. e \in items <=> NeedsPlanning(e)
  BY <1>1 DEF Startable
<1>8. NeedsPlanning(e) => GraphTasks(e, FALSE) = {}
  BY PlanFacts DEF GraphTasks
<1> QED
  BY <1>6, <1>7, <1>8 DEF SaysPlan, items

LEMMA TasksLinted ==
  ASSUME NEW e, NEW i \in Tasks(e)
  PROVE  \/ i \in ReadinessLint(e) \cup GateLint(e)
         \/ ticks[i].role # None \/ Children(i) # {}
  BY DEF Tasks, Startable, ReadinessLint, GateLint

LEMMA EpicStats ==
  ASSUME Typed, NEW e
  PROVE  Stats(e).ready = Cardinality(Tasks(e)) + Cardinality(Ready(InFlight(e)))
<1> DEFINE S == {i \in GraphTasks(e, FALSE) : ~ticks[i].deferred /\ ~IsAwaiting(i) /\ OpenBlockers(i) = {}}
           A == Tasks(e)
           B == Ready(InFlight(e))
<1>1. Stats(e).ready = Cardinality(S)
  BY DEF Stats
<1>2. \A i : i \in S <=> /\ i \in Ticks /\ ticks[i].parent = e /\ ticks[i].type # "epic" /\ Open(i)
                         /\ ~ticks[i].deferred /\ ~IsAwaiting(i) /\ OpenBlockers(i) = {}
  BY DEF GraphTasks, Children
<1>3. \A i : i \in A <=> i \in S /\ ticks[i].status = "open"
  BY DEF Tasks, Startable, GraphTasks, Children
<1>4. \A i : i \in B <=> i \in S /\ ticks[i].status = "in_progress"
  BY <1>2, ReadyFacts DEF InFlight, Children
<1>5. \A i \in S : ticks[i].status \in {"open", "in_progress"}
  BY <1>2, Fields DEF Open
<1> HIDE DEF S, A, B
<1>6. S = A \cup B /\ A \cap B = {}
  BY <1>3, <1>4, <1>5
<1>7. IsFiniteSet(A) /\ IsFiniteSet(B)
  <2>1. A \in SUBSET Ids /\ B \in SUBSET Ids
    BY <1>2, <1>3, <1>4 DEF Typed
  <2> QED
    BY <2>1, FS_Subset, QueriesAssumption
<1>8. Cardinality(A \cup B) = Cardinality(A) + Cardinality(B) - Cardinality(A \cap B)
  BY <1>7, FS_Union
<1>9. Cardinality(A \cap B) = 0 /\ Cardinality(A) \in Nat /\ Cardinality(B) \in Nat
  BY <1>6, <1>7, FS_EmptySet, FS_CardinalityType
<1>10. Cardinality(S) = Cardinality(A) + Cardinality(B)
  BY <1>6, <1>8, <1>9
<1> QED
  BY <1>1, <1>10 DEF A, B

\* An epic to be planned is to be planned for every command.
LEMMA PlanAgrees ==
  ASSUME Typed, NEW e \in Ticks, NeedsPlanning(e)
  PROVE  /\ NextTick(e, NoFilter) = [id |-> e, action |-> "plan"]
         /\ NodeStatus(e) = "ready" /\ e \in InfoEpics
<1>1. /\ ticks[e].type = "epic" /\ ticks[e].status = "open" /\ Children(e) = {}
      /\ Open(e) /\ ~IsAwaiting(e) /\ OpenBlockers(e) = {}
  BY PlanFacts
<1> DEFINE filtered == {i \in Apply(NoFilter) : e # Root => ticks[i].parent = e}
           ready == Ready(filtered)
           plan  == PlanningCandidates(e, filtered)
<1>2. e # Root
  BY RootIsNoTick
<1>3. filtered = {}
  BY <1>1, <1>2, NoFilterIsAll DEF Children
<1>4. ready = {}
  BY <1>3 DEF Ready
<1>5. plan = {e}
  BY <1>2 DEF PlanningCandidates
<1>6. ready \cup plan # {} =>
        /\ NextTick(e, NoFilter).id \in IF ready # {} THEN ready ELSE plan
        /\ NextTick(e, NoFilter) = [id |-> NextTick(e, NoFilter).id,
                                    action |-> NextAction(NextTick(e, NoFilter).id)]
  <2>1. filtered \subseteq Ticks
    BY <1>3
  <2> HIDE DEF filtered
  <2>2. filtered = {i \in Apply(NoFilter) : e # Root => ticks[i].parent = e}
    BY DEF filtered
  <2> QED
    BY <2>1, <2>2, NextFacts
<1> HIDE DEF ready, plan
<1>7. NextTick(e, NoFilter).id = e
  BY <1>4, <1>5, <1>6
<1>8. NextTick(e, NoFilter) = [id |-> e, action |-> "plan"]
  BY <1>4, <1>5, <1>6, <1>7 DEF NextAction
<1>9. Role(e) = "empty_epic"
  BY <1>1 DEF Role
<1>10. ~ \E b \in NodeBlockers(e) : Open(b)
  BY <1>1 DEF NodeBlockers, OpenBlockers
<1>11. NodeStatus(e) = "ready"
  BY <1>1, <1>9, <1>10 DEF NodeStatus, EpicStatus, NodeTotal
<1> QED
  BY <1>1, <1>8, <1>11 DEF InfoEpics

\* No item of an epic has a role that the epic is said to lack.
LEMMA RolesAgree ==
  ASSUME Typed, NEW e, NEW item \in Frontier(e, NoFilter).items, ticks[item.id].parent = e
  PROVE  item.action \notin MissingRoles(e)
<1> DEFINE ids == {i \in InScope(e, NoFilter) : Startable(i)}
                    \cup {i \in {e} \cap Ticks : NeedsPlanning(i)}
<1>1. Frontier(e, NoFilter).items = {[id |-> i, action |-> Action(i)] : i \in ids}
      /\ ids \subseteq Ticks
  BY FrontierFacts
<1> HIDE DEF ids
<1>2. PICK i \in ids : item = [id |-> i, action |-> Action(i)]
  BY <1>1
<1>3. i \in Children(e) /\ item.action = Action(i)
  BY <1>1, <1>2 DEF Children
<1>4. Action(i) \in {"plan", "implement"} \/ Action(i) = ticks[i].role
  BY DEF Action
<1>5. MissingRoles(e) = {"review", "closeout"} \ {ticks[c].role : c \in Children(e)}
  BY <1>3 DEF MissingRoles
<1> QED
  BY <1>3, <1>4, <1>5

LEMMA AgentsAgreeHolds == Typed => AgentsAgree
<1> SUFFICES ASSUME Typed PROVE AgentsAgree
  OBVIOUS
<1>1. ASSUME NEW e \in Ticks, ticks[e].type = "epic"
      PROVE  LET items == ItemIds(Frontier(e, NoFilter))
                 now   == DispatchNow(e, FALSE)
             IN  /\ now = GraphTasks(e, FALSE) \cap items
                 /\ now = DispatchNow(e, TRUE)
                 /\ \A i \in now :
                      \/ i \in ReadinessLint(e) \cup GateLint(e)
                      \/ ticks[i].role # None \/ Children(i) # {}
                 /\ Stats(e).ready = Cardinality(now)
                                      + Cardinality(Ready(InFlight(e)))
                 /\ SaysPlan(e) <=> e \in items
                 /\ SaysPlan(e) => NextTick(e, NoFilter) = [id |-> e, action |-> "plan"]
                 /\ SaysPlan(e) => NodeStatus(e) = "ready" /\ e \in InfoEpics
                 /\ \A item \in Frontier(e, NoFilter).items :
                      ticks[item.id].parent = e => item.action \notin MissingRoles(e)
  <2>1. DispatchNow(e, FALSE) = Tasks(e) /\ DispatchNow(e, TRUE) = Tasks(e)
    BY DispatchOpen, DispatchAll
  <2>2. /\ GraphTasks(e, FALSE) \cap ItemIds(Frontier(e, NoFilter)) = Tasks(e)
        /\ SaysPlan(e) <=> e \in ItemIds(Frontier(e, NoFilter))
    BY <1>1, EpicItems
  <2>3. \A i \in Tasks(e) : \/ i \in ReadinessLint(e) \cup GateLint(e)
                            \/ ticks[i].role # None \/ Children(i) # {}
    BY TasksLinted
  <2>4. Stats(e).ready = Cardinality(Tasks(e)) + Cardinality(Ready(InFlight(e)))
    BY EpicStats
  <2>5. SaysPlan(e) => /\ NextTick(e, NoFilter) = [id |-> e, action |-> "plan"]
                       /\ NodeStatus(e) = "ready" /\ e \in InfoEpics
    BY PlanAgrees DEF SaysPlan
  <2>6. \A item \in Frontier(e, NoFilter).items :
          ticks[item.id].parent = e => item.action \notin MissingRoles(e)
    BY RolesAgree
  <2> QED
    BY <2>1, <2>2, <2>3, <2>4, <2>5, <2>6, Zenon
<1>2. \A o \in Owners :
        Statistics([owner |-> o]) =
          LET mine(S) == Cardinality({i \in S : ticks[i].owner = o}) IN
          [total |-> mine(Ticks), ready |-> mine(ReadyList(NoFilter)),
           blocked |-> mine(Blocked(Ticks))]
  BY StatisticsAgree
<1>3. /\ Actionable(Frontier(Root, NoFilter)) => NextTick(Root, NoFilter) # NoTick
      /\ NextTick(Root, NoFilter) # NoTick => NextTick(Root, NoFilter).id \in ReadyList(NoFilter)
  BY WholeFacts
<1>4. /\ ItemIds(Frontier(Root, NoFilter)) \cap UNION {Blocks(b) : b \in {j \in Ticks : Open(j)}} = {}
      /\ {i \in ItemIds(Frontier(Root, NoFilter)) : ticks[i].type = "task"} =
           {i \in ReadyList(NoFilter) : ticks[i].type = "task" /\ ticks[i].status = "open"}
      /\ Frontier(Root, NoFilter).items = UNION {Frontier(Root, [owner |-> o]).items : o \in Owners}
  BY WholeAgrees
<1> QED
  BY <1>1, <1>2, <1>3, <1>4, Zenon DEF AgentsAgree

\* The commands that say what an agent may take agree, in every tracker, on every
\* epic of it and for every owner.
THEOREM AgentsAlwaysAgree == Spec => []AgentsAgree
  BY TypeCorrect, AgentsAgreeHolds, PTL
=============================================================================
