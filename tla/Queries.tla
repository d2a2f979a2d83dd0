------------------------------- MODULE Queries -------------------------------
(***************************************************************************)
(* What tk answers about a tracker: which ticks are ready, which epic to   *)
(* plan, in which waves the work can run, what waits for a human           *)
(* (internal/query, internal/wave, tk next, ready, blocked, frontier,      *)
(* graph, roadmap, list, stats, and the board's columns).  Every answer is *)
(* a function of the ticks on disk.  The ticks change by the commands that *)
(* write hierarchy, dependencies and status, which check very little: a    *)
(* parent, a blocker or an after target may be missing, be the tick itself *)
(* or close a loop.                                                        *)
(*                                                                         *)
(* The legacy manual flag counts as awaiting (Tick!GetAwaitingType).  Ids  *)
(* are numbers, in the order in which the ticks were created.              *)
(*                                                                         *)
(* A definition named Def_Change is a faulty variant of the Def below it.  *)
(***************************************************************************)
EXTENDS Integers, FiniteSetsExt, Functions

CONSTANTS
  Ids,
  Owners,
  Starts,         \* the trackers to start from
  MaxNamed,       \* items that one line of tk frontier, or tk close, names
  MaxEdits        \* bound: commands that change the tracker

VARIABLES
  ticks,          \* the ticks on disk, a function of their ids
  said,           \* what the last command printed of the frontier
  edits

vars == <<ticks, said, edits>>

None == "none"
Root == 0           \* no parent; the scope of the whole tracker

Ticks == DOMAIN ticks

\* What each field that a query reads may hold.
Values ==
  [status    |-> {"open", "in_progress", "closed"},
   type      |-> {"task", "epic"},
   role      |-> {None, "review", "closeout"},
   parent    |-> Ids \cup {Root},
   after     |-> {{}} \cup {{a} : a \in Ids},
   owner     |-> Owners,
   awaiting  |-> {None, "approval", "checkpoint"},
   requires  |-> BOOLEAN,
   deferred  |-> BOOLEAN,                     \* the defer date is to come
   due       |-> {None, "past", "future"},    \* the target date
   priority  |-> {1, 2}]

Blank ==
  [status |-> "open", type |-> "task", role |-> None, parent |-> Root, after |-> {},
   blockedBy |-> {}, owner |-> CHOOSE o \in Owners : TRUE, awaiting |-> None,
   requires |-> FALSE, deferred |-> FALSE, due |-> None, priority |-> 2]

\* What the file of a tick may hold; it may be blocked by ticks that are gone.
TickFile ==
  [status : Values.status, type : Values.type, role : Values.role,
   parent : Values.parent, after : Values.after, blockedBy : SUBSET Ids,
   owner : Values.owner, awaiting : Values.awaiting, requires : Values.requires,
   deferred : Values.deferred, due : Values.due, priority : Values.priority]

ASSUME QueriesAssumption ==
  /\ Ids \subseteq Nat \ {0} /\ IsFiniteSet(Ids)
  /\ Owners # {}
  /\ \A T \in Starts : DOMAIN T \subseteq Ids /\ T \in [DOMAIN T -> TickFile]
  /\ MaxNamed \in Nat \ {0} /\ MaxEdits \in Nat

-----------------------------------------------------------------------------
(* Most commands that change the tracker print nothing of its frontier.    *)

Silent == [of |-> Root, line |-> None, named |-> {}, more |-> 0]

Init == ticks \in Starts /\ said = Silent /\ edits = 0

Write(new) == edits < MaxEdits /\ ticks' = new /\ edits' = edits + 1
Edit(new)  == Write(new) /\ said' = Silent

\* A new tick; only the flags' own values are checked, and the role.
Create ==
  /\ Ids # Ticks
  /\ LET i == Min(Ids \ Ticks) IN
     \E t \in Values.type, r \in Values.role, p \in Values.parent,
        b \in Values.after, a \in Values.awaiting :
       /\ r # None => t # "epic"
       /\ Edit([j \in Ticks \cup {i} |->
                 IF j = i THEN [Blank EXCEPT !.type = t, !.role = r, !.parent = p,
                                             !.blockedBy = b, !.awaiting = a]
                 ELSE ticks[j]])

\* One flag of tk update (several flags: several updates).
Update(i) ==
  \E f \in DOMAIN Values : \E v \in Values[f] :
    /\ f = "role" /\ v # None => ticks[i].type # "epic"
    /\ v # ticks[i][f]
    /\ Edit([ticks EXCEPT ![i] = [@ EXCEPT ![f] = v]])

\* Both ticks must exist; nothing else is checked.
Block(i)   == \E b \in Ticks : Edit([ticks EXCEPT ![i].blockedBy = @ \cup {b}])
Unblock(i) == \E b \in ticks[i].blockedBy : Edit([ticks EXCEPT ![i].blockedBy = @ \ {b}])

\* The others lose the blocker; a parent or an after target stays.
Delete(i) ==
  Edit([j \in Ticks \ {i} |-> [ticks[j] EXCEPT !.blockedBy = @ \ {i}]])

-----------------------------------------------------------------------------
(* Ready, blocked, roles, progress.                                        *)

\* A missing tick counts as closed.
Open(i) == i \in Ticks /\ ticks[i].status # "closed"

OpenBlockers(i) == {b \in ticks[i].blockedBy : Open(b)}

IsBlocked(i) == Open(i) /\ OpenBlockers(i) # {}

IsAwaiting(i) == ticks[i].awaiting # None

\* The blockers are looked up among the candidates only.
Ready_Within(C) ==
  {i \in C : /\ Open(i) /\ ~ticks[i].deferred /\ ~IsAwaiting(i)
             /\ OpenBlockers(i) \cap C = {}}
\* An epic on the human's desk is offered to the agents.
Ready_Awaiting(C) ==
  {i \in C : Open(i) /\ ~ticks[i].deferred /\ OpenBlockers(i) = {}}
\* A soft order is taken for a gate.
Ready_Soft(C) ==
  {i \in C : /\ Open(i) /\ ~ticks[i].deferred /\ ~IsAwaiting(i)
             /\ \A b \in ticks[i].blockedBy \cup ticks[i].after : ~Open(b)}
Ready(C) ==
  {i \in C : Open(i) /\ ~ticks[i].deferred /\ ~IsAwaiting(i) /\ OpenBlockers(i) = {}}

Blocked(C) == {i \in C : IsBlocked(i)}

Children(i) == {c \in Ticks : ticks[c].parent = i}

Role(i) ==
  IF ticks[i].type = "epic"
    THEN IF Children(i) = {} THEN "empty_epic" ELSE "epic"
    ELSE IF Children(i) = {} THEN "tick"
         ELSE IF \E c \in Children(i) : Children(c) # {} THEN "project" ELSE "bucket"

\* Everything that S leads to in one or more steps of succ, a set for each id.
Reach(succ, S) ==
  LET Succ(R) == UNION {succ[i] : i \in R \cap DOMAIN succ}
      reached[n \in 0 .. Cardinality(Ids)] ==
        IF n = 0 THEN Succ(S) ELSE LET R == reached[n - 1] IN R \cup Succ(R)
  IN  reached[Cardinality(Ids)]

Below(i) == Reach([p \in Ids |-> Children(p)], {i})

\* Closed and all leaves at or below i; a parent loop is walked once.
Leaves(i) == {x \in Below(i) \cup ({i} \cap Ticks) : Children(x) = {}}
Total(i)  == Cardinality(Leaves(i))
Closed(i) == Cardinality({x \in Leaves(i) : ~Open(x)})

Slip(i) ==
  CASE ticks[i].due = None                             -> "none"
    [] ticks[i].due = "past" /\ Closed(i) < Total(i)   -> "overdue"
    [] OTHER                                           -> "on_track"

\* The epics to plan: those with no child at all, open or closed.
NeedsPlanning(i) ==
  /\ ticks[i].type = "epic" /\ ticks[i].status = "open"
  /\ i \in Ready({i})
  /\ Children(i) = {}

\* A project whose work is done, but is itself not closed.
NeedsCloseout(i) == Role(i) = "project" /\ Open(i) /\ Total(i) > 0 /\ Closed(i) = Total(i)

-----------------------------------------------------------------------------
(* Lists, and the order in which they are shown.                           *)

\* A filter is a record of the flags that are set.
Apply(filter) ==
  {i \in Ticks : \A flag \in DOMAIN filter :
     IF flag = "overdue" THEN Slip(i) = "overdue" ELSE ticks[i][flag] = filter[flag]}

NoFilter == [flag \in {} |-> None]

IsSoftDeferred(i) == \E a \in ticks[i].after : Open(a)

ListRank(i) == <<IF ticks[i].status = "in_progress" THEN 0 ELSE 1, ticks[i].priority, i>>

SoftRank(i) ==
  <<IF ticks[i].status = "in_progress" THEN 0 ELSE 1,
    IF IsSoftDeferred(i) THEN 1 ELSE 0, ticks[i].priority, i>>

Earlier(a, b) ==
  \E k \in DOMAIN a : a[k] < b[k] /\ \A l \in 1 .. k - 1 : a[l] = b[l]

\* The first of C, where rank gives each of C its place.
First(C, rank) == CHOOSE i \in C : \A j \in C \ {i} : Earlier(rank[i], rank[j])

\* tk ready lists by ListRank, and tk next takes the first by SoftRank.
ReadyList(filter) == Ready(Apply(filter))

ListAwaiting == {i \in Apply(NoFilter) : IsAwaiting(i)}

Column(i) ==
  IF ~Open(i) THEN "done"
  ELSE IF IsAwaiting(i) THEN "human"
  ELSE IF ticks[i].status = "in_progress" THEN "agent"
  ELSE IF IsBlocked(i) THEN "blocked" ELSE "ready"

\* The mark beside a tick, and whom tk list, show and graph call blocked.
Mark(i, blocked) ==
  CASE IsAwaiting(i)                        -> "human"
    [] ~IsAwaiting(i) /\ ticks[i].status = "open" /\ blocked -> "blocked"
    [] OTHER                                -> ticks[i].status

ListMark(i) == Mark(i, ticks[i].status = "open" /\ OpenBlockers(i) # {})
ShowMark(i) == Mark(i, \E b \in ticks[i].blockedBy : Open(b))

GraphMark(i) ==
  CASE ticks[i].deferred                           -> "deferred"
    [] ~ticks[i].deferred /\ IsAwaiting(i)          -> "human"
    [] ~ticks[i].deferred /\ ~IsAwaiting(i) /\ OpenBlockers(i) # {} -> "blocked"
    [] OTHER                                       -> ticks[i].status

\* tk deps and tk stats.
Blocks(b) == {i \in Ticks : b \in ticks[i].blockedBy}

Statistics(filter) ==
  LET filtered == Apply(filter) IN
  [total |-> Cardinality(filtered), ready |-> Cardinality(Ready(filtered)),
   blocked |-> Cardinality(Blocked(filtered))]

\* The epics the board offers as a filter.
InfoEpics == {i \in Ticks : ticks[i].type = "epic" /\ ticks[i].status = "open"}

-----------------------------------------------------------------------------
(* tk next and tk frontier.  A scope is a tick's id, or Root.              *)

PlanningCandidates(scope, filtered) ==
  {i \in IF scope = Root THEN filtered ELSE {scope} \cap Ticks : NeedsPlanning(i)}

NextAction(i) == IF NeedsPlanning(i) THEN "plan" ELSE "implement"

NoTick == [id |-> Root, action |-> None]

NextTick(scope, filter) ==
  LET filtered == {i \in Apply(filter) : scope # Root => ticks[i].parent = scope}
      ready == Ready(filtered)
      plan  == PlanningCandidates(scope, filtered)
      first == IF ready # {} THEN ready ELSE plan
      i     == First(first, [j \in first |-> SoftRank(j)])
  IN  IF ready \cup plan = {} THEN NoTick
      ELSE [id |-> i, action |-> NextAction(i)]

\* tk next --awaiting.
NextAwaiting(filter) ==
  LET waiting == {i \in Apply(filter) : ticks[i].status = "open" /\ IsAwaiting(i)}
  IN  IF waiting = {} THEN Root ELSE First(waiting, [j \in waiting |-> ListRank(j)])

Action(i) ==
  IF ticks[i].type = "epic" THEN "plan"
  ELSE IF ticks[i].role # None THEN ticks[i].role ELSE "implement"

\* An epic with children is work of its children, and no item of its own.
Frontier(scope, filter) ==
  LET filtered == Apply(filter) \cap (IF scope = Root THEN Ticks ELSE Below(scope))
      items == {i \in Ready(filtered) :
                  ticks[i].status = "open" /\ (ticks[i].type = "epic" => NeedsPlanning(i))}
                 \cup PlanningCandidates(scope, filtered)
      open == {i \in filtered : Open(i)}
  IN  [items    |-> {[id |-> i, action |-> Action(i)] : i \in items},
       waiting  |-> {i \in open : IsAwaiting(i)},
       inFlight |-> {i \in open : ~IsAwaiting(i) /\ ticks[i].status = "in_progress"},
       done     |-> open = {} /\ ~Open(scope)]

ItemIds(frontier) == {item.id : item \in frontier.items}

Summary(frontier) ==
  CASE frontier.items # {}                    -> "actionable"
    [] frontier.items = {} /\ frontier.done   -> "done"
    [] OTHER                                  -> "at rest"

\* The line names the first items in the order of the files' names, which are
\* random, and counts the rest.
Named(frontier) ==
  LET ids == ItemIds(frontier) IN
  {S \in SUBSET ids : IF Cardinality(ids) <= MaxNamed THEN S = ids ELSE Cardinality(S) = MaxNamed}

\* The exit of tk frontier --check, on which a stop hook branches.
Actionable(frontier) == Summary(frontier) = "actionable"

\* The container whose frontier is printed when i is closed.
CloseScope_Parent(i) == ticks[i].parent
CloseScope(i) ==
  LET p == ticks[i].parent IN
  IF /\ ticks[i].type # "epic" /\ ticks[i].role = "closeout"
     /\ p \in Ticks /\ ticks[p].parent # Root
    THEN ticks[p].parent
    ELSE p

\* The end of an epic is announced loudly.
IsLoud(i) == ticks[i].type = "epic" \/ ticks[i].role = "closeout"

\* What tk close may print when it has closed i.
Continuation(i) ==
  LET frontier == Frontier(CloseScope(i), NoFilter) IN
  IF Actionable(frontier)
    THEN {[of |-> i, line |-> IF IsLoud(i) THEN "go on" ELSE "actionable",
           named |-> S, more |-> Cardinality(ItemIds(frontier) \ S)] : S \in Named(frontier)}
    ELSE {[of |-> i, line |-> IF IsLoud(i) THEN "at rest" ELSE None, named |-> {}, more |-> 0]}

\* tk close.  An epic with open children is closed with them by --force only; a
\* tick with a gate goes to the human, unless --force takes the gate away.  (Who
\* may do that: Lifecycle.)
Close(i) ==
  \E force \in BOOLEAN :
    LET children == IF ticks[i].type = "epic" THEN {c \in Children(i) : Open(c)} ELSE {}
    IN  /\ children # {} => force
        /\ \/ /\ ticks[i].requires /\ ~force
              /\ Edit([ticks EXCEPT ![i].awaiting = "approval"])
           \/ /\ ticks[i].requires => force
              /\ Write([j \in Ticks |->
                   IF j = i
                     THEN [ticks[j] EXCEPT !.status = "closed",
                                           !.awaiting = IF ticks[j].requires THEN None ELSE @]
                   ELSE IF j \in children
                     THEN [ticks[j] EXCEPT !.status = "closed", !.awaiting = None]
                   ELSE ticks[j]])
              /\ said' \in Continuation(i)'

Next ==
  Create \/ \E i \in Ticks : Update(i) \/ Block(i) \/ Unblock(i) \/ Delete(i) \/ Close(i)

Spec == Init /\ [][Next]_vars

-----------------------------------------------------------------------------
(* Waves: layers peeled off a set of nodes, each node after its preds.     *)

Peel(preds) ==
  LET nodes == DOMAIN preds
      peeled[n \in 0 .. Cardinality(nodes)] ==
        IF n = 0 THEN {}
        ELSE LET before == peeled[n - 1] IN {i \in nodes : preds[i] \subseteq before}
  IN  [n \in DOMAIN peeled |-> peeled[n]]

\* The waves of a set of ticks.  Open blockers outside the set are nodes of the
\* first wave, whatever they wait for themselves, and are in no wave.
Compute_NoVirtual(tasks) ==
  LET eligible == {i \in tasks : Open(i) /\ ~IsAwaiting(i)}
      peeled   == Peel([i \in eligible |-> OpenBlockers(i) \cap eligible])
      last     == Cardinality(eligible)
  IN  [waves |-> [n \in 1 .. last |-> (peeled[n] \ peeled[n - 1]) \cap eligible],
       cycle |-> eligible \ peeled[last]]
Compute(tasks) ==
  LET eligible == {i \in tasks : Open(i) /\ ~IsAwaiting(i)}
      virtual  == (UNION {OpenBlockers(i) : i \in eligible}) \ eligible
      peeled   == Peel([i \in eligible \cup virtual |->
                          IF i \in virtual THEN {} ELSE OpenBlockers(i)])
      last     == Cardinality(eligible \cup virtual)
  IN  [waves |-> [n \in 1 .. last |-> (peeled[n] \ peeled[n - 1]) \cap eligible],
       cycle |-> eligible \ peeled[last]]

\* tk graph: the tasks of an epic, with the closed ones if all is set.
GraphTasks(epic, all) ==
  {i \in Children(epic) : ticks[i].type # "epic" /\ (all \/ Open(i))}

\* What is left out of the waves is put, in the order of the ids, after the
\* deepest blocker already placed.
WithRest(waves, rest) ==
  LET LevelOf(placed, i) ==
        1 + Max({0} \cup {n \in DOMAIN placed : placed[n] \cap ticks[i].blockedBy # {}})
      Put(placed, i) ==
        [n \in DOMAIN placed |-> IF n = LevelOf(placed, i) THEN placed[n] \cup {i} ELSE placed[n]]
      placing[S \in SUBSET rest] ==
        IF S = {} THEN [n \in 1 .. 2 * Cardinality(Ids) |->
                          IF n \in DOMAIN waves THEN waves[n] ELSE {}]
        ELSE Put(placing[S \ {Max(S)}], Max(S))
  IN  placing[rest]

GraphWaves(epic, all) ==
  LET tasks == GraphTasks(epic, all)
      waves == Compute(tasks).waves
  IN  IF all THEN WithRest(waves, tasks \ UNION Range(waves)) ELSE waves

InFlight(epic) ==
  {i \in Children(epic) : ticks[i].type # "epic" /\ ticks[i].status = "in_progress"}

DispatchNow(epic, all) ==
  {i \in Ticks :
     /\ LET waves == GraphWaves(epic, all) IN 1 \in DOMAIN waves /\ i \in waves[1]
     /\ ~ticks[i].deferred /\ ~IsAwaiting(i) /\ OpenBlockers(i) = {}
     /\ ticks[i].status = "open"}

\* The counts of tk graph; a tick that waits twice is counted once.
Stats(epic) ==
  LET tasks == GraphTasks(epic, FALSE) IN
  [deferred |-> Cardinality({i \in tasks : ticks[i].deferred}),
   awaiting |-> Cardinality({i \in tasks : ~ticks[i].deferred /\ IsAwaiting(i)}),
   ready    |-> Cardinality({i \in tasks : /\ ~ticks[i].deferred /\ ~IsAwaiting(i)
                                           /\ OpenBlockers(i) = {}})]

\* tk graph on an epic without tasks.
SaysPlan(epic)     == GraphTasks(epic, FALSE) = {} /\ NeedsPlanning(epic)
SaysComplete(epic) ==
  Open(epic) /\ Children(epic) # {} /\ \A c \in Children(epic) : ~Open(c)

MissingRoles(epic) ==
  IF Children(epic) = {} THEN {}
  ELSE {"review", "closeout"} \ {ticks[c].role : c \in Children(epic)}

\* The ticks whose text, or whose gate, is looked at by the planning lints.
GateLint(epic) ==
  {i \in GraphTasks(epic, FALSE) :
     ticks[i].requires \/ ticks[i].awaiting \notin {None, "checkpoint"}}

ReadinessLint(epic) ==
  {i \in GraphTasks(epic, FALSE) :
     /\ Children(i) = {} /\ ticks[i].role = None
     /\ ~ticks[i].requires /\ ~IsAwaiting(i)}

-----------------------------------------------------------------------------
(* tk roadmap: the epics and the projects.                                 *)

Nodes == {i \in Ticks : Role(i) \in {"epic", "empty_epic", "project"}}

NodeBlockers(i) == ticks[i].blockedBy \cap Nodes

\* Each node comes after those that block it, and those it is to come after.
NodePreds == LET nodes == Nodes IN
             [i \in nodes |-> (ticks[i].blockedBy \cup ticks[i].after) \cap nodes]

\* The wave of each node; what is stuck in a cycle is the last wave.
RoadmapWaves ==
  LET peeled == Peel(NodePreds)
      last   == Cardinality(Nodes)
  IN  [i \in Nodes |-> IF i \in peeled[last] THEN Min({n \in 1 .. last : i \in peeled[n]})
                       ELSE last + 1]

EnclosingProject_Node(i) == IF ticks[i].parent \in Nodes THEN ticks[i].parent ELSE Root
EnclosingProject(i) ==
  IF ticks[i].parent \in Nodes /\ Role(ticks[i].parent) = "project"
    THEN ticks[i].parent ELSE Root

NodeTotal(i) == IF Children(i) = {} THEN 0 ELSE Total(i)

ProjectStatus(i) == IF Total(i) > 0 /\ Closed(i) = Total(i) THEN "done" ELSE "active"

EpicStatus(i) ==
  IF ~Open(i) THEN "done"
  ELSE IF IsAwaiting(i) THEN "gated"
  ELSE IF ticks[i].status = "open" /\ \E b \in NodeBlockers(i) : Open(b) THEN "queued"
  ELSE IF ticks[i].status = "in_progress" \/ NodeTotal(i) > 0 THEN "active" ELSE "ready"

NodeStatus(i) == IF Role(i) = "project" THEN ProjectStatus(i) ELSE EpicStatus(i)

\* tk roadmap ID: the nodes linked with it, in either direction.
Chain(i) ==
  LET preds == NodePreds IN
  {i} \cup Reach([j \in Nodes |-> preds[j] \cup {k \in Nodes : j \in preds[k]}], {i})

\* The nodes the tree layout prints, from the roots down the projects.
Members(nodes) ==
  [p \in nodes |-> {i \in nodes : Role(p) = "project" /\ EnclosingProject(i) = p}]

TreeShows(nodes) ==
  LET roots == {i \in nodes : EnclosingProject(i) = Root}
  IN  roots \cup Reach(Members(nodes), roots)
-----------------------------------------------------------------------------
(* Properties.                                                             *)

Loops(succ) == {i \in DOMAIN succ : i \in Reach(succ, {i})}

\* The ticks that are on a loop of succ, or lead to one.
Snared(succ) ==
  LET loops == Loops(succ) IN
  {i \in DOMAIN succ : ({i} \cup Reach(succ, {i})) \cap loops # {}}

\* tk graph promises that what is in a wave can start when the waves before it
\* are done, and names what can never start.  A tick is in the wave after its last
\* open blocker; a blocker that is outside the epic, or with a human, counts as
\* one of the first wave, whatever it waits for itself.  A tick is in no wave
\* exactly if it is on a loop of blockers, or behind one, that stays among the
\* ticks to be planned.  Of a loop that leaves them tk graph says nothing: whoever
\* is snared by it is not reported, but then it waits, itself or through its
\* blockers, for a tick outside, and is not in the first wave.  (wave.go Compute.)
WavesSound ==
  \A tasks \in {Ticks} \cup {GraphTasks(e, FALSE) : e \in Ticks} :
    LET result   == Compute(tasks)
        eligible == {i \in tasks : Open(i) /\ ~IsAwaiting(i)}
        inside   == [i \in eligible |-> OpenBlockers(i) \cap eligible]
        LevelOf(i) == IF i \in eligible THEN CHOOSE n \in DOMAIN result.waves : i \in result.waves[n]
                      ELSE 1
    IN  /\ result.cycle = Snared(inside)
        /\ \A n \in DOMAIN result.waves : \A i \in result.waves[n] :
             n = 1 + Max({0} \cup {LevelOf(b) : b \in OpenBlockers(i)})
        /\ \A i \in eligible \cap Snared([j \in Ticks |-> OpenBlockers(j)]) :
             \/ i \in result.cycle
             \/ /\ \E j \in {i} \cup Reach(inside, {i}) : OpenBlockers(j) \ eligible # {}
                /\ \E n \in DOMAIN result.waves : n > 1 /\ i \in result.waves[n]

\* The commands agree on what an agent may take.  What tk graph dispatches are
\* the frontier's tasks of the epic, with and without --all, and are linted; an
\* epic is to be planned for all of them or none, and no item has a role that the
\* epic is said to lack; when the frontier of the whole
\* tracker has work so has tk next; and the owners' frontiers make up the whole,
\* as what tk stats counts for each is his share of it.
AgentsAgree ==
  LET whole == Frontier(Root, NoFilter)
      next  == NextTick(Root, NoFilter)
  IN  /\ Actionable(whole) => next # NoTick
      /\ \A o \in Owners :
           Statistics([owner |-> o]) =
             LET mine(S) == Cardinality({i \in S : ticks[i].owner = o}) IN
             [total |-> mine(Ticks), ready |-> mine(ReadyList(NoFilter)),
              blocked |-> mine(Blocked(Ticks))]
      /\ ItemIds(whole) \cap UNION {Blocks(b) : b \in {j \in Ticks : Open(j)}} = {}
      /\ next # NoTick => next.id \in ReadyList(NoFilter)
      /\ {i \in ItemIds(whole) : ticks[i].type = "task"} =
           {i \in ReadyList(NoFilter) : ticks[i].type = "task" /\ ticks[i].status = "open"}
      /\ whole.items = UNION {Frontier(Root, [owner |-> o]).items : o \in Owners}
      /\ \A e \in {i \in Ticks : ticks[i].type = "epic"} :
           LET items == ItemIds(Frontier(e, NoFilter))
               now   == DispatchNow(e, FALSE)
           IN  /\ now = GraphTasks(e, FALSE) \cap items
               /\ now = DispatchNow(e, TRUE)
               /\ \A i \in now :
                    \/ i \in ReadinessLint(e) \cup GateLint(e)
                    \/ ticks[i].role # None \/ Children(i) # {}
               /\ Stats(e).ready = Cardinality(now)
                                    + Cardinality(Ready(InFlight(e)))
               /\ SaysPlan(e) <=> e \in items
               /\ SaysPlan(e) => NextTick(e, NoFilter) = [id |-> e, action |-> "plan"]
               /\ SaysPlan(e) => NodeStatus(e) = "ready" /\ e \in InfoEpics
               /\ \A item \in Frontier(e, NoFilter).items :
                    ticks[item.id].parent = e => item.action \notin MissingRoles(e)

\* A tick that waits for a human is the human's: the frontier and the board show
\* it, tk list --awaiting too, tk list and show mark it, graph unless it is
\* deferred, and no command offers it to an agent.  tk next --awaiting has it if
\* it is open, but passes over one that is in progress.  Of the ticks that are
\* open the same are marked as blocked.
HumansOwn ==
  LET waiting == Frontier(Root, NoFilter).waiting
      desk    == {i \in waiting : ticks[i].status = "open"}
      Offers(s) == {NextTick(s, NoFilter).id} \cup ItemIds(Frontier(s, NoFilter))
                     \cup (IF s = Root THEN {} ELSE DispatchNow(s, TRUE))
  IN  /\ waiting = {i \in Ticks : Column(i) = "human"}
      /\ waiting = ListAwaiting \ {i \in Ticks : ~Open(i)}
      /\ \A s \in Ticks \cup {Root} : Offers(s) \cap waiting = {}
      /\ \A i \in Ticks :
           /\ ListMark(i) = ShowMark(i)
           /\ Open(i) => (ListMark(i) = "human" <=> i \in waiting)
           /\ Open(i) /\ ~ticks[i].deferred => (GraphMark(i) = "human" <=> i \in waiting)
           /\ ticks[i].status = "open" => (ListMark(i) = "blocked" <=> Column(i) = "blocked")
           /\ ticks[i].status = "open" /\ ~ticks[i].deferred => GraphMark(i) = ListMark(i)
      /\ IF desk = {} THEN NextAwaiting(NoFilter) = Root ELSE NextAwaiting(NoFilter) \in desk

\* What an open tick waits for: its blockers, and an epic for its children too.
WaitsFor ==
  [i \in Ticks |->
     OpenBlockers(i) \cup {c \in Children(i) : Open(c) /\ ticks[i].type = "epic"}]

\* When the frontier reports rest, each open tick waits in the end for something
\* that is not an agent's to start: a human, a date, work in flight, an epic that
\* only has to be closed, or a loop.  (The text of tk frontier knows of the human
\* and of work in flight only.)
RestIsExplained ==
  Summary(Frontier(Root, NoFilter)) # "actionable" =>
    \A i \in Ticks : Open(i) =>
      \E j \in {i} \cup Reach(WaitsFor, {i}) :
        \/ IsAwaiting(j) \/ ticks[j].deferred \/ ticks[j].status = "in_progress"
        \/ SaysComplete(j) \/ j \in Loops(WaitsFor)

\* The roadmap hides no epic or project: each is after those it comes after, in
\* the last wave only if it is stuck in a cycle; the tree layout prints each that
\* is not below a loop of projects; a container has the leaves of its children; the
\* nodes linked with one are the same from each of them; and a project that is done
\* is not overdue, and is to be closed out unless it is closed.
RoadmapWhole ==
  LET wave  == RoadmapWaves
      preds == NodePreds
  IN
  /\ \A i \in Nodes :
       IF i \in Snared(preds) THEN wave[i] = Cardinality(Nodes) + 1
       ELSE wave[i] = 1 + Max({0} \cup {wave[p] : p \in preds[i]})
  /\ TreeShows(Nodes) = Nodes \ Snared([i \in Nodes |-> {EnclosingProject(i)} \ {Root}])
  /\ \A i \in Ticks : Children(i) # {} =>
       Leaves(i) = UNION {Leaves(c) : c \in Children(i)}
  /\ \A i \in Nodes : \A j \in Chain(i) : Chain(j) = Chain(i)
  /\ \A p \in {i \in Nodes : Role(i) = "project"} :
       /\ NeedsCloseout(p) <=> Open(p) /\ NodeStatus(p) = "done"
       /\ NodeStatus(p) = "done" => p \notin Apply([overdue |-> TRUE])

\* tk close of an epic, or of its close-out tick, does not sound like the end while
\* an epic of the same project can be planned: it says so loudly, names what the
\* line has room for, all of it work of that project, and counts what it has not,
\* those epics among it.  (The other commands that close print no such line.)
CloseNamesNext ==
  said.of # Root /\ IsLoud(said.of) =>
    LET i       == said.of
        epic    == IF ticks[i].type = "epic" THEN i ELSE ticks[i].parent
        project == IF epic \in Ticks THEN ticks[epic].parent ELSE Root
        next    == {e \in Ticks : ticks[e].parent = project /\ NeedsPlanning(e)}
    IN  project # Root =>
          /\ next # {} => said.line = "go on"
          /\ Cardinality(next \ said.named) <= said.more
          /\ said.more > 0 => Cardinality(said.named) = MaxNamed
          /\ said.named \subseteq ItemIds(Frontier(project, NoFilter))
=============================================================================
