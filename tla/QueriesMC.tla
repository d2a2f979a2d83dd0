----------------------------- MODULE QueriesMC -----------------------------
(***************************************************************************)
(* Small trackers for Queries.                                             *)
(***************************************************************************)
EXTENDS Queries

Task(parent)  == [Blank EXCEPT !.parent = parent]
Epic(parent)  == [Task(parent) EXCEPT !.type = "epic"]

\* A project of two epics: one whose first task is done and whose close-out
\* remains, and one to plan after it.
TwoEpics ==
  <<Task(0), Epic(1), [Task(2) EXCEPT !.status = "closed"],
    [Task(2) EXCEPT !.role = "closeout", !.blockedBy = {3}],
    [Epic(1) EXCEPT !.blockedBy = {2}]>>

\* An epic with a chain of tasks, the first of which waits for a task outside
\* that is another's, and one in the human's hands.
Chained ==
  <<Epic(0), [Task(1) EXCEPT !.blockedBy = {5}], [Task(1) EXCEPT !.blockedBy = {2}],
    [Task(1) EXCEPT !.awaiting = "approval"],
    [Task(0) EXCEPT !.owner = "you", !.priority = 1]>>

Layouts == {TwoEpics, Chained}
=============================================================================
