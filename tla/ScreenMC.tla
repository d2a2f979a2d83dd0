------------------------------ MODULE ScreenMC ------------------------------
(***************************************************************************)
(* A small instance of Screen: a project, its epic, the epic's task, and a *)
(* task of its own that waits for a human; and what other commands make of *)
(* them: the project is deleted and the task is done.                      *)
(***************************************************************************)
EXTENDS Screen

Task(parent, status, awaiting) ==
  [parent |-> parent, epic |-> FALSE, status |-> status, awaiting |-> awaiting, blockedBy |-> {}]
Epic(parent) == [Task(parent, "open", FALSE) EXCEPT !.epic = TRUE]

Full == [p |-> Task(None, "open", FALSE), e |-> Epic("p"), a |-> Task("e", "open", FALSE),
         b |-> [Task(None, "open", TRUE) EXCEPT !.blockedBy = {"a"}]]
Later == [i \in {"e", "a", "b"} |-> IF i = "a" THEN Task("e", "closed", FALSE) ELSE Full[i]]

SomeTrackers == {Full, Later}

Old   == [view |-> "board", scope |-> "p", focus |-> "main", detailVisible |-> FALSE, shut |-> {}]
SomeFiles == {DefaultState, Old}

Named == <<"a", "b", "e", "p">>
Ranked == <<"p", "e", "b", "a">>
Dated == <<"b", "a", "p", "e">>
AllViews == <<"list", "board", "roadmap", "timeline">>
=============================================================================
