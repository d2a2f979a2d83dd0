----------------------------- MODULE LifecycleMC -----------------------------
(***************************************************************************)
(* Small instances of Lifecycle: an epic and its children, and the flag    *)
(* combinations tk update is called with.                                  *)
(***************************************************************************)
EXTENDS Lifecycle

\* An epic "e" with the other ticks as its children; or a tick alone.
UnderEpic == [t \in Ticks |-> IF t # "e" /\ "e" \in Epics THEN "e" ELSE None]

NoFlag == [status |-> Unset, manual |-> Unset, requires |-> Unset,
           awaiting |-> Unset, verdict |-> Unset]

Claim   == [NoFlag EXCEPT !.status = "in_progress"]
Unclaim == [NoFlag EXCEPT !.status = "open"]

\* The calls that hand a tick over: claim, release, park, gate and decide.
HandingOver == {Claim, Unclaim, [NoFlag EXCEPT !.awaiting = "input"],
                [NoFlag EXCEPT !.requires = "approval"]}
               \cup {[NoFlag EXCEPT !.verdict = v] : v \in Verdict}

\* Every combination but the four that take a gate away in so many words:
\* closing by hand, --manual=false, --awaiting "" and --requires "".  One gate
\* stands for the three.
NotByHand == {f \in Flags : /\ f.status # "closed" /\ f.manual # "false"
                            /\ f.awaiting # None /\ f.requires \in {"approval", Unset}}
=============================================================================
