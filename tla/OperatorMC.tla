----------------------------- MODULE OperatorMC -----------------------------
(***************************************************************************)
(* Small instances of Operator: which questions there are, and about which *)
(* ticks.  Questions and ticks are strings; processes are model values.    *)
(***************************************************************************)
EXTENDS Operator

\* Questions on ticks of their own.
AskAndGate     == [q \in {"a", "g"} |-> IF q = "a" THEN "t" ELSE "u"]
KindAskAndGate == [q \in {"a", "g"} |-> IF q = "a" THEN "ask" ELSE "gate"]

\* Two questions on one tick, and a gate on another.
TwoAndGate     == [q \in {"a", "b", "g"} |-> IF q = "g" THEN "u" ELSE "t"]
KindTwoAndGate == [q \in {"a", "b", "g"} |-> IF q = "g" THEN "gate" ELSE "ask"]
=============================================================================
