------------------------------- MODULE Handoff -------------------------------
(***************************************************************************)
(* What the lifecycle of a tick promises, whichever command moves it: a    *)
(* tick is with an agent, with a human, or done, and a runner can neither  *)
(* take a tick away from the human it waits for, nor finish one whose gate *)
(* no human has passed, nor drop the gate.                                 *)
(***************************************************************************)
CONSTANT Ticks

VARIABLES holder,   \* holder[t]: "agent", "human" or "done"
          gated,    \* the ticks with a declared gate
          by        \* who moved last: "human" or "runner"

Holders == {"agent", "human", "done"}

\* A runner may hand a tick to a human, finish one without a gate, reopen one
\* that is done, and declare a gate.
RunnerMay(t, to, gate) ==
  /\ holder[t] = "human" => to = "human"
  /\ to = "done" /\ holder[t] # "done" => t \notin gated
  /\ t \in gated => gate

Move(t, to, gate, who) ==
  /\ who = "runner" => RunnerMay(t, to, gate)
  /\ holder' = [holder EXCEPT ![t] = to]
  /\ gated'  = IF gate THEN gated \cup {t} ELSE gated \ {t}
  /\ by' = who

Init ==
  /\ holder \in [Ticks -> Holders]
  /\ gated \subseteq Ticks
  /\ by = "human"

Next == \E t \in Ticks, to \in Holders, gate \in BOOLEAN, who \in {"human", "runner"} :
          Move(t, to, gate, who)

Spec == Init /\ [][Next]_<<holder, gated, by>>
=============================================================================
