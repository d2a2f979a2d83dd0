------------------------------ MODULE Question ------------------------------
(***************************************************************************)
(* What the operator engine promises of a question, whatever processes and *)
(* surfaces are involved: it is settled once, by the first resolution, and *)
(* an answer takes effect at most once; a question that was ruled moot     *)
(* never does.                                                             *)
(***************************************************************************)
EXTENDS Naturals

CONSTANTS Questions, Resolution, Unsettled, IsAnswer(_)

VARIABLES outcome,   \* outcome[q]: how q was settled, or Unsettled
          effect     \* effect[q]: how often its answer has taken effect

vars == <<outcome, effect>>

Init ==
  /\ outcome = [q \in Questions |-> Unsettled]
  /\ effect = [q \in Questions |-> 0]

Settle(q, r) ==
  /\ outcome[q] = Unsettled
  /\ r # Unsettled
  /\ outcome' = [outcome EXCEPT ![q] = r]
  /\ UNCHANGED effect

TakeEffect(q) ==
  /\ IsAnswer(outcome[q])
  /\ effect[q] = 0
  /\ effect' = [effect EXCEPT ![q] = 1]
  /\ UNCHANGED outcome

Next == \E q \in Questions :
          (\E r \in Resolution : Settle(q, r)) \/ TakeEffect(q)

Spec == Init /\ [][Next]_vars
=============================================================================
