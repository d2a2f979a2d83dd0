----------------------------- MODULE TickStoreMC -----------------------------
(***************************************************************************)
(* TickStore for TLC: the processes are alike.                             *)
(***************************************************************************)
EXTENDS TickStore, TLC

Symmetry == Permutations(Procs)
=============================================================================
