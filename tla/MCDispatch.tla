----------------------------- MODULE MCDispatch -----------------------------
(* Small instances of Dispatch for TLC. *)
EXTENDS Dispatch, TLC

\* Runs and Subs only occur in quantifiers and as function arguments.
Symmetry == Permutations(Runs) \cup Permutations(Subs)
=============================================================================
