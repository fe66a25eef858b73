----------------------------- MODULE MCRunStore -----------------------------
(* An instance of RunStore for TLC: two tasks and two slots, leases of one *)
(* second and a clock of three values, so that expiry and reclaim happen.  *)
EXTENDS RunStore, TLC

Symmetry == Permutations(Tasks)
=============================================================================
