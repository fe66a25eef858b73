----------------------------- MODULE MCFleetRun -----------------------------
(* Instances of FleetRun for TLC: three tasks, two of them side by side in  *)
(* the first wave; or tasks of one wave that depend on nothing.            *)
EXTENDS FleetRun, TLC

CONSTANTS a, b, c

TwoWaves == [t \in {a, b, c} |-> IF t = c THEN 2 ELSE 1]
Join == [t \in {a, b, c} |-> IF t = c THEN {a} ELSE {}]
OneWave == [t \in Tasks |-> 1]
NoDeps == [t \in Tasks |-> {}]
Symmetry == Permutations(Procs)
=============================================================================
