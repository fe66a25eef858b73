------------------------- MODULE MCCheckpointStore -------------------------
(***************************************************************************)
(* Bodies for CheckpointStore: a task that runs and has no final report    *)
(* (an orphan to recover()), a task that is done, and the running one with *)
(* a field name that load refuses.                                         *)
(***************************************************************************)
EXTENDS CheckpointStore, TLC

Body(status, ok) ==
    [life |-> [status |-> status, attempt |-> 1, retryable |-> TRUE],
     report |-> FALSE, silent |-> FALSE, clean |-> ok]

Running == Body("running", TRUE)
Done == Body("completed", TRUE)
Refused == Body("running", FALSE)

SomeBodies == {Running, Done, Refused}

Symmetry == Permutations(Procs) \cup Permutations(Plans)
=============================================================================
