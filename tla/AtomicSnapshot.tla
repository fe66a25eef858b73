--------------------------- MODULE AtomicSnapshot ---------------------------
(***************************************************************************)
(* What FleetRunStore promises of the snapshot of one run, said without    *)
(* files: one register.  A write installs a successor of what is there; a  *)
(* write that returned is durable; an interruption may bring back any      *)
(* snapshot installed since the last acknowledged one, and nothing older.  *)
(***************************************************************************)
EXTENDS Integers

VARIABLES
    current,   \* what load() returns
    possible,  \* what load() may return after an interruption
    acked      \* the last snapshot whose write returned

vars == <<current, possible, acked>>

None == [kind |-> "absent", generation |-> -1, write |-> 0]

Init == current = None /\ possible = {None} /\ acked = None

(* A write takes effect: every reader sees the new snapshot.               *)
Install ==
    /\ current'.kind = "valid"
    /\ current'.generation > current.generation
    /\ possible' = possible \cup {current'}
    /\ UNCHANGED acked

(* The write returns to its caller.                                        *)
Acknowledge ==
    /\ acked' = current
    /\ possible' = {current}
    /\ UNCHANGED current

(* The process dies, or the power is lost, and the store is read again.    *)
Recover ==
    /\ current' \in possible
    /\ possible' \subseteq possible
    /\ UNCHANGED acked

Next == Install \/ Acknowledge \/ Recover

Spec == Init /\ [][Next]_vars
=============================================================================
