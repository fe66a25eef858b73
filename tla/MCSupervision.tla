--------------------------- MODULE MCSupervision ---------------------------
(***************************************************************************)
(* Supervision with one task that is retried, and two workers: a healthy   *)
(* one, also when another owner is active, and one that is silent.         *)
(***************************************************************************)
EXTENDS Supervision

Integer(n) == [whole |-> n, part |-> 0, float |-> FALSE]

\* 0, 1, 1.5, 2.0 and 3.
Two == [Integer(2) EXCEPT !.float = TRUE]
SomeNumbers ==
    {Integer(0), Integer(1), Integer(3), Two, [whole |-> 1, part |-> 5, float |-> TRUE]}

SomeMoves == {<<"ready", "running">>, <<"running", "failed">>}

Healthy == [epoch |-> 2, liveness |-> "alive", readiness |-> "ready", progress |-> "advanced",
            health |-> "healthy", beat |-> "fresh", advance |-> "recent"]

SomeHealths == {Healthy, [Healthy EXCEPT !.liveness = "missing"]}

\* The log and the handoffs share nothing: one at a time is enough.
LogUntouched == ~created /\ store = -1 /\ reader = Nobody
NothingHandedOff == handoffs = [id \in Epochs \X Reasons |-> {}] /\ ~Locked
OneAtATime == (LogUntouched \/ NothingHandedOff)'

\* One owner leaves checkpoints, the other transitions; 0 and 2.0 are in
\* different logs; the store goes as far as a replay does.
Used == {log'[i].seq : i \in DOMAIN log'}
Varied ==
    /\ \A i \in DOMAIN log' : log'[i].epoch = 1 <=> log'[i].task = Checkpoint
    /\ Integer(0) \notin Used \/ Two \notin Used
    /\ store' <= Limit
=============================================================================
