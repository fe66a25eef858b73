--------------------------- MODULE TaskLifecycle ---------------------------
(***************************************************************************)
(* TaskLifecycle of lifecycle.py: the record of one task and the methods   *)
(* that change it, as operators on the record.  Every method has a guard   *)
(* ("Can...") for the exceptions it raises.  Agent, heartbeat, outputs,    *)
(* error texts and history are left out; a final report is there or not.   *)
(***************************************************************************)
EXTENDS Naturals

States == {"pending", "ready", "running", "completed", "failed", "blocked", "skipped"}

Transitions ==
    [s \in States |->
        CASE s = "pending" -> {"ready", "skipped", "blocked"}
          [] s = "ready"   -> {"running", "skipped", "blocked"}
          [] s = "running" -> {"completed", "failed", "blocked"}
          [] s = "failed"  -> {"ready"}
          [] OTHER         -> {}]

Lives(maxAttempts) ==
    [status : States, attempt : 0 .. maxAttempts, retryable : BOOLEAN]

NewLife(status) == [status |-> status, attempt |-> 0, retryable |-> TRUE]

\* __post_init__ refuses an attempt beyond max_attempts.
Constructible(life, maxAttempts) == life.attempt \in 0 .. maxAttempts

CanMove(life, target) == target \in Transitions[life.status]

Move(life, target) == [life EXCEPT !.status = target]

MarkReady(life) == IF life.status = "pending" THEN Move(life, "ready") ELSE life

Start(life) ==
    [life EXCEPT !.status = "running", !.attempt = IF @ = 0 THEN 1 ELSE @]

Complete(life) == Move(life, "completed")

Fail(life, retryable) == [life EXCEPT !.status = "failed", !.retryable = retryable]

CanRetry(life, maxAttempts) ==
    life.status = "failed" /\ life.attempt < maxAttempts /\ life.retryable

Retry(life) == [life EXCEPT !.status = "ready", !.attempt = @ + 1]

\* recover_orphan: a task that runs without a final report failed, however
\* recent its heartbeat is; one with a report only after the timeout.
RecoverOrphan(life, reported, silent) ==
    IF life.status = "running" /\ (~reported \/ silent) THEN Fail(life, TRUE) ELSE life
=============================================================================
