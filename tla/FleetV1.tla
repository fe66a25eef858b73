------------------------------ MODULE FleetV1 ------------------------------
(***************************************************************************)
(* "pd fleet-run" and the V1 path of FleetOrchestrator: one invocation     *)
(* after the other on one feature, over a manifest that the operator may   *)
(* edit between them.  An invocation resumes the checkpoint of the last    *)
(* one or starts afresh, walks through the waves in batches, executes the  *)
(* tasks of a batch one by one with retries, and saves its last checkpoint *)
(* at the end; killed before that, it leaves nothing behind.  Waves can be *)
(* gated.  The file of --human-gate opens a gate with a human decision,    *)
(* which is bound to a run and to the plan and which expires, also while   *)
(* an invocation is going on, or with the result of an automatic gate,     *)
(* which is bound to nothing.                                              *)
(*                                                                         *)
(* The dispatcher is any that an integration may inject: a dispatch ends   *)
(* completed, with an error the retry policy accepts (an invalid contract  *)
(* of completion is one too), or with one it does not, a timeout included. *)
(***************************************************************************)
EXTENDS TaskLifecycle, FiniteSets

CONSTANTS
    N,            \* number of tasks; 1 .. N is the lexical order of their ids
    Plans,        \* the manifests the operator may use
    RunIds,       \* values of --run-id
    MaxParallel,  \* max_parallel of the orchestrator
    Window,       \* freshness_window of a human gate, in whole ticks of the clock
    MaxTime,      \* bound on the clock
    MaxRuns       \* bound on the number of invocations

Tasks == 1 .. N

ASSUME BoundsAssumption ==
    /\ N \in Nat \ {0} /\ MaxParallel \in Nat \ {0} /\ Window \in Nat
    /\ MaxTime \in Nat /\ MaxRuns \in Nat
\* What FleetPlan.from_dict lets through.  "fit" are the tasks an agent of the
\* plan can take, "stopped" those with a missing input or a blocked_when that
\* holds, "gated" the waves with gates.
WellFormed(p) ==
    /\ p.wave \in [Tasks -> Nat] /\ p.deps \in [Tasks -> SUBSET Tasks]
    /\ p.max \in [Tasks -> Nat \ {0}] /\ p.status \in [Tasks -> States]
    /\ p.fit \subseteq Tasks /\ p.stopped \subseteq Tasks /\ p.gated \subseteq Nat

\* What validate_plan lets through.
Acyclic(p) == \A S \in SUBSET Tasks \ {{}} : \E t \in S : p.deps[t] \cap S = {}

ASSUME PlansAssumption == \A p \in Plans : WellFormed(p) /\ Acyclic(p)

VARIABLES
    plan,    \* the manifest
    gates,   \* the file of --human-gate: the last entry for each wave
    now,     \* the clock
    disk,    \* the checkpoint in fleet_state, or none
    life,    \* the lifecycles of the invocation in progress
    run,     \* where that invocation is and what it remembers
    runs     \* number of invocations so far

v1Vars == <<plan, gates, now, disk, life, run, runs>>

Waves(p) == {p.wave[t] : t \in Tasks}

\* A decision with blockers, rejected or still pending counts as "refused", and
\* so does an automatic result of kind review or grill, one that is not passed
\* and one without owner, decision, evidence or reports.
Verdicts == {"approved", "refused", "placeholder"}

NoDecision == [kind |-> "none"]
HumanDecision(id, verdict) ==
    [kind |-> "human", run |-> id, scope |-> plan, verdict |-> verdict, updated |-> now]
AutomaticResult(verdict) == [kind |-> "automatic", verdict |-> verdict]

NoCheckpoint == <<>>

Idle == [pc |-> "idle", dry |-> FALSE, id |-> "", file |-> FALSE, wave |-> 0, batch |-> {}, opened |-> 0,
         seen |-> {}, hook |-> NoCheckpoint, loaded |-> NoCheckpoint, outcome |-> "none"]

(***************************************************************************)
(* Gates.  A human decision opens a wave only for the run and the plan it  *)
(* was made for, approved and without open blockers, while it is fresh.    *)
(* An entry that is no human record is the result of an automatic gate     *)
(* (evidence or smoke_test): it opens the wave when GatePolicy lets it     *)
(* pass, whatever the run, the plan and the clock say.  Without an entry a *)
(* gate of the manifest never passes.                                      *)
(***************************************************************************)
\* HumanVerificationGate.evaluate.
DecisionAllows(decision) == decision.verdict = "approved" /\ now <= decision.updated + Window

\* GatePolicy.evaluate, on a result with nothing missing.
PolicyAllows(result) == result.verdict = "approved"

\* The scope a decision must carry: the plan's digest, its tasks and its waves.
GateScope == plan

\* Mutant: the decision is not bound to the plan.
GatePassedUnscoped(w) ==
    /\ run.file
    /\ \/ /\ gates[w].kind = "human"
          /\ run.id # "" /\ gates[w].run = run.id
          /\ DecisionAllows(gates[w])
       \/ gates[w].kind = "automatic" /\ PolicyAllows(gates[w])

GatePassed(w) ==
    /\ run.file
    /\ \/ /\ gates[w].kind = "human"
          /\ run.id # "" /\ gates[w].run = run.id
          /\ gates[w].scope = GateScope
          /\ DecisionAllows(gates[w])
       \/ gates[w].kind = "automatic" /\ PolicyAllows(gates[w])

\* What the command refuses in the file of --human-gate: a gate the manifest
\* does not have, or one that still carries the digests of the template.
FileRefused ==
    \E w \in DOMAIN gates :
        gates[w] # NoDecision /\ (w \notin plan.gated \/ gates[w].verdict = "placeholder")

\* _agent_block, and _missing_inputs with _blocked_condition.
Fit(t) == t \in plan.fit
Stopped(t) == t \in plan.stopped

(***************************************************************************)
(* compute_ready_tasks and _ready_ids: the wave is a barrier, and so are   *)
(* the dependencies.                                                       *)
(***************************************************************************)
Terminal ==
    {t \in Tasks : life[t].status \in {"completed", "skipped"}
                     \/ plan.status[t] \in {"completed", "skipped"}}

Ready(t) ==
    /\ plan.status[t] \in {"pending", "ready"}
    /\ plan.deps[t] \subseteq Terminal
    /\ \A u \in Tasks : plan.wave[u] < plan.wave[t] => u \in Terminal
    /\ plan.wave[t] \in plan.gated => GatePassed(plan.wave[t])
    /\ life[t].status \in {"pending", "ready"}
    /\ t \notin run.seen
    /\ Fit(t)

ReadyIds(w) == {t \in Tasks : Ready(t) /\ plan.wave[t] = w}

(***************************************************************************)
(* _block_unresolvable: one pass over the tasks in the order of their ids. *)
(* A task blocked in this pass blocks those after it in the same pass and  *)
(* those before it only in the next one.                                   *)
(***************************************************************************)
Over == {"completed", "failed", "blocked", "skipped"}

BlockUnresolvable(lives) ==
    LET pass[i \in 0 .. N] ==
            IF i = 0 THEN lives
            ELSE IF /\ pass[i - 1][i].status \notin Over
                    /\ \/ ~Fit(i)
                       \/ \E d \in plan.deps[i] : pass[i - 1][d].status \in {"failed", "blocked"}
                 THEN [pass[i - 1] EXCEPT ![i] = Move(@, "blocked")]
                 ELSE pass[i - 1]
    IN pass[N]

\* Mutant: only a gate nobody decided on counts as missing.
StallsUndecided(w) ==
    [t \in Tasks |->
        IF /\ plan.wave[t] = w /\ life[t].status \in {"pending", "ready"}
           /\ w \in plan.gated /\ gates[w] = NoDecision
        THEN Move(life[t], "blocked") ELSE life[t]]

\* _block_wave_stalls: what is left of a wave whose gates are not passed.
BlockWaveStalls(w) ==
    [t \in Tasks |->
        IF /\ plan.wave[t] = w /\ life[t].status \in {"pending", "ready"}
           /\ w \in plan.gated /\ ~GatePassed(w)
        THEN Move(life[t], "blocked") ELSE life[t]]

\* _checkpoint gives the hook the lifecycles as they are; it is called with
\* every block and with the end of every task.
Hooked(lives) == IF lives = life THEN run.hook ELSE lives

(***************************************************************************)
(* The operator.                                                           *)
(***************************************************************************)
Init ==
    /\ plan \in Plans
    /\ gates = [w \in UNION {Waves(p) : p \in Plans} |-> NoDecision]
    /\ now = 0
    /\ disk = NoCheckpoint
    /\ life = [t \in Tasks |-> NewLife("pending")]
    /\ run = Idle
    /\ runs = 0

\* An entry written into the gate file: a decision, from the template of the
\* plan, or the result of an automatic gate.
Decide ==
    \E w \in plan.gated \cap Waves(plan), verdict \in Verdicts :
        /\ run.pc = "idle" /\ runs < MaxRuns
        /\ \/ \E id \in RunIds : gates' = [gates EXCEPT ![w] = HumanDecision(id, verdict)]
           \/ gates' = [gates EXCEPT ![w] = AutomaticResult(verdict)]
        /\ UNCHANGED <<plan, now, disk, life, run, runs>>

EditPlan ==
    /\ run.pc = "idle" /\ runs > 0 /\ runs < MaxRuns
    /\ plan' \in Plans \ {plan}
    /\ run' = Idle
    /\ UNCHANGED <<gates, now, disk, life, runs>>

Tick ==
    /\ now < MaxTime
    /\ now' = now + 1
    /\ UNCHANGED <<plan, gates, disk, life, run, runs>>

(***************************************************************************)
(* The command.  _resume builds the lifecycles from the checkpoint, or     *)
(* from the statuses the manifest declares; a task that is running there   *)
(* is ready again.  An attempt beyond the plan's max_attempts ends the     *)
(* command with nothing saved.                                             *)
(***************************************************************************)
\* Mutant: whatever the last invocation left is eligible again.
ResumedAll(t) == IF disk[t].status = "blocked" THEN disk[t] ELSE Move(disk[t], "ready")

Resumed(t) ==
    LET saved == disk[t]
    IN IF saved.status = "running" THEN Move(saved, "ready") ELSE saved

Declared(t) == NewLife(IF plan.status[t] = "running" THEN "ready" ELSE plan.status[t])

Begin ==
    \E resume, dry, file \in BOOLEAN, id \in RunIds \cup {""} :
        LET lives == IF resume /\ disk # NoCheckpoint THEN [t \in Tasks |-> Resumed(t)]
                     ELSE [t \in Tasks |-> Declared(t)]
        IN /\ run.pc = "idle" /\ runs < MaxRuns
           /\ file => ~FileRefused /\ \E w \in DOMAIN gates : gates[w] # NoDecision
           /\ \A t \in Tasks : Constructible(lives[t], plan.max[t])
           /\ life' = BlockUnresolvable(lives)
           /\ run' = [Idle EXCEPT !.pc = "wave", !.dry = dry, !.id = id, !.file = file,
                                  !.wave = CHOOSE w \in Waves(plan) : \A x \in Waves(plan) : w <= x,
                                  !.hook = IF life' = lives THEN NoCheckpoint ELSE life',
                                  !.loaded = IF resume THEN disk ELSE NoCheckpoint]
           /\ runs' = runs + 1
           /\ UNCHANGED <<plan, gates, now, disk>>

\* The file is refused, or the constructor raises OrchestratorError.
Refuse ==
    /\ run.pc = "idle" /\ runs < MaxRuns
    /\ \/ FileRefused
       \/ disk # NoCheckpoint /\ \E t \in Tasks : ~Constructible(Resumed(t), plan.max[t])
    /\ runs' = runs + 1
    /\ UNCHANGED <<plan, gates, now, disk, life, run>>

\* The next batch of the wave, the first max_parallel tasks in the order of
\* their ids; the gates are looked at here only.
PickBatch ==
    LET ready == ReadyIds(run.wave)
    IN /\ run.pc = "wave" /\ ready # {}
       /\ run' = [run EXCEPT !.pc = "task", !.opened = now,
                             !.batch = {t \in ready : Cardinality({u \in ready : u < t}) < MaxParallel}]
       /\ UNCHANGED <<plan, gates, now, disk, life, runs>>

\* Mutant: the tasks shown are not remembered.
MarkDryRunForgets ==
    /\ run.pc = "task" /\ run.dry
    /\ life' = BlockUnresolvable(life)
    /\ run' = [run EXCEPT !.pc = "wave", !.opened = 0, !.batch = {}, !.hook = Hooked(life')]
    /\ UNCHANGED <<plan, gates, now, disk, runs>>

MarkDryRun ==
    /\ run.pc = "task" /\ run.dry
    /\ life' = BlockUnresolvable(life)
    /\ run' = [run EXCEPT !.pc = "wave", !.seen = @ \cup run.batch, !.opened = 0,
                          !.batch = {}, !.hook = Hooked(life')]
    /\ UNCHANGED <<plan, gates, now, disk, runs>>

(***************************************************************************)
(* _execute, for the first task left of the batch: blocked at once, or     *)
(* started and then reported on.                                           *)
(***************************************************************************)
Current == CHOOSE t \in run.batch : \A u \in run.batch : t <= u

\* The rest of run(): after the last task of a batch the blocked tasks.
AfterTask(lives) ==
    LET last == run.batch = {Current}
    IN /\ life' = IF last THEN BlockUnresolvable(lives) ELSE lives
       /\ run' = [run EXCEPT !.pc = IF last THEN "wave" ELSE "task",
                             !.opened = IF last THEN 0 ELSE @,
                             !.batch = @ \ {Current}, !.hook = life']
       /\ UNCHANGED <<plan, gates, now, disk, runs>>

BlockTask ==
    /\ run.pc = "task" /\ ~run.dry
    /\ Stopped(Current)
    /\ AfterTask([life EXCEPT ![Current] = Move(@, "blocked")])

StartTask ==
    /\ run.pc = "task" /\ ~run.dry
    /\ ~Stopped(Current)
    /\ life' = [life EXCEPT ![Current] = Start(MarkReady(@))]
    /\ run' = [run EXCEPT !.pc = "dispatched"]
    /\ UNCHANGED <<plan, gates, now, disk, runs>>

TaskCompleted ==
    /\ run.pc = "dispatched"
    /\ AfterTask([life EXCEPT ![Current] = Complete(@)])

\* An error the policy retries, with attempts left: nothing is checkpointed.
TaskRetried ==
    LET failed == Fail(life[Current], TRUE)
    IN /\ run.pc = "dispatched"
       /\ CanRetry(failed, plan.max[Current])
       /\ life' = [life EXCEPT ![Current] = Start(Retry(failed))]
       /\ UNCHANGED <<plan, gates, now, disk, run, runs>>

TaskFailed ==
    \E retryable \in BOOLEAN :
        LET failed == Fail(life[Current], retryable)
        IN /\ run.pc = "dispatched"
           /\ AfterTask([life EXCEPT ![Current] = failed])

WaveDrained ==
    /\ run.pc = "wave" /\ ReadyIds(run.wave) = {}
    /\ run' = [run EXCEPT !.pc = "stall"]
    /\ UNCHANGED <<plan, gates, now, disk, life, runs>>

\* The gates are looked at again; after the last wave the run is over.
EndWave ==
    LET later == {w \in Waves(plan) : w > run.wave}
        stalled == BlockWaveStalls(run.wave)
    IN /\ run.pc = "stall"
       /\ life' = IF later = {} THEN BlockUnresolvable(stalled) ELSE stalled
       /\ run' = IF later = {} THEN [run EXCEPT !.pc = "end", !.hook = Hooked(life')]
                 ELSE [run EXCEPT !.pc = "wave", !.hook = Hooked(life'),
                                  !.wave = CHOOSE w \in later : \A x \in later : w <= x]
       /\ UNCHANGED <<plan, gates, now, disk, runs>>

\* What the command prints as its status.
Outcome ==
    IF \E t \in Tasks : life[t].status = "blocked" THEN "blocked"
    ELSE IF \E t \in Tasks : life[t].status = "failed" THEN "failed" ELSE "completed"

\* The last checkpoint goes to STATE.json, unless it was a dry run; the hook
\* is called once more if it never was.
Save ==
    /\ run.pc = "end"
    /\ disk' = IF run.dry THEN disk ELSE IF run.hook = NoCheckpoint THEN life ELSE run.hook
    /\ run' = [Idle EXCEPT !.outcome = IF run.dry THEN "dry_run" ELSE Outcome]
    /\ UNCHANGED <<plan, gates, now, life, runs>>

Crash ==
    /\ run.pc # "idle"
    /\ run' = Idle
    /\ life' = [t \in Tasks |-> NewLife("pending")]
    /\ UNCHANGED <<plan, gates, now, disk, runs>>

Step == PickBatch \/ MarkDryRun \/ BlockTask \/ StartTask
        \/ TaskCompleted \/ TaskRetried \/ TaskFailed \/ WaveDrained \/ EndWave \/ Save

Next == Decide \/ EditPlan \/ Tick \/ Begin \/ Refuse \/ Step \/ Crash

Spec == Init /\ [][Next]_v1Vars

\* A process that is not killed keeps running.
FairSpec == Spec /\ WF_v1Vars(Step)

-----------------------------------------------------------------------------
(***************************************************************************)
(* Properties                                                              *)
(***************************************************************************)
\* A task that is being dispatched is behind no barrier (compute_ready_tasks):
\* its dependencies and all earlier waves are over, also when the batch was
\* put together before another of its tasks failed.  If its wave is gated, the
\* command was given the gate file, and the entry in it is a human decision for
\* this run and this very manifest, approved and fresh when the batch was put
\* together, or an automatic result that the policy passes, whatever was edited
\* or resumed before.  (An automatic result may be of an earlier run and of
\* another manifest: _gate_passed binds only human decisions.)
DispatchIsCleared ==
    run.pc = "dispatched" =>
        LET w == plan.wave[Current]
        IN /\ plan.deps[Current] \subseteq Terminal
           /\ \A u \in Tasks : plan.wave[u] < w => u \in Terminal
           /\ w \in plan.gated =>
                /\ run.file /\ gates[w] # NoDecision /\ gates[w].verdict = "approved"
                /\ gates[w].kind = "human" =>
                      /\ run.id # "" /\ gates[w].run = run.id /\ gates[w].scope = plan
                      /\ run.opened <= gates[w].updated + Window

\* "Resume never replays a completed task": what was completed in the
\* checkpoint an invocation resumed is left as it was to the end.
CompletedNotReplayed ==
    run.loaded # NoCheckpoint =>
        \A t \in Tasks : run.loaded[t].status = "completed" => life[t] = run.loaded[t]

\* A manifest in which no task depends on one of a later wave, and which
\* declares no task to be running.
Ordered(p) ==
    /\ \A t \in Tasks : \A d \in p.deps[t] : p.wave[d] <= p.wave[t]
    /\ \A t \in Tasks : p.status[t] # "running"

\* The command prints "completed", and exits with 0, only when every task is
\* completed or skipped: gates that expired, failed dependencies and waves
\* never entered all show as blocked or failed.  All manifests must be
\* ordered, not only the last: what a run leaves pending may be declared
\* failed by the next one.
VerdictHolds == run.outcome = "completed" => Terminal = Tasks

OrderedVerdictHolds == (\A p \in Plans : Ordered(p)) => VerdictHolds

\* Every invocation that is not killed comes to its end: retries are bounded,
\* a batch is never empty and the same task is not ready twice.
InvocationEnds == run.pc # "idle" ~> run.pc = "idle"
=============================================================================
