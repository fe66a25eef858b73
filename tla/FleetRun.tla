------------------------------ MODULE FleetRun ------------------------------
(***************************************************************************)
(* Invocations of "pd v2 run-local" on one run: pd.py (_cmd_v2), the V2    *)
(* pipeline of FleetOrchestrator and LeaseScheduler, over the store of     *)
(* RunStore.  Any number of them may be in progress at once, each may be   *)
(* killed between two of its store calls, and each call is one critical    *)
(* section of the store: what an invocation read in one section may be     *)
(* stale in the next.                                                      *)
(*                                                                         *)
(* pd.py leaves max_parallel of the orchestrator at its default of 1, so   *)
(* an invocation holds one lease at a time; max_parallel of the scheduler  *)
(* is the option --max-parallel.  The worker's result is any AgentReport   *)
(* an adapter may return.  Sorting of ids is left out: where the code      *)
(* takes the first in lexical order, any is taken.                         *)
(*                                                                         *)
(* The plan declares every task as pending, which is its default: the      *)
(* scheduler falls back on a declared status while the store has none.     *)
(***************************************************************************)
EXTENDS RunStore

CONSTANTS
    Procs,        \* slots for concurrent invocations
    Wave,         \* wave of each task of the plan
    Deps,         \* depends_on of each task
    MaxAttempts,  \* retry_policy.max_attempts
    LeaseSeconds, \* lease_seconds of scheduler.claim
    CommitFaults, \* whether writing a commit may raise, done or not
    MaxStarts,    \* bound on the number of invocations
    MaxCrashes    \* bound on the number of killed invocations

ASSUME PlanAssumption ==
    /\ IsFiniteSet(Tasks)
    /\ Wave \in [Tasks -> Nat]
    /\ Deps \in [Tasks -> SUBSET Tasks]
ASSUME EventsAssumption == {"retry", "run_failed"} \subseteq Notes
ASSUME RetryAssumption == MaxAttempts \in Nat \ {0}
ASSUME LeaseSecondsAssumption == LeaseSeconds \in Durations
ASSUME FaultsAssumption ==
    CommitFaults \in BOOLEAN /\ MaxStarts \in Nat /\ MaxCrashes \in Nat

VARIABLES
    pc,      \* the next critical section of each invocation
    local,   \* what each invocation remembers of earlier sections
    starts,  \* number of invocations so far
    crashes  \* number of them that were killed

fleetVars == <<generation, status, taskStatus, leases, attempts, reports, events, now, issued,
               pc, local, starts, crashes>>

NoToken == [task |-> CHOOSE t \in Tasks : TRUE, generation |-> 0, expires |-> 0]

Fresh == [seen |-> 0,            \* generation read for a compare-and-set
          sampled |-> 0,         \* time sampled by recover_stale
          todo |-> {},           \* tasks left in a loop over tasks
          broken |-> FALSE,      \* the checkpoint makes _resume raise
          terminal |-> {},       \* terminal_ids
          view |-> [t \in Tasks |-> "pending"],   \* statuses
          candidates |-> {},     \* what claim() read as ready
          token |-> NoToken, attempt |-> 0, outcome |-> "none",
          final |-> "none"]      \* the status to give the run

Sections == {"recover", "recoverEach", "drop", "loadRunning", "toRunning", "reconcile",
             "hydrate", "publish", "ready", "candidates", "claim", "enrich", "use", "working",
             "result", "commit", "event", "failure", "retry", "commitFailed", "failedEvent",
             "release", "finalLoad", "toFinal", "failLoad", "failEvent", "failReload", "toFailed"}

(* What an invocation will not read again is forgotten, so that states do  *)
(* not differ in it.                                                       *)
Goto(p, section) == pc' = [pc EXCEPT ![p] = section]
Remember(p, r) == local' = [local EXCEPT ![p] = r]
Then(p, section, r) == Goto(p, section) /\ Remember(p, r)
Exit(p) == Then(p, "idle", Fresh)
UnchangedStore == UNCHANGED <<store, now, issued>>
UnchangedCounts == UNCHANGED <<starts, crashes>>

-----------------------------------------------------------------------------
(* LeaseScheduler._ready_ids_from_state with the current time: the tasks   *)
(* of the lowest wave that is not finished, whose dependencies completed   *)
(* and that nobody holds.                                                  *)
Open == { t \in Tasks : taskStatus[t] \notin TerminalTaskStatuses }
Completed == { t \in Tasks : taskStatus[t] = "completed" \/ reports[t].status = "completed" }

(* Mutant: dependencies are left to the waves.                             *)
ReadyByWave == { t \in Open : (\A u \in Open : Wave[t] <= Wave[u]) /\ ~Active(t) }

Ready ==
    { t \in Open :
        /\ \A u \in Open : Wave[t] <= Wave[u]
        /\ ~Active(t)
        /\ Deps[t] \subseteq Completed }

(* _cmd_v2: an invocation starts and loads the run.  A run that is over is *)
(* answered from the snapshot; else the checkpoint is built from it, and   *)
(* _resume will raise if a committed task used more attempts than allowed  *)
(* (TaskLifecycle refuses it).                                             *)
Start(p) ==
    /\ pc[p] = "idle"
    /\ starts < MaxStarts
    /\ starts' = starts + 1
    /\ IF status \in {"completed", "failed", "cancelled", "blocked"}
       THEN UNCHANGED <<pc, local>>
       ELSE Then(p, "recover",
                [Fresh EXCEPT !.broken = \E t \in Tasks : Reported(t) /\ attempts[t] > MaxAttempts])
    /\ UnchangedStore /\ UNCHANGED crashes

(* LeaseScheduler.recover_stale: sample the time, list the stale leases... *)
Recover(p) ==
    /\ pc[p] = "recover"
    /\ Then(p, "recoverEach", [local[p] EXCEPT !.sampled = now, !.todo = Expired])
    /\ UnchangedStore /\ UnchangedCounts

(* ... and for each, read the generation, unless the lease is gone ...     *)
RecoverEach(p) ==
    /\ pc[p] = "recoverEach"
    /\ \/ local[p].todo = {} /\ Goto(p, "loadRunning") /\ UNCHANGED local
       \/ \E t \in local[p].todo :
              IF Leased(t)
              THEN Then(p, "drop", [local[p] EXCEPT !.seen = generation, !.token.task = t])
              ELSE Then(p, "recoverEach", [local[p] EXCEPT !.todo = @ \ {t}])
    /\ UnchangedStore /\ UnchangedCounts

(* ... and drop it if nothing was written since; else the command ends.    *)
Drop(p) ==
    LET t == local[p].token.task IN
    /\ pc[p] = "drop"
    /\ \/ /\ generation = local[p].seen
          /\ DropStale(t, local[p].sampled, local[p].seen)
          /\ Then(p, "recoverEach",
                 [local[p] EXCEPT !.todo = @ \ {t}, !.seen = 0, !.token = NoToken])
       \/ /\ generation # local[p].seen
          /\ Exit(p) /\ UnchangedStore
    /\ UnchangedCounts

(* Every load before a compare-and-set: only its generation is used.       *)
LoadGeneration(p, section, next) ==
    /\ pc[p] = section
    /\ Then(p, next, [local[p] EXCEPT !.seen = generation])
    /\ UnchangedStore /\ UnchangedCounts

(* A transition of the run with expected_generation: RunStoreError ends    *)
(* the command, whatever the transition was for.                           *)
CasTransition(p, section, s, next) ==
    LET ok == generation = local[p].seen /\ (status \in TerminalRunStatuses => status = s) IN
    /\ pc[p] = section
    /\ \/ ok /\ Transition(s) /\ next
       \/ ~ok /\ UnchangedStore /\ Exit(p)
    /\ UnchangedCounts

ToRunning(p) ==
    CasTransition(p, "toRunning", "running",
        Then(p, "reconcile", [Fresh EXCEPT !.broken = local[p].broken]))

(* FleetOrchestrator.__init__: reconcile() judges the snapshot loaded just *)
(* now, and blocks the run when a lease is not of this very generation;    *)
(* then _resume may raise, which comes first in the end.                   *)
Reconcile(p) ==
    /\ pc[p] = "reconcile"
    /\ \/ local[p].broken /\ Then(p, "failLoad", Fresh)
       \/ /\ ~local[p].broken
          /\ IF \A t \in Tasks : Leased(t) => leases[t].generation = generation
             THEN Goto(p, "hydrate") /\ UNCHANGED local
             ELSE Then(p, "finalLoad", [Fresh EXCEPT !.final = "blocked"])
    /\ UnchangedStore /\ UnchangedCounts

(* _run_v2_integration: the reports there are become terminal_ids, and     *)
(* their terminal events are repaired one by one.                          *)
Hydrate(p) ==
    LET done == { t \in Tasks : Reported(t) } IN
    /\ pc[p] = "hydrate"
    /\ Then(p, "publish", [local[p] EXCEPT !.terminal = done, !.todo = done,
           !.view = [t \in Tasks |-> IF t \in done THEN reports[t].status ELSE "pending"]])
    /\ UnchangedStore /\ UnchangedCounts

PublishIfAbsent(t) ==
    \/ AppendTerminalEvent(t)
    \/ TerminalEvents(t) # {} /\ UnchangedStore

Publish(p) ==
    /\ pc[p] = "publish"
    /\ \/ local[p].todo = {} /\ Goto(p, "ready") /\ UNCHANGED local /\ UnchangedStore
       \/ \E t \in local[p].todo :
              /\ PublishIfAbsent(t)
              /\ Then(p, "publish", [local[p] EXCEPT !.todo = @ \ {t}])
    /\ UnchangedCounts

-----------------------------------------------------------------------------

(* Mutant: what is still pending is not looked at.                         *)
VerdictIgnoresPending(view) ==
    IF \E t \in Tasks : view[t] = "blocked" THEN "blocked"
    ELSE IF \E t \in Tasks : view[t] = "failed" THEN "failed" ELSE "completed"

(* The end of a round of the loop forgets the lease; the end of the loop   *)
(* gives a verdict: what is still pending is reported blocked, and the run *)
(* gets the worst status.                                                  *)
Verdict(view) ==
    IF \E t \in Tasks : view[t] \in {"blocked", "pending"} THEN "blocked"
    ELSE IF \E t \in Tasks : view[t] = "failed" THEN "failed" ELSE "completed"

NextRound(p) ==
    Then(p, "ready", [local[p] EXCEPT !.token = NoToken, !.attempt = 0, !.outcome = "none"])

Finish(p) == Then(p, "finalLoad", [Fresh EXCEPT !.final = Verdict(local[p].view)])

(* The head of the loop: scheduler.ready_ids().                            *)
ReadyIds(p) ==
    /\ pc[p] = "ready"
    /\ IF Ready \ local[p].terminal = {}
       THEN Finish(p)
       ELSE Goto(p, "candidates") /\ UNCHANGED local
    /\ UnchangedStore /\ UnchangedCounts

(* scheduler.claim(): ready_ids() once more ...                            *)
Candidates(p) ==
    /\ pc[p] = "candidates"
    /\ Then(p, "claim", [local[p] EXCEPT !.candidates = Ready])
    /\ UnchangedStore /\ UnchangedCounts

(* Mutant: the candidates are claimed one by one, with FleetRunStore.claim. *)
ClaimSingly(p) ==
    /\ pc[p] = "claim"
    /\ \/ \E t \in local[p].candidates :
              /\ Claim(t, LeaseSeconds)
              /\ Then(p, "enrich", [local[p] EXCEPT !.candidates = {}, !.token = NewToken(t, LeaseSeconds)])
       \/ Finish(p) /\ UnchangedStore
    /\ UnchangedCounts

(* ... then claim_many with the selector: a candidate that became terminal *)
(* raises through the orchestrator; no capacity is an empty answer unless  *)
(* there was no candidate; else one task still ready is leased, or none.   *)
ClaimStep(p) ==
    LET ids == local[p].candidates
        full == Cardinality(Kept) >= MaxParallel
        choice == (ids \ Kept) \cap Ready
        raises == (\E t \in ids : Terminal(t)) \/ (full /\ ids = {})
    IN
    /\ pc[p] = "claim"
    /\ \/ raises /\ Then(p, "failLoad", Fresh) /\ UnchangedStore
       \/ ~raises /\ full /\ Finish(p) /\ UnchangedStore
       \/ /\ ~raises /\ ~full
          /\ \/ \E t \in choice :
                    /\ ClaimMany(ids, {t}, LeaseSeconds)
                    /\ Then(p, "enrich", [local[p] EXCEPT !.candidates = {}, !.token = NewToken(t, LeaseSeconds)])
             \/ /\ choice = {} /\ Finish(p)
                /\ \/ ClaimMany(ids, {}, LeaseSeconds)
                   \/ Expired = {} /\ UnchangedStore
    /\ UnchangedCounts

(* _adapter_lease: the worker's copy of the lease gets the stored attempt. *)
Enrich(p) ==
    /\ pc[p] = "enrich"
    /\ Then(p, "use", [local[p] EXCEPT !.attempt = attempts[local[p].token.task]])
    /\ UnchangedStore /\ UnchangedCounts

(* FleetRunStore.use: the last fence before the adapter is called.         *)
Use(p) ==
    /\ pc[p] = "use"
    /\ IF CheckToken(local[p].token) THEN Goto(p, "working") ELSE Goto(p, "failure")
    /\ UNCHANGED local /\ UnchangedStore /\ UnchangedCounts

(* The adapter returns a report, or raises.                                *)
Work(p) ==
    /\ pc[p] = "working"
    /\ \/ \E s \in ReportStatuses : Then(p, "result", [local[p] EXCEPT !.outcome = s])
       \/ Goto(p, "failure") /\ UNCHANGED local
    /\ UnchangedStore /\ UnchangedCounts

(* The report must be of the attempt the store counts now.                 *)
Result(p) ==
    /\ pc[p] = "result"
    /\ IF /\ local[p].attempt = attempts[local[p].token.task]
          /\ local[p].outcome # "failed"
       THEN Goto(p, "commit") ELSE Goto(p, "failure")
    /\ UNCHANGED local /\ UnchangedStore /\ UnchangedCounts

Committable(k) == ~Reported(k.task) /\ CheckToken(k)

(* Mutant: the report is stored whatever lease is in force.                *)
CommitUnfenced(p) ==
    LET k == local[p].token IN
    /\ pc[p] = "commit"
    /\ reports' = [reports EXCEPT ![k.task] = [status |-> local[p].outcome,
           attempt |-> attempts[k.task], generation |-> k.generation]]
    /\ taskStatus' = [taskStatus EXCEPT ![k.task] = local[p].outcome]
    /\ Bump
    /\ Then(p, "event", [local[p] EXCEPT !.view[k.task] = local[p].outcome])
    /\ UNCHANGED <<status, leases, attempts, events, now, issued>> /\ UnchangedCounts

(* store.commit of a completed or blocked report; an exception, raised     *)
(* before or after the new snapshot was installed, turns into a failure.   *)
CommitStep(p) ==
    LET k == local[p].token
        s == local[p].outcome
        l == local[p]
    IN
    /\ pc[p] = "commit"
    /\ \/ /\ Committable(k) /\ Commit(k, s)
          /\ Then(p, "event", [l EXCEPT !.view[k.task] = s,
                 !.terminal = IF s = "blocked" THEN @ \cup {k.task} ELSE @])
       \/ /\ CommitFaults /\ Committable(k) /\ Commit(k, s)
          /\ Goto(p, "failure") /\ UNCHANGED local
       \/ /\ CommitFaults \/ ~Committable(k)
          /\ Goto(p, "failure") /\ UNCHANGED local /\ UnchangedStore
    /\ UnchangedCounts

(* The terminal event, after the commit and apart from it.                 *)
EventStep(p) ==
    /\ pc[p] = "event"
    /\ PublishIfAbsent(local[p].token.task)
    /\ NextRound(p) /\ UnchangedCounts

FailedEventStep(p) ==
    /\ pc[p] = "failedEvent"
    /\ PublishIfAbsent(local[p].token.task)
    /\ Goto(p, "release") /\ UNCHANGED local /\ UnchangedCounts

(* The failure branch: a retry, when the stored attempt leaves one and the *)
(* error is among retryable_errors, which the model leaves open.           *)
Failure(p) ==
    LET t == local[p].token.task IN
    /\ pc[p] = "failure"
    /\ \/ /\ attempts[t] < MaxAttempts
          /\ Then(p, "retry", [local[p] EXCEPT !.view[t] = "pending"])
       \/ Then(p, "commitFailed", [local[p] EXCEPT !.view[t] = "failed"])
    /\ UnchangedStore /\ UnchangedCounts

Retry(p) ==
    /\ pc[p] = "retry"
    /\ AppendEvent("retry")
    /\ Goto(p, "release") /\ UNCHANGED local /\ UnchangedCounts

(* The commit of a failure may itself fail: terminal_ids then keeps this   *)
(* invocation from claiming the task for ever.                             *)
CommitFailed(p) ==
    LET k == local[p].token IN
    /\ pc[p] = "commitFailed"
    /\ Remember(p, [local[p] EXCEPT !.terminal = @ \cup {k.task}])
    /\ \/ Committable(k) /\ Commit(k, "failed") /\ Goto(p, "failedEvent")
       \/ CommitFaults /\ Committable(k) /\ Commit(k, "failed") /\ Goto(p, "release")
       \/ (CommitFaults \/ ~Committable(k)) /\ UnchangedStore /\ Goto(p, "release")
    /\ UnchangedCounts

(* scheduler.release, its exceptions swallowed.                            *)
ReleaseStep(p) ==
    LET k == local[p].token IN
    /\ pc[p] = "release"
    /\ \/ Release(k)
       \/ ~CheckToken(k) /\ UnchangedStore
    /\ NextRound(p) /\ UnchangedCounts

-----------------------------------------------------------------------------
(* Mutant: the transition is tried again with the generation of now.       *)
ToFinalRetries(p) ==
    LET ok == generation = local[p].seen
              /\ (status \in TerminalRunStatuses => status = local[p].final)
    IN
    /\ pc[p] = "toFinal"
    /\ \/ ok /\ Transition(local[p].final) /\ Exit(p)
       \/ ~ok /\ UnchangedStore /\ Goto(p, "finalLoad") /\ UNCHANGED local
    /\ UnchangedCounts

ToFinal(p) == CasTransition(p, "toFinal", local[p].final, Exit(p))

(* An exception left the orchestrator: run_failed, then the status failed. *)
FailEvent(p) ==
    /\ pc[p] = "failEvent"
    /\ \/ /\ generation = local[p].seen /\ AppendEvent("run_failed")
          /\ Then(p, "failReload", Fresh)
       \/ generation # local[p].seen /\ UnchangedStore /\ Exit(p)
    /\ UnchangedCounts

ToFailed(p) == CasTransition(p, "toFailed", "failed", Exit(p))

(* The process is killed between two critical sections.                    *)
Crash(p) ==
    /\ pc[p] # "idle"
    /\ crashes < MaxCrashes
    /\ crashes' = crashes + 1
    /\ Exit(p)
    /\ UnchangedStore /\ UNCHANGED starts

Tick ==
    /\ now < MaxTime
    /\ now' = now + 1
    /\ UNCHANGED <<store, issued, pc, local, starts, crashes>>

FleetInit ==
    /\ Init
    /\ pc = [p \in Procs |-> "idle"]
    /\ local = [p \in Procs |-> Fresh]
    /\ starts = 0 /\ crashes = 0

Step(p) ==
    \/ Recover(p) \/ RecoverEach(p) \/ Drop(p)
    \/ LoadGeneration(p, "loadRunning", "toRunning") \/ ToRunning(p)
    \/ Reconcile(p) \/ Hydrate(p) \/ Publish(p)
    \/ ReadyIds(p) \/ Candidates(p) \/ ClaimStep(p)
    \/ Enrich(p) \/ Use(p) \/ Work(p) \/ Result(p) \/ CommitStep(p)
    \/ EventStep(p)
    \/ Failure(p) \/ Retry(p) \/ CommitFailed(p)
    \/ FailedEventStep(p) \/ ReleaseStep(p)
    \/ LoadGeneration(p, "finalLoad", "toFinal") \/ ToFinal(p)
    \/ LoadGeneration(p, "failLoad", "failEvent") \/ FailEvent(p)
    \/ LoadGeneration(p, "failReload", "toFailed") \/ ToFailed(p)

FleetNext == Tick \/ \E p \in Procs : Start(p) \/ Step(p) \/ Crash(p)

(* An invocation that is not killed goes on: its calls return, and the     *)
(* adapter's do.  Nothing makes anybody start one, nor the clock advance.  *)
FleetSpec ==
    /\ FleetInit /\ [][FleetNext]_fleetVars
    /\ \A p \in Procs : WF_fleetVars(Step(p))

-----------------------------------------------------------------------------
(* What an invocation remembers has the shape the code gives it.           *)
FleetTypeOK ==
    /\ TypeOK
    /\ pc \in [Procs -> Sections \cup {"idle"}]
    /\ \A p \in Procs :
           /\ local[p].terminal \subseteq Tasks /\ local[p].candidates \subseteq Tasks
           /\ local[p].todo \subseteq Tasks
           /\ local[p].view \in [Tasks -> ReportStatuses \cup {"pending"}]
           /\ local[p].token \in Token
           /\ local[p].final \in {"none", "completed", "failed", "blocked"}

(* A run is only ever called completed when every task of the plan has a   *)
(* completed report in the store, however many invocations, each with its  *)
(* own stale view, took part.                                              *)
CompletedMeansAll ==
    status = "completed" => \A t \in Tasks : reports[t].status = "completed"

(* No more leases than --max-parallel, expired ones included, although     *)
(* capacity is computed by each scheduler from what it sees.               *)
LeasesBounded == Cardinality({ t \in Tasks : Leased(t) }) <= MaxParallel

(* No task was ever attempted before its dependencies completed and the    *)
(* waves before its own were over.                                         *)
BarriersHold ==
    \A t \in Tasks : attempts[t] > 0 =>
        /\ Deps[t] \subseteq { u \in Tasks : reports[u].status = "completed" }
        /\ \A u \in Tasks : Wave[u] < Wave[t] => Reported(u)

(* Two workers run the same task at the same time only when the lease of   *)
(* one of them has expired under it.                                       *)
OverlapOnlyAfterExpiry ==
    \A p, q \in Procs :
        /\ p # q
        /\ pc[p] = "working" /\ pc[q] = "working"
        /\ local[p].token.task = local[q].token.task
        => local[p].token.expires <= now \/ local[q].token.expires <= now

(* All an invocation does to the store is what RunStore allows, so the     *)
(* theorems about RunStore hold of the fleet.                              *)
StoreRespected == Init /\ [][Next]_vars

(* Every invocation that is not killed comes to an end: neither a lease    *)
(* held by a dead worker nor a commit that keeps failing makes it spin.    *)
InvocationsEnd == \A p \in Procs : pc[p] # "idle" ~> pc[p] = "idle"

(* A run that ends blocked has a task that did not complete.               *)
BlockedByTasks ==
    status = "blocked" => \E t \in Tasks : Reported(t) /\ reports[t].status # "completed"

(* A run that ends failed has a task that failed.                          *)
FailedByTasks ==
    status = "failed" => \E t \in Tasks : reports[t].status = "failed"
=============================================================================
