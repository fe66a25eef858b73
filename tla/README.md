# TLA+ models of the project-development skill (`pd`)

`pd` drives the work on a feature through phases and lets a *fleet* of agents
execute a plan of tasks. Its own logic is Python: the command line
`src/scripts/pd.py` and the package `src/scripts/pd_fleet/`. The rest of the
repository is skills, documents, patches and tests. This directory models the
parts that keep state, survive crashes or run concurrently.

## 1. Inventory

| Component | State | Operations | Interacts with | What is hard | What makes it correct |
|---|---|---|---|---|---|
| Run store, files (`run_store.py` `_write`, `_valid_snapshot`, `load`) | `snapshot.json`, its `.bak`, temporary files, a lock | write, read, lock-free inspection | every V2 component | death or power loss between two renames, a payload that will not validate, a reader without the lock | what was acknowledged is never lost; the two files act as one register |
| Run store, operations (`run_store.py`) | generation, run status, task statuses, leases, attempts, reports, events | `create`, `transition`, `update_task_status`, `append_event`, `append_terminal_event_if_absent`, `claim`, `claim_many`, `use`, `renew`, `commit` | scheduler, orchestrator, `pd v2` | stale tokens, expiry, a clock that jumps, compare-and-set on the generation | fencing, final reports, one terminal event per task |
| Lease scheduler (`scheduler.py`) | none of its own | `ready_ids`, `claim`, `renew`, `release`, `recover_stale` | run store | reads outside the lock, capacity shared by several schedulers | barriers between waves, bounded leases |
| V2 orchestration (`orchestrator.py` `_run_v2_integration`, `reconcile`; `pd.py` `_cmd_v2`) | local view of statuses, `terminal_ids` | `pd v2 run-local`: recover, reconcile, claim, work, commit, event, final status | scheduler, store, executor, adapter | several invocations at once, each killed anywhere; commit and event are separate writes | no run is completed with a task missing; invocations end |
| V1 orchestration, `TaskLifecycle`, gates (`orchestrator.py`, `lifecycle.py`, `gates.py`, `validation.py`, `pd.py` `_cmd_fleet_run`) | lifecycles, batch, dry-run marks, checkpoint | read manifest, resume, pick a batch, dispatch, retry, block, save | the operator, the gate file, the feature's state | a manifest edited between invocations, a gate that expires, retries | nothing is dispatched behind a barrier; a completed task is not replayed; the verdict is true |
| Checkpoint store (`checkpoint.py` `CheckpointV2Store`) | `checkpoint.json`, `.bak`, a lock | `save`, `load`, `recover`, `resume` | callers in several processes | the target is moved aside first; `recover` loads outside the lock; readers take none | an acknowledged checkpoint survives; a load is fresh; a recovery undoes nothing |
| Event log (`events.py`, `lifecycle_events.py`, `event_diagnostics.py`, `run_event_reconciliation.py`) | JSONL file | append, replay, diagnose, reconcile | run store, supervision | torn last line, limits, two owners | what is called healthy is complete |
| Supervision, handoff (`supervision.py`, `supervisor.py`, `readiness.py`, `handoff.py`) | handoff files | readiness view, save and load a handoff | event log, run store | reads at four moments, two lanes | "ready" is justified; everybody gets the same handoff |
| Gateway bridge (`fleet_gateway_bridge.py`, `fake_gateway.py`, `gateway_bridge_contracts.py`) | SQLite journal: association, events, outbox, cursor | activate, heartbeat, snapshot, replay, ack, detach | the gateway, other bridges | restarts, retention, lost and late answers, limits | one stream; no silent gap; a detach can be recorded |
| Activation and subscription (`gateway_auth.py`, `gateway_subscription.py`) | tickets, associations; cursors, outboxes, tombstones | mint, consume, revoke, heartbeat, evaluate; subscribe, append, prune, read, ack, detach | callers with clocks of their own | a clock read before the lock; acknowledgements in any order | a ticket opens once; the first final answer stands; a cursor is earned |
| D1 registration (`fleet_d1_registration_bridge.py`) | the injected association | register, the four handlers | the host's threads | no lock | released only after it was detached |
| Providers (`provider*.py`, `orchestrator_provider.py`, `runtime_adapter*.py`, `sandbox.py`, `validation_executor.py`) | one process, its pipes, a deadline | route, check, spawn, read, kill, judge | the operating system | children that hold pipes or leave the group, processes that never end | success is complete; calls return |
| Agent runtime (`fake_adapter.py`) | a record, stored answers, keys in flight | `prepare`, `execute`, `cancel`, `handoff`, `cleanup` | concurrent callers | the gate is outside the lock; a failed cleanup is retried | one dispatch; one answer per key |
| Bounded executor (`parallel.py`) | pool, futures, results, poisoned, closed | `run`, `close` | orchestrator, runners | runners that outlive their timeout, cancellation racing a start | the pool is never over-subscribed; `run` returns |
| Feature state (`pd.py` `PDState`) | `STATE.json`, `STATE.md`, their backups | load, repair, migrate, save; `init`, `advance`, `checkpoint`, `complete-task`, `fleet-run` | the user's commands | two files replaced in turn, in-place copies that may tear | a save is a transaction |
| Feature directories (`pd.py` `_cmd_init`, `_find_feature_dir`, `_cmd_delete`, `PDState.delete`) | directories, their times, the archive | make, find, delete, archive | the user's commands | kills between two steps, the same name again | a feature is in its place, in the archive or deleted |
| Activity bus (`activity_emit.py`, `plan_cockpit_sync.py` `_hermes_agents_from_events`) | `events.jsonl`, `state.json` | emit, aggregate | the gateway's database, the cockpit | overlapping emitters, kills, lines out of time order | nothing is suppressed that nobody wrote; done means done |
| Contracts, pilots, studio/board sync, installer | none or output only | parsing, rendering, demos | - | - | unit tests |

Interactions that matter: several `pd v2 run-local` processes share nothing but
the run's directory. Each call of the store takes the lock, reads the newest valid
snapshot, writes a successor and releases the lock; between two calls anything may
have changed. `pd fleet-run` keeps its checkpoint in the feature's state. The
supervision commands read what the others write and take no lock.

The hazards, at the lines where they bite and with the properties that watch them,
are listed in `PROJECT.json` under `hazards`.

## 2. Modules

```
AtomicSnapshot           one register: what load() and _write promise
   ^ refines
SnapshotFiles            the two files, renames, fsync, power loss, inspection
   SnapshotFiles_proofs
RunStore                 the operations, each atomic
   ^ EXTENDS, and implements its next-state relation
FleetRun                 invocations of pd v2 run-local, store call by store call
   FleetRun_proofs       about RunStore, then about FleetRun

TaskLifecycle            states of a task, its moves, attempts and retries
   ^ EXTENDS
FleetV1                  pd fleet-run: manifest, gates, waves, resume
   FleetV1_proofs
CheckpointStore          CheckpointV2Store, used by several processes

EventLog                 the append-only log
   ^ EXTENDS
Supervision              diagnosis, reconciliation, readiness view, handoffs
   Records_proofs        about CheckpointStore and Supervision

GatewayBridge  GatewayAuth  GatewaySubscription  D1Registration
   ^ EXTENDS
Gateway                  the four local parts of the gateway
   Gateway_proofs

BoundedExecutor  ProviderRun  AgentRuntime
   ^ EXTENDS
Runtimes                 the three ways work is carried out
   Runtimes_proofs

FeatureState  FeatureDirs  ActivityBus
   ^ EXTENDS
Workspace                what the cockpit of a workspace is made from
   Workspace_proofs

Induction_proofs         induction and recursion, for the proofs about data

MC<module>               instances for TLC
```

The layers of the run store carry one another. `SnapshotFiles` shows that the files
are an atomic register, which is why an operation of `RunStore` is one action.
`RunStore` allows any caller to do anything with any token it ever got; `FleetRun`
is the callers there are, and `StoreRespected` says that all they do are steps of
`RunStore`. `Gateway`, `Runtimes` and `Workspace` put parts side by side that keep
separate stores: no variable is shared, so a property of one part needs only the
behaviours in which the others rest, and their next-state relations move one part
while the others are in their initial states.

### SnapshotFiles, AtomicSnapshot
A file is its verdict under `_validate`, its generation and the write it came from.
`Create`/`Mutate` are `create` and `_mutate` up to the fsynced temporary file;
`CopyToBackup`, `ReplacePrimary`, `SyncDirectory` are the three durable steps of
`_write`; `Abort` is an `OSError` or the death of the process at any of them.
`disk` holds the pairs of contents since the last fsync of the directory, and
`PowerLoss` goes back to one of them: to a pair if the file system keeps renames in
order (`OrderedRenames`), to any mixture if it does not. `InspectPrimary` and
`InspectBackup` are the two unlocked reads of `pd v2 inspect`.
`_write` does not validate what it writes, so a payload may be malformed.

### RunStore
One action per operation, with the guard its exceptions leave; an operation that
raises is an action that is not enabled. A token is the task, the generation that
installed the lease and the expiry: `lease_id` changes with the generation.
`issued` is a history variable, every token ever handed out; a caller may come back
with any of them. `SetClock` moves the wall clock either way. `create` is `Init`.
Redaction, checksums and path containment are left to `SnapshotFiles`'
valid/malformed. `Release` and `DropStale` are the scheduler's two mutations.

### FleetRun
`pc[p]` names the next critical section of invocation `p` and `local[p]` what it
remembers. `Start` is `_cmd_v2` up to the checkpoint, then `recover_stale`
(`Recover`, `RecoverEach`, `Drop`), the transition to running, `Reconcile`,
`Hydrate`/`Publish` (reports already there and their events), and the loop: `ReadyIds`,
`Candidates`, `ClaimStep`, `Enrich`, `Use`, `Work`, `Result`, then `CommitStep` and
`EventStep` or the failure branch (`Failure`, `Retry` or `CommitFailed` and
`FailedEventStep`, `ReleaseStep`), and at the end the verdict and `ToFinal`. An
exception that leaves the orchestrator takes `FailEvent` and `ToFailed`.
`Crash(p)` kills an invocation between two sections.

Abstractions: `pd.py` leaves the orchestrator's `max_parallel` at 1, so one lease per
invocation; the plan declares no status but the default, pending, on which the scheduler
falls back (`scheduler.py:111`); ids are taken in any order where the code sorts; the
path-overlap check of the selector is left out, since plans that could fail it are
refused by `validate_plan` before (`orchestrator.py:288`, `validation.py:135`); whether
an error is among `retryable_errors` is open; only commits are subject to write errors
(`CommitFaults`), in both forms, with and without the new snapshot installed; locals an
invocation will not read again are reset, so that states do not differ in them.

### TaskLifecycle, FleetV1
`TaskLifecycle` is the table `_TRANSITIONS` and the methods of the class as functions
on `[status, attempt, retryable]`. `FleetV1` is one `pd fleet-run` after the other. A
manifest is its waves, dependencies, attempts, statuses, the tasks an agent fits, the
tasks stopped by inputs or conditions, and the gated waves; `EditPlan` replaces it
between invocations. `Decide` writes an entry into the gate file: a human decision, bound
to a run id and a plan hash (`GateScope`) and fresh for a while (`Window`), or the
result of an automatic gate (evidence, smoke test), which `GatePolicy` judges by its own
contents and which is bound to neither. `DispatchIsCleared` says what each kind
guarantees. `Begin` builds the
lifecycles, resumed or new; `Refuse` is the constructor that raises. `PickBatch` is the
only place where gates open a wave; `BlockTask`, `StartTask`, `TaskCompleted`,
`TaskRetried`, `TaskFailed` are `_execute`; `WaveDrained` and `EndWave` block what
stalls; `Save` puts the last checkpoint the hook was given into the feature's
state; `Crash` before that leaves nothing. The dispatcher is any that may be injected.

### CheckpointStore
An envelope is its generation, plan and body; a body is one task's lifecycle and
whether `load` will accept its field names. `save` seals its envelope outside the
lock, enters when its generation is newer than all candidates, moves the target aside
(`MoveAside`), installs (`Install`) and returns. `load` opens the two files one after
the other without the lock. `recover` is a load, a change and a save. Any process may
fail or be killed at each stage. `clean` (history) says that no envelope was installed
that `load` refuses: `save` does not look, so such a body makes a checkpoint
unreadable, and the properties speak of the others.

### EventLog, Supervision
An event is its sequence, owner epoch, task and move. A sequence is any number from 0
on, as `events.py:68` has it: a whole part, a place among the fractions after it, and
whether it is a float, since 2.0 equals 2 for `append` and the reconciliation and is no
integer for the diagnosis (`NonInteger`). `Acceptable` is what `append`
checks under the lock; `AppendCut` is a write cut short, after which nothing can be
read or appended. The readiness command reads log, store, log and directory in turn
(`Diagnose`, `LoadStore`, `ReplayLog`, `Compose`, `Show`) while recorders append. The
`HandoffStore` is `SaveHandoff`, `InstallHandoff`, `AbortHandoff`, `SaveAgain`,
`LoadHandoff`, with a lock among the lanes.

### GatewayBridge, GatewayAuth, GatewaySubscription, D1Registration, Gateway
The gateway answers in one locked step and the bridge stores the answer in one later
transaction; in between it is in `reply`, where it may be overtaken or lost. `jr` is the
journal. `lost` and `skipped` are histories that the properties' preconditions need: an
answer that never got there, and a replay window the caller placed beyond the journal.
`StoreTerminal` merges the checks of `ingest_events` with its write transaction: the
store's lock covers both, but another process could write to the same file in between,
and then the transaction checks again. In `GatewayAuth` and `GatewaySubscription` an
operation is one step under the store's lock, with a time its caller read up to
`Lag`/`Delay` before. In `D1Registration` a handler is in several steps, because nothing
is locked.

### BoundedExecutor, ProviderRun, AgentRuntime, Runtimes
`BoundedExecutor`: the caller's `run()` (`LoopHead`, `Wait`, `Collect`, `AbandonOne`,
`AbandonEnd`, `Return`), the threads of `ThreadPoolExecutor` (external), the deadline
and the cancellation event. Runs follow one another on the same pool, so a thread
that an earlier run gave up on is still there. `ProviderRun`: a setup is the immutable
configuration of one call; the routing, policy and adapter checks decide whether
a process starts; then the runner's selector loop, deadline, kill of the group, wait
and verdict against a process that is free to fork, close, leave or stay (external).
`AgentRuntime`: one record and its idempotent operations; `execute` is in three steps
around its gate. A request has its content, standing for the fingerprint derived from
it, and the fingerprint it claims; both must agree (`Genuine`) while its key has no
answer, and afterwards only the claim is compared with the stored one (`AnswerAgain`).

### FeatureState, FeatureDirs, ActivityBus, Workspace
`LoadState` is the order of sources of `_load_state`. A state is its phase, its
completed tasks, a number of checkpoints and `fleet_state`; `STATE.md` gives all of
them back but the checkpoints (`ParseStateMd`). `Save` starts the
transaction, `CopyJson`, `CopyMd`, `ReplaceJson`, `ReplaceMd`, `RestoreJson` are the
steps of `_write_transaction`, each with its failure. `os.replace` is atomic;
`shutil.copy2` may leave a torn file. `acked` is the last state whose save returned
and `tried` the candidates since (history). `Repair` may fail, with the `OSError`
ignored as in `pd.py:305`; `unrepaired` (history) remembers it until a command
finds a `STATE.json` that loads. One command at a time; power stays on;
hooks are not modelled. `FeatureDirs` numbers directories as they are made and keeps
their order by time; `init` and the removal of a tree may be killed in the middle.
`ActivityBus` has the emitter's read of the database, its append, and the two halves of
rewriting `state.json`, and the fold of the lines into a row per agent.

## 3. Runs

| Run | Instance | Shows |
|---|---|---|
| `snapshot_any` | 4 writes, some malformed, renames undone in order | `SafeSurvives`, `InspectionFresh`, `ImplementsAtomicSnapshot` |
| `run_store` | 2 tasks, 2 slots, 5 mutations, 3 times | `FencedByNewest`, `ReportIsFinal`, `TerminalEventOnce` |
| `fleet_plan` | 3 tasks in 2 waves, a dependency, 1 slot, 2 invocations, 1 crash | `BarriersHold`, `CompletedMeansAll`, `LeasesBounded`, `OverlapOnlyAfterExpiry` |
| `fleet_ends` | 1 task, 2 attempts, 2 invocations, 1 crash, commit errors | `InvocationsEnd` (liveness), `StoreRespected` |
| `fleet_blocked` (violation) | 1 task, 1 crash, 2 invocations in turn | `BlockedByTasks` fails |
| `fleet_v1` | 3 manifests of 3 tasks in 2 waves, a gate with human or automatic entries, 2 invocations | `DispatchIsCleared`, `CompletedNotReplayed`, `OrderedVerdictHolds`, `InvocationEnds` (liveness) |
| `checkpoint` | 2 processes, 2 plans, 3 bodies, generations 0 to 2 | `AckedCheckpointSurvives`, `LoadIsFresh`, `RecoverUndoesNothing` |
| `supervision` | 4 events numbered from 0, 1, 1.5, 2.0 and 3, limit 3, 2 epochs, 2 kinds of health, 2 lanes | `HealthyIsComplete`, `ReadyIsJustified`, `HandoffsAgree` |
| `gateway` | 2 bridges, 3 events of which the gateway keeps 2, 2 epochs; 2 tickets for 1 association; 1 subscriber; 2 threads | `OneStream`, `CursorCovered`, `DetachRecordable`, `OpensOnce`, `FinalAnswer`, `CursorIsEarned`, `ReleasedOnlyDetached` |
| `runtimes` | 3 tasks, 2 workers, 2 runs; 2 providers in all profiles; 2 callers, 2 keys, true and false claims | `SubmissionsBounded`, `SuccessIsComplete`, `DispatchedOnce`, `AnswersStand`, `RunReturns`, `CallReturns` (both liveness) |
| `workspace` | 1 task, 2 phases; 2 names, 4 directories; 2 sessions, 1 gateway, 2 emitters, 3 lines | `SavedStateSurvives`, `RestoredOnFailure`, `FeaturesAccountedFor`, `WatermarkCovered`, `DoneIsNewest` |
| `delete_named` (violation) | the same | `DeletesWhatItNames` fails |

Further configurations, for a reader who wants to run them by hand:

| Configuration | Module | Result |
|---|---|---|
| `SnapshotFiles_lost.cfg` | `MCSnapshotFiles` | `AckedSurvives` fails when a payload does not validate |
| `FleetRun_failed.cfg` | `MCFleetRun` | `FailedByTasks` fails |
| `Supervision_bytes.cfg` | `MCSupervision` | `AppendKeepsLogReadable` fails |
| `Gateway_table.cfg` | `MCGateway` | `AssociationFollowsTable` fails |
| `Workspace_recent.cfg` | `MCWorkspace` | `MostRecentWins` fails |
| `Workspace_torn.cfg` | `MCWorkspace` | `WatermarkLegible` fails |

**Bounds.** `MaxWrites`, `MaxGeneration`, `MaxTime`, `MaxStarts`, `MaxCrashes`,
`MaxCheckpoints`, `MaxRuns`, `MaxGen`, `MaxEvents`, `MaxSeq`, `MaxNow`, `MaxEpochs`,
`MaxClock`, `MaxIngested`, `MaxBeats`, `MaxMade`, `MaxWall`, `MaxLines` cut off
counters. A write of the snapshot can matter to the two later ones only (the backup
holds one predecessor), so 4 cover an interrupted write after an interrupted write after
an acknowledged one; the same holds of the generations of a checkpoint. Five mutations
are enough for a task to be claimed, lost, claimed again, committed and audited with one
call in between. In `FleetRun` the invocations reach no more than a handful of mutations
each: `MaxGeneration` is above what they can do, so it never stops them (in `fleet_ends`
it would show as a violation). Two invocations and one crash give a stale survivor and a
successor. With two runs of the executor the second meets what the first left behind.
Three manifests of `FleetV1` give a plain plan, one with fewer attempts and a task
nobody can take, and one with ids against its dependencies. The journal of the gateway
holds all three events of the first stream and nothing of a second one, and the gateway
forgets the first, so retention, a full journal and a new epoch all happen;
`ShortSecondStream` stops the second stream after its first event, which is refused
anyway. Four directories under two names are enough to archive a name twice and be
refused the third time. The five numbers of the log give a gap, a fraction, a float that
is an integer, and 1, 1.5, 3, which a view calls ready; with `Varied` one owner
leaves the checkpoints and the other the transitions, which mixes owners in a log without
trying every event under both, 0 and 2.0 are in different logs, and the store goes as far
as a replay does, beyond which the two can only differ. `OneKind` keeps heartbeats and sessions apart,
which are different agents with different watermarks. `OneAtATime` does the same for the
log and the handoffs. The theorems of section 5 have no such bounds.

**Deadlock.** `CHECK_DEADLOCK FALSE` wherever the last invocation, run, event or
directory is used up and nothing is left to do; `SnapshotFiles` checks it.

**Fairness.** `FleetRun` assumes weak fairness of each invocation's own steps: its
process is scheduled, the adapter returns (the simulated one of `pd v2 run-local`
does), the lock is handed over. Nothing is assumed of `Start`, `Tick` or `Crash`. A
crashed invocation is idle, so the property speaks of those not killed. The lock is
taken with a blocking `flock` for one short section, so no section waits for another
invocation's later one. `FleetV1` assumes the same of its one invocation, and
that a dispatch returns (it is called with a timeout). `Runtimes` assumes that the
caller's thread and the sandbox runner run and that time passes; no task need ever
return, no thread need ever start and no process need ever end.

**Symmetry** of invocations, tasks, processes, bridges, names, sessions and
emitters, only in runs without a liveness property.

## 4. Findings

* **`fleet_blocked`**: run again while the lease of a killed invocation is still in
  force, `reconcile` calls it `stale_lease`, and the run ends `blocked` for good.
* **`delete_named`**: `pd delete <name>` without `--feature` asks about and reports
  `<name>` but removes the feature that was modified last.

Met on the way and stated in the properties themselves:

* `SavedStateSurvives`: if the repair of a torn `STATE.json` fails, the next `save`
  copies the torn file over the valid backup; killed then, `STATE.md` is the only
  source and the checkpoints are gone. Nothing else is, which the property says.
* `ReadyIsJustified`: a readiness view may say ready of a log with 1, 1.5 and 3, when the
  last two were appended after the diagnosis: count and last number are those of the store.
* `AnswersStand`: under a key that has an answer, a request is given it for the
  fingerprint it claims, whatever its content.
* `DispatchIsCleared`: an automatic result opens a gate for any run and plan.

Met on the way and kept as configurations of section 3:

* `SnapshotFiles_lost`: `append_event` and `create` accept payloads `_validate`
  refuses (an `event_id` with a space), and `_write` installs them unvalidated. The call
  succeeds; the next `load` falls back to the backup and the mutation is gone.
  `SafeSurvives` shows that nothing older goes with it.
* `FleetRun_failed`: crashes use up attempts; a task that completes on an attempt
  beyond `max_attempts` makes `_resume` raise in every later invocation, and the run
  is marked `failed` although nothing failed.
* `Supervision_bytes`: `append` bounds the number of events and the length of a line
  (`events.py:365`), the reader also the bytes of the file; an append within its limits
  can make the log unreadable.
* `Gateway_table`: a second ticket for the same association opens it again from a
  state the table `_TRANSITIONS` (`gateway_auth.py:54`, "no invented edges") does not
  lead from.
* `Workspace_recent`: the comment at `plan_cockpit_sync.py:399` says "Most recent event
  wins; rank only breaks ties on the same timestamp", but an older event of a higher
  rank also replaces the status. `DoneIsNewest` is what remains true.
* `Workspace_torn`: the first line after an append that was cut short is glued to the
  partial one and lost, while its watermark is written.

## 5. Theorems

TLAPS proves, for all values of the constants that satisfy the named assumptions:

* `SnapshotFiles_proofs`, where `Dependable` holds (renames in order, or every
  payload valid): `TypeCorrect`, `SafeSnapshotsSurvive`, `BackupValidates`,
  `InspectionsAreFresh`, `RefinesAtomicSnapshot`, and
  `AcknowledgedSurvives` when every payload is valid. Without `Dependable` the
  statement is false: a mixture may pair a malformed primary with a missing backup.
  The invariant `IInv` is about every pair in `disk`, not
  only the current one, because a loss of power may make any of them current:
  each *keeps* the safe snapshot, in its primary or, behind a malformed primary, in
  its backup; and `WriterInv` says how far the writer is. The refinement maps
  `current` to what `load()` finds and `possible` to the contents a loss may
  bring back; each step is `Install`, `Acknowledge`, `Recover` or a stutter.
  `ReaderInv` carries an unlocked inspection across the writer's renames: a primary
  found unusable means that the backup, now or later, is not older than the floor.
* `FleetRun_proofs`, of `RunStore`: `TypeCorrect`, `Fencing`, `Finality`,
  `GenerationsIdentify`, `TerminalEventsUnique`, `AuditGrows`. `FencedByNewest` and
  `ReportIsFinal` are not inductive: a commit needs to know that the lease in force was
  handed out, counted as an attempt, and that no token is ahead of the generation.
  `LeaseInv` adds that (`TokensAccounted`). Operations fall into four kinds, one lemma
  each: those that touch no lease, that only drop leases, that grant, and that commit.
  `NotesAssumption`: `append_event` does not reserve the ids of tasks, but its callers
  in the repository use others.
* `FleetRun_proofs`, of `FleetRun`, for any finite plan, any number of invocations and
  crashes, with or without failing commits: `FleetRespectsStore`, so that fencing,
  finality and the audit carry over; `FleetVerdict`, `FleetBarriers`, `FleetCapacity`,
  `FleetOverlap`. `ControlInv` says what each section relies on (a token it holds was
  handed out by the store). One lemma per part of an invocation shows that each section
  is a `StoreStep`: it reads, or makes one of seven calls, with tasks it claims ready
  *in that section*. The theorems are then about `StoreStep` and not about the 28
  sections. Barriers need `TerminalReported` (in a fleet only a commit makes a task
  terminal); capacity counts the kept leases and the new ones; the verdict needs
  `VerdictInv`: the view of an invocation may lack something, but what it takes for
  completed is completed, and reports stay. The overlap needs `OwnerInv`: invocations
  hold different tokens, who works with a lease that has not expired is the one the
  store names, and what `recover_stale` sampled as the time is past. A clock that only
  advances, which `FleetRun` has and `RunStore` alone has not, is essential.
* `FleetV1_proofs`, for any manifests, edits, decisions and kills: `DispatchCleared`,
  `CompletedStays`, `OrderedVerdict`. `BatchInv` says of every task of the batch that
  nothing stands before it, since the batch is put together once and dispatched task by
  task; a gated task has an entry of the gate file that was approved and, if it is a
  human's, is of this run and this manifest; what is over stays as it is (`OverStays`),
  so no other task's end can change that. The verdict needs `VerdictInv`: once a task
  failed or is blocked that stays so; else the invocation makes `Progress`, every task
  that is not over can still be started, and a wave with nothing ready is over or waits
  for a gate (`DrainedWaits`: among the tasks of a wave that are not over, one depends
  on none of the others, since a plan is acyclic). `OrderedVerdictHolds` supposes that
  *all* manifests are ordered: a run of an unordered one may leave a task pending in a
  checkpoint, and an edited manifest may declare that task failed; the resumed run then
  says completed. Even one unordered manifest alone is enough: `FleetV1.cfg` with `Plans
  <- AllPlans` and the invariant `VerdictHolds` shows it. What `BlockUnresolvable` does
  in its pass over the tasks is `PassBlocks`, by induction.
* `Records_proofs`, of `CheckpointStore`: `CheckpointSurvives`, `LoadFresh`,
  `RecoveryUndoesNothing`. `CkInv` says who writes under the lock and beyond what
  generation, that the backup is the older file, and that a file somebody has read is
  the newest or older (`ReaderInv`); an unlocked reader that saw no target, or an old
  one, still finds in the backup, moved there meanwhile, what was acknowledged. Of
  `Supervision`: `HealthyLog`, `ReadyJustified`, `HandoffsStay`. `ReadyInv`: what the
  command remembers holds of the *prefix* of the log it read, which no append changes;
  the missing integers of `ReadyIsJustified` are a count over increasing numbers (by
  induction), one and as many again as there are fractions. `HandoffInv`: one lane at
  most is about to install, under a name that has no file.
* `Gateway_proofs`: `AssociationReleased`; `TicketsSettled` (`AuthInv`: what callers
  were told of a ticket agrees with its status), `TicketOpensOnce`, `TicketAnswerFinal`;
  `NoSilentGap` from `SubInv` (what was delivered beyond the cursor is acknowledged or in
  the outbox, which only a detach empties); and about the bridge
  `JournalFollowsOneStream`, `StoredCursorCovered`, `DetachCanBeRecorded` from
  `BridgeInv`: what each answer in flight says of a live session (`StreamInv`,
  `TerminalInv`), genuine events of one stream in the journal, and
  `ProgressInv`, which says that a journal that is behind will be told, unless an
  answer was lost. `PartsOfGateway` carries all of it to the composition.
* `Runtimes_proofs`: `PoolTypeCorrect`, `PoolIsBounded` from `PoolInv` (in the loop
  every busy item has a known future; between runs a pool that may be used again is
  empty; an item that lost its future was noticed, which poisons the pool);
  `SuccessWasComplete`; `AgentDispatchedOnce` and `AgentAnswersStand` from `AgentInv`
  (those at the gate hold different keys; what was returned under a key is what is
  stored under it, to requests that claim the stored fingerprint, the genuine one among
  them); `PartsOfRuntime`.
* `Workspace_proofs`: `TypeCorrect` of `FeatureState`; `RaisingChangesNothing` from
  `TransactionInv` (what each step of the transaction finds in the files);
  `SavesAreSafe` from `SourcesInv` (every source a load may turn to holds a known state,
  a save begins over a torn `STATE.json` only after a repair that failed, and `STATE.md`
  mirrors the state whose save returned last).
  `FeaturesAccounted` from `DirInv`. `WatermarksCovered` from `BusInv`: an emitter that
  still has to append has new watermarks only for what it is going to append.
  `DoneIsShownRightly`: the row after n lines has the time of the newest, and
  is done only if that one is (`RowOfFirst`, by induction over the lines), because done has
  the lowest rank and the statuses of one agent are either all ranked or all empty;
  `PartsOfWorkspace`.

**Data.** The library's induction theorems take operators, which the provers cannot
instantiate. `Induction_proofs` states the same for sets and functions: a set of
numbers has a least one, a set with 0 and successors is `Nat`, and a recursive
function exists. With these the folds of the model (`BlockUnresolvable`, `Row`, the
counting of numbers of the log) are proved for any length.

**Assumptions** are those in the modules: counters and limits are natural numbers, sets
the code enumerates are finite, an agent of the gateway is not called as the sessions'
one is, and a request is one of the five operations. TLC evaluates each in a run.

Only model-checked: the liveness properties `InvocationsEnd`, `InvocationEnds`,
`RunReturns` and `CallReturns`; liveness under fairness is outside what the prover
handles. Every invariant and refinement that a passing run checks is also proved. The
runs remain worth having: they show that the interesting states are reached, and
each property is known to fail for a plausible mistake.

## 6. Not modelled, and the plan

Left out for good: parsing and shape checks of records (`contracts.py`, the checks of
`models.py`), canonical encodings and redaction, rendering, demonstrations, one-way
synchronisation to boards and studio, the installer and patches. They keep no state that
others rely on. `hermes_existing_adapter.py` and the host side of the registration
belong to other programs. Two `pd` commands at once on one feature have no
protection in the code and are assumed not to happen. Several leases per invocation
(`max_parallel` of the orchestrator above 1) cannot be had from `pd.py`.

Next, in this order:

1. Action properties worth a theorem on top of the invariants at hand: a checkpoint's
   generation never goes down on disk while `clean`; the journal of the gateway never
   loses a row; a ticket's status never leaves a final one.
2. Abstract specifications for the checkpoint store and for the journal, in the manner
   of `AtomicSnapshot`, with the refinement proved step by step.
3. Shorter proofs where several actions are alike (`Gateway_proofs` is the longest).
