------------------------------ MODULE RunStore ------------------------------
(***************************************************************************)
(* FleetRunStore (run_store.py): the operations on the snapshot of one     *)
(* run.  Each operation holds the flock of _guard from the read of the     *)
(* snapshot to the return of _write, so each is one atomic action here;    *)
(* SnapshotFiles shows why the two files may be taken for one register.    *)
(*                                                                         *)
(* An operation that raises changes nothing: it is an action that is not   *)
(* enabled.  Callers may come in any order, with any lease token ever      *)
(* issued, and the wall clock may move either way between two calls.       *)
(* A lease token is a task, the generation that installed the lease and    *)
(* the expiry; the random lease_id always changes together with the        *)
(* generation, so it is left out.                                          *)
(***************************************************************************)
EXTENDS Integers, Sequences, FiniteSets

CONSTANTS
    Tasks,          \* ids of the tasks of the plan
    MaxParallel,    \* max_parallel of claim_many
    Durations,      \* lease_seconds callers ask for
    Notes,          \* ids of the events callers append (append_event)
    Observed,       \* statuses callers pass to update_task_status
    MaxGeneration,  \* bound on the number of mutations
    MaxTime         \* bound on the clock

ReportStatuses == {"completed", "failed", "blocked"}
TerminalTaskStatuses == {"completed", "failed", "blocked", "cancelled", "orphaned", "skipped"}
RunStatuses == {"created", "running", "completed", "failed", "cancelled", "blocked"}
TerminalRunStatuses == {"completed", "failed", "cancelled"}
TaskStatuses == RunStatuses \cup {"pending", "ready", "orphaned", "skipped"}

ASSUME MaxParallelAssumption == MaxParallel \in Nat \ {0}
ASSUME DurationsAssumption == Durations \subseteq Nat \ {0}
ASSUME NotesAssumption == Notes \cap Tasks = {}
ASSUME ObservedAssumption == Observed \subseteq TaskStatuses
ASSUME BoundsAssumption == MaxGeneration \in Nat /\ MaxTime \in Nat

VARIABLES
    generation,  \* snapshot["generation"]
    status,      \* snapshot["status"]
    taskStatus,  \* snapshot["tasks"][t]["status"], "pending" when absent
    leases,      \* snapshot["leases"]
    attempts,    \* snapshot["attempts"]
    reports,     \* snapshot["reports"]
    events,      \* snapshot["events"]
    now,         \* the wall clock
    issued       \* every lease token a caller was ever handed (history)

store == <<generation, status, taskStatus, leases, attempts, reports, events>>
vars == <<generation, status, taskStatus, leases, attempts, reports, events, now, issued>>

Lease == [generation : Nat, expires : Nat]
NoLease == [generation |-> 0, expires |-> 0]
Report == [status : ReportStatuses \cup {"none"}, attempt : Nat, generation : Nat]
NoReport == [status |-> "none", attempt |-> 0, generation |-> 0]
Token == [task : Tasks, generation : Nat, expires : Nat]
Event == [id : Tasks \cup Notes, status : ReportStatuses \cup {"none"}]

Leased(t) == leases[t] # NoLease
Reported(t) == reports[t].status # "none"

(* Mutant: a lease runs out one unit early.                                *)
ActiveEarly(t) == Leased(t) /\ leases[t].expires > now + 1

(* An expired lease stays in the snapshot but holds nobody up.             *)
Active(t) == Leased(t) /\ leases[t].expires > now

(* The check of claim and claim_many: by task status or by report.         *)
Terminal(t) ==
    \/ taskStatus[t] \in TerminalTaskStatuses
    \/ reports[t].status \in TerminalTaskStatuses

(* Mutant: any unexpired lease of the task will do.                        *)
CheckAnyToken(k) == Active(k.task)

(* FleetRunStore._check_token: the token is the lease in force and the     *)
(* lease has not expired.                                                  *)
CheckToken(k) ==
    /\ leases[k.task] = [generation |-> k.generation, expires |-> k.expires]
    /\ leases[k.task].expires > now

Init ==
    /\ generation = 0
    /\ status = "created"
    /\ taskStatus = [t \in Tasks |-> "pending"]
    /\ leases = [t \in Tasks |-> NoLease]
    /\ attempts = [t \in Tasks |-> 0]
    /\ reports = [t \in Tasks |-> NoReport]
    /\ events = <<>>
    /\ now = 0
    /\ issued = {}

(* The end of every mutation: _mutate increments the generation.           *)
Bump ==
    /\ generation < MaxGeneration
    /\ generation' = generation + 1

-----------------------------------------------------------------------------
(* FleetRunStore.transition                                                *)
Transition(s) ==
    /\ status \in TerminalRunStatuses => s = status
    /\ status' = s
    /\ Bump
    /\ UNCHANGED <<taskStatus, leases, attempts, reports, events, now, issued>>

(* Mutant: a committed task can be given another status.                   *)
UpdateCommitted(t, s) ==
    /\ taskStatus' = [taskStatus EXCEPT ![t] = s]
    /\ leases' = [leases EXCEPT ![t] = NoLease]
    /\ Bump
    /\ UNCHANGED <<status, attempts, reports, events, now, issued>>

(* FleetRunStore.update_task_status: fences the task's lease, if any.      *)
UpdateTaskStatus(t, s) ==
    /\ ~Reported(t)
    /\ taskStatus' = [taskStatus EXCEPT ![t] = s]
    /\ leases' = [leases EXCEPT ![t] = NoLease]
    /\ Bump
    /\ UNCHANGED <<status, attempts, reports, events, now, issued>>

(* FleetRunStore.append_event                                              *)
AppendEvent(id) ==
    /\ events' = Append(events, [id |-> id, status |-> "none"])
    /\ Bump
    /\ UNCHANGED <<status, taskStatus, leases, attempts, reports, now, issued>>

(* The events that append_terminal_event_if_absent takes for the task's    *)
(* terminal event.                                                         *)
TerminalEvents(t) == { i \in DOMAIN events : events[i].id = t }

(* Mutant: the event is appended whether it is there or not.               *)
AppendTerminalAgain(t) ==
    /\ reports[t].status \in ReportStatuses
    /\ events' = Append(events, [id |-> t, status |-> reports[t].status])
    /\ Bump
    /\ UNCHANGED <<status, taskStatus, leases, attempts, reports, now, issued>>

(* FleetRunStore.append_terminal_event_if_absent.  When the event is       *)
(* there, or conflicts, nothing is written.                                *)
AppendTerminalEvent(t) ==
    /\ reports[t].status \in ReportStatuses
    /\ TerminalEvents(t) = {}
    /\ events' = Append(events, [id |-> t, status |-> reports[t].status])
    /\ Bump
    /\ UNCHANGED <<status, taskStatus, leases, attempts, reports, now, issued>>

-----------------------------------------------------------------------------

(* The lease that claim, claim_many and renew install.                     *)
NewLease(d) == [generation |-> generation + 1, expires |-> now + d]
NewToken(t, d) == [task |-> t, generation |-> generation + 1, expires |-> now + d]

(* FleetRunStore.claim: one task, without the capacity check.              *)
Claim(t, d) ==
    /\ ~Terminal(t)
    /\ ~Active(t)
    /\ leases' = [leases EXCEPT ![t] = NewLease(d)]
    /\ attempts' = [attempts EXCEPT ![t] = @ + 1]
    /\ issued' = issued \cup {NewToken(t, d)}
    /\ Bump
    /\ UNCHANGED <<status, taskStatus, reports, events, now>>

(* What claim_many keeps and what it reclaims.                             *)
Kept == { t \in Tasks : Active(t) }
Expired == { t \in Tasks : Leased(t) /\ ~Active(t) }

(* FleetRunStore.claim_many(ids) when its selector answers chosen: every   *)
(* expired lease is dropped, of whatever task, and chosen is leased.  With *)
(* nothing chosen the drop alone is written; with nothing expired either,  *)
(* nothing is.                                                             *)
ClaimMany(ids, chosen, d) ==
    /\ \A t \in ids : ~Terminal(t)
    /\ Cardinality(Kept) < MaxParallel
    /\ chosen \subseteq ids \ Kept
    /\ Cardinality(chosen) <= MaxParallel - Cardinality(Kept)
    /\ chosen # {} \/ Expired # {}
    /\ leases' = [t \in Tasks |->
           IF t \in chosen THEN NewLease(d)
           ELSE IF t \in Kept THEN leases[t] ELSE NoLease]
    /\ attempts' = [t \in Tasks |-> IF t \in chosen THEN attempts[t] + 1 ELSE attempts[t]]
    /\ issued' = issued \cup { NewToken(t, d) : t \in chosen }
    /\ Bump
    /\ UNCHANGED <<status, taskStatus, reports, events, now>>

(* FleetRunStore.renew: the old token is fenced, a new one handed out.     *)
Renew(k, d) ==
    /\ CheckToken(k)
    /\ leases' = [leases EXCEPT ![k.task] = NewLease(d)]
    /\ issued' = issued \cup {NewToken(k.task, d)}
    /\ Bump
    /\ UNCHANGED <<status, taskStatus, attempts, reports, events, now>>

(* FleetRunStore.commit.  A task that has a report is never written again: *)
(* the same lease and content is answered without a write, anything else   *)
(* raises.                                                                 *)
Commit(k, s) ==
    /\ ~Reported(k.task)
    /\ CheckToken(k)
    /\ reports' = [reports EXCEPT ![k.task] =
           [status |-> s, attempt |-> attempts[k.task], generation |-> k.generation]]
    /\ taskStatus' = [taskStatus EXCEPT ![k.task] = s]
    /\ leases' = [leases EXCEPT ![k.task] = NoLease]
    /\ Bump
    /\ UNCHANGED <<status, attempts, events, now, issued>>

(* LeaseScheduler.release                                                  *)
Release(k) ==
    /\ CheckToken(k)
    /\ leases' = [leases EXCEPT ![k.task] = NoLease]
    /\ Bump
    /\ UNCHANGED <<status, taskStatus, attempts, reports, events, now, issued>>

(* The mutation of LeaseScheduler.recover_stale for one task, with the     *)
(* time it sampled and the generation it read before: a lease renewed or   *)
(* replaced since is left, but the generation is incremented all the same. *)
DropStale(t, sampled, expected) ==
    /\ generation = expected /\ Leased(t)
    /\ leases' = [leases EXCEPT ![t] = IF @.expires <= sampled THEN NoLease ELSE @]
    /\ Bump
    /\ UNCHANGED <<status, taskStatus, attempts, reports, events, now, issued>>

(* The wall clock is set by the host: it may jump either way.              *)
SetClock ==
    /\ now' \in 0..MaxTime
    /\ now' # now
    /\ UNCHANGED <<store, issued>>

Next ==
    \/ \E s \in RunStatuses : Transition(s)
    \/ \E t \in Tasks :
          \/ \E s \in Observed : UpdateTaskStatus(t, s)
          \/ AppendTerminalEvent(t)
          \/ \E d \in Durations : Claim(t, d)
          \/ \E sampled \in 0..MaxTime : DropStale(t, sampled, generation)
    \/ \E id \in Notes : AppendEvent(id)
    \/ \E ids \in SUBSET Tasks : \E chosen \in SUBSET ids, d \in Durations :
          ClaimMany(ids, chosen, d)
    \/ \E k \in issued :
          \/ \E d \in Durations : Renew(k, d)
          \/ \E s \in ReportStatuses : Commit(k, s)
          \/ Release(k)
    \/ SetClock

Spec == Init /\ [][Next]_vars

-----------------------------------------------------------------------------
(* Every part of the snapshot has the shape _validate demands.             *)
TypeOK ==
    /\ generation \in Nat
    /\ status \in RunStatuses
    /\ taskStatus \in [Tasks -> TaskStatuses]
    /\ leases \in [Tasks -> Lease]
    /\ attempts \in [Tasks -> Nat]
    /\ reports \in [Tasks -> Report]
    /\ events \in Seq(Event)
    /\ now \in Nat
    /\ issued \in SUBSET Token

(* Fencing: of all the tokens ever handed out for a task, only the newest  *)
(* can be in force, and only the newest can have committed the report; a   *)
(* worker that lost its lease and wakes up late never gets its result in.  *)
FencedByNewest ==
    \A k \in issued :
        /\ Leased(k.task) => k.generation <= leases[k.task].generation
        /\ Reported(k.task) => k.generation <= reports[k.task].generation

(* A committed task is out of the scheduler's hands: no lease, the status  *)
(* of its report, and the attempt that was current when it was committed.  *)
ReportIsFinal ==
    \A t \in Tasks : Reported(t) =>
        /\ ~Leased(t)
        /\ taskStatus[t] = reports[t].status
        /\ reports[t].attempt = attempts[t] /\ attempts[t] >= 1
        /\ \E k \in issued : k.task = t /\ k.generation = reports[t].generation

(* The audit trail holds one terminal event per task at most, only for a   *)
(* committed task and with the status of its report, although the event is *)
(* appended by a separate call that may be repeated or never made.         *)
TerminalEventOnce ==
    \A t \in Tasks : \A i \in TerminalEvents(t) :
        /\ events[i].status = reports[t].status
        /\ TerminalEvents(t) = {i}

(* The generation identifies the snapshot: nothing changes under an        *)
(* unchanged generation (expected_generation would not notice), and a      *)
(* report, once there, is never changed nor is its task tried again.       *)
GenerationIdentifies ==
    [][ /\ generation' = generation => UNCHANGED store
        /\ generation' >= generation
        /\ \A t \in Tasks : Reported(t) =>
               reports'[t] = reports[t] /\ attempts'[t] = attempts[t] ]_vars

(* events is append-only, whatever the operation (module docstring).       *)
AuditAppendOnly ==
    [][ /\ Len(events') >= Len(events)
        /\ SubSeq(events', 1, Len(events)) = events ]_vars
=============================================================================
