---------------------------- MODULE Supervision ----------------------------
(***************************************************************************)
(* What watches a run from outside: "pd fleet-supervisor-readiness", which *)
(* diagnoses the event log (event_diagnostics.py), then compares it with   *)
(* the snapshot of the run store (run_event_reconciliation.py) and puts    *)
(* both together with the supervisor's verdict on a worker (supervision.py,*)
(* supervisor.py, readiness.py); and the handoffs that lanes leave for     *)
(* their successors (handoff.py).                                          *)
(*                                                                         *)
(* The command takes no lock and reads log, store, log and directory one   *)
(* after the other while recorders append; the log only grows, so a read   *)
(* of it is remembered as its length.                                      *)
(***************************************************************************)
EXTENDS EventLog, FiniteSets

CONSTANTS
    Lanes,       \* processes that leave handoffs
    Owners,      \* values of --owner-epoch
    Limit,       \* --limit, at most MAX_QUERY
    Healths,     \* health snapshots of workers
    Reasons,     \* HandoffReason
    Contents     \* what a handoff says

NoOwner == 0     \* an EventLog or HandoffStore without owner_epoch

\* HealthSnapshot and its HealthSignal; an age is none, or on one side of
\* the thresholds it is compared with.
HealthSnapshot ==
    [epoch : Epochs, liveness : {"alive", "missing", "unknown"},
     readiness : {"ready", "not_ready", "unknown"},
     progress : {"advanced", "stalled", "unknown"},
     health : {"healthy", "degraded", "failed", "unknown"},
     beat : {"none", "fresh", "suspect", "long"}, advance : {"none", "recent", "slow"}]

ASSUME SupervisionAssumption ==
    /\ Limit \in Nat \ {0} /\ Epochs \subseteq Nat \ {NoOwner}
    /\ Owners \subseteq Epochs \cup {NoOwner}
    /\ Healths \subseteq HealthSnapshot

VARIABLES
    store,      \* event_sequence of the run store's snapshot; -1 without one
    reader,     \* the readiness command in progress
    handoffs,   \* the files of the handoff store
    lane,       \* the artifact each lane is about to install, or None
    handed      \* handoffs the store returned to somebody (history)

supVars == <<logVars, store, reader, handoffs, lane, handed>>

(***************************************************************************)
(* diagnose_event_log: Raises where it raises EventError.                  *)
(***************************************************************************)
Raises(events, owner) ==
    owner # NoOwner /\ \E i \in DOMAIN events : events[i].epoch # owner

Broken(events) ==
    \E i, j \in DOMAIN events :
        /\ i < j /\ events[i].task = events[j].task /\ events[i].task \in Tasks
        /\ \A k \in i + 1 .. j - 1 : events[k].task # events[i].task
        /\ events[j].move[1] # events[i].move[2]

\* A float, be it 2.0, is no integer here, and then gaps are not looked for.
NonInteger(events) == \E i \in DOMAIN events : events[i].seq.float

Gaps(events) ==
    \E i \in 1 .. Len(events) - 1 : events[i + 1].seq.whole > events[i].seq.whole + 1

\* Duplicate and non-monotonic numbers, which append keeps out of the log.
Disordered(events) == \E i \in 1 .. Len(events) - 1 : ~Less(events[i].seq, events[i + 1].seq)

\* Mutant: gaps are not looked for.
DiagnosisLoose(events) ==
    IF events = <<>> THEN "unknown"
    ELSE IF NonInteger(events) \/ Disordered(events) \/ Broken(events) THEN "degraded" ELSE "healthy"

Diagnosis(events) ==
    IF events = <<>> THEN "unknown"
    ELSE IF NonInteger(events) \/ Disordered(events) \/ Gaps(events) \/ Broken(events)
         THEN "degraded" ELSE "healthy"

(***************************************************************************)
(* reconcile_run_events and reconcile_missing_store.  The snapshot of a    *)
(* run holds as many events as its event_sequence says; that number and    *)
(* the last one of the log are compared by their value.                    *)
(***************************************************************************)
\* Mutant: the count alone is compared.
ReconciliationByCount(snapshot, events, exists, owner) ==
    IF snapshot = -1 /\ ~exists THEN "unknown"
    ELSE IF snapshot = -1 \/ ~exists \/ Raises(events, owner) \/ snapshot # Len(events)
         THEN "degraded" ELSE "consistent"

Reconciliation(snapshot, events, exists, owner) ==
    LET last == IF events = <<>> THEN [whole |-> 0, part |-> 0] ELSE events[Len(events)].seq
    IN IF snapshot = -1 /\ ~exists THEN "unknown"
       ELSE IF \/ snapshot = -1 \/ ~exists
               \/ Raises(events, owner)
               \/ ~(last.whole = snapshot /\ last.part = 0)
               \/ snapshot # Len(events)
            THEN "degraded" ELSE "consistent"

(***************************************************************************)
(* diagnose_snapshot, reconcile_snapshot and compose_readiness.            *)
(***************************************************************************)
WorkerStatus(h) ==
    IF h.health = "failed" THEN "failed"
    ELSE IF h.liveness = "missing"
         THEN IF h.beat = "long" THEN "needs_human_intervention" ELSE "suspected"
    ELSE IF h.readiness = "not_ready" THEN "blocked"
    ELSE IF h.progress = "stalled" THEN IF h.advance = "slow" THEN "slow" ELSE "suspected"
    ELSE IF h.health = "degraded" THEN "degraded"
    ELSE IF \/ "unknown" \in {h.liveness, h.readiness, h.progress, h.health}
            \/ h.beat \in {"suspect", "long"}
         THEN "suspected" ELSE "healthy"

Observed(h, desired, active) ==
    IF active # NoOwner /\ h.epoch # active THEN "blocked"
    ELSE IF desired = "running" THEN WorkerStatus(h)
    ELSE IF desired = "paused" /\ h.liveness = "alive" THEN "degraded"
    ELSE IF desired \in {"completed", "cancelled"} /\ h.progress # "advanced" THEN "blocked"
    ELSE "healthy"

\* The reports of FleetSupervisor.observe, and that there is none.
Reports ==
    {"none"} \cup
    {Observed(h, desired, active) : h \in Healths, active \in Epochs \cup {NoOwner},
                                    desired \in {"running", "paused", "completed"}}

Readiness(supervisor, event, reconciliation) ==
    IF supervisor \in {"blocked", "failed", "needs_human_intervention"} THEN "blocked"
    ELSE IF supervisor \in {"degraded", "slow"} \/ "degraded" \in {event, reconciliation} THEN "degraded"
    ELSE IF supervisor = "suspected" \/ "unknown" \in {event, reconciliation} THEN "unknown"
    ELSE "ready"

(***************************************************************************)
(* The run store and the command.                                          *)
(***************************************************************************)
Nobody == [pc |-> "idle", owner |-> NoOwner, event |-> "none", diagnosed |-> 0, snapshot |-> -1,
           replayed |-> 0, view |-> "none"]

Seen(n) == SubSeq(log, 1, n)

\* handoff_id is a hash of the lineage, of which the epoch is kept, and the
\* reason, not of the content.
HandoffId(epoch, reason) == <<epoch, reason>>

SupInit ==
    /\ LogInit
    /\ store = -1
    /\ reader = Nobody
    /\ handoffs = [id \in {HandoffId(epoch, reason) : epoch \in Epochs, reason \in Reasons} |-> {}]
    /\ lane = [r \in Lanes |-> {}]
    /\ handed = {}

\* create_run, and append_event of whoever writes to the store.
StoreWrites ==
    /\ store < MaxEvents
    /\ store' = store + 1
    /\ UNCHANGED <<logVars, reader, handoffs, lane, handed>>

Diagnose ==
    \E owner \in Owners :
        LET events == Replay(Limit)
        IN /\ reader.pc = "idle"
           /\ Readable /\ ~Raises(events, owner)
           /\ reader' = [Nobody EXCEPT !.pc = "load", !.owner = owner, !.event = Diagnosis(events),
                                       !.diagnosed = Len(events)]
           /\ UNCHANGED <<logVars, store, handoffs, lane, handed>>

LoadStore ==
    /\ reader.pc = "load"
    /\ reader' = [reader EXCEPT !.pc = "replay", !.snapshot = store]
    /\ UNCHANGED <<logVars, store, handoffs, lane, handed>>

ReplayLog ==
    /\ reader.pc = "replay"
    /\ reader' = IF Readable THEN [reader EXCEPT !.pc = "stat", !.replayed = Len(Replay(Limit))]
                 ELSE Nobody
    /\ UNCHANGED <<logVars, store, handoffs, lane, handed>>

\* The path of the log is looked at and the view is composed, with or
\* without a report on a worker.
Compose ==
    \E supervisor \in Reports :
        /\ reader.pc = "stat"
        /\ reader' = [reader EXCEPT !.pc = "done",
                !.view = Readiness(supervisor, reader.event,
                                   Reconciliation(reader.snapshot, Seen(reader.replayed), created,
                                                  reader.owner))]
        /\ UNCHANGED <<logVars, store, handoffs, lane, handed>>

Show ==
    /\ reader.pc = "done"
    /\ reader' = Nobody
    /\ UNCHANGED <<logVars, store, handoffs, lane, handed>>

(***************************************************************************)
(* The handoff store.  A lane holds the lock from the look at the file to  *)
(* the rename; the lane variable says so.                                  *)
(***************************************************************************)
Locked == \E r \in Lanes : lane[r] # {}

Owns(owner, epoch) == owner = NoOwner \/ owner = epoch

\* Mutant: the file is looked for before the lock is taken.
SaveHandoffUnlocked(r) ==
    \E owner \in Epochs \cup {NoOwner}, epoch \in Epochs, reason \in Reasons, content \in Contents :
        /\ Owns(owner, epoch) /\ lane[r] = {}
        /\ handoffs[HandoffId(epoch, reason)] = {}
        /\ lane' = [lane EXCEPT ![r] = {<<epoch, reason, content>>}]
        /\ UNCHANGED <<logVars, store, reader, handoffs, handed>>

SaveHandoff(r) ==
    \E owner \in Epochs \cup {NoOwner}, epoch \in Epochs, reason \in Reasons, content \in Contents :
        /\ Owns(owner, epoch) /\ ~Locked
        /\ handoffs[HandoffId(epoch, reason)] = {}
        /\ lane' = [lane EXCEPT ![r] = {<<epoch, reason, content>>}]
        /\ UNCHANGED <<logVars, store, reader, handoffs, handed>>

\* The same again is told that it is there, something else is refused.
SaveAgain ==
    \E owner \in Epochs \cup {NoOwner}, epoch \in Epochs, reason \in Reasons, content \in Contents :
        /\ Owns(owner, epoch) /\ ~Locked
        /\ handoffs[HandoffId(epoch, reason)] = {content}
        /\ handed' = handed \cup {<<epoch, reason, content>>}
        /\ UNCHANGED <<logVars, store, reader, handoffs, lane>>

\* The file is renamed into place and the call returns, or not: the sync of
\* the directory may fail, and the lane may be killed.
InstallHandoff(r) ==
    \E artifact \in lane[r], returned \in BOOLEAN :
        /\ handoffs' = [handoffs EXCEPT ![HandoffId(artifact[1], artifact[2])] = {artifact[3]}]
        /\ handed' = IF returned THEN handed \cup {artifact} ELSE handed
        /\ lane' = [lane EXCEPT ![r] = {}]
        /\ UNCHANGED <<logVars, store, reader>>

AbortHandoff(r) ==
    /\ lane[r] # {}
    /\ lane' = [lane EXCEPT ![r] = {}]
    /\ UNCHANGED <<logVars, store, reader, handoffs, handed>>

\* load, also by "pd fleet-handoff-preview", takes no lock.
LoadHandoff ==
    \E owner \in Epochs \cup {NoOwner}, id \in DOMAIN handoffs :
        /\ Owns(owner, id[1])
        /\ handed' = handed \cup {<<id[1], id[2], content>> : content \in handoffs[id]}
        /\ UNCHANGED <<logVars, store, reader, handoffs, lane>>

SupNext ==
    \/ LogNext /\ UNCHANGED <<store, reader, handoffs, lane, handed>>
    \/ StoreWrites \/ Diagnose \/ LoadStore \/ ReplayLog \/ Compose \/ Show
    \/ \E r \in Lanes : SaveHandoff(r) \/ InstallHandoff(r) \/ AbortHandoff(r)
    \/ SaveAgain \/ LoadHandoff

SupSpec == SupInit /\ [][SupNext]_supVars

-----------------------------------------------------------------------------
(***************************************************************************)
(* Properties                                                              *)
(***************************************************************************)
Contiguous(events) ==
    \A i \in DOMAIN events :
        /\ events[i].seq.part = 0 /\ ~events[i].seq.float
        /\ events[i].seq.whole = events[1].seq.whole + i - 1

\* A diagnosis of a log that fits into the limit is called healthy only if
\* all of it comes from the owner asked about, it is numbered in integers
\* with none missing between the first and the last, and each task went on
\* from where the event before had left it; a second owner or a lost number
\* never passes.
HealthyIsComplete ==
    \A owner \in Epochs :
        /\ ~Raises(log, owner) /\ Len(log) <= Limit /\ Diagnosis(Replay(Limit)) = "healthy"
        => /\ Contiguous(log)
           /\ \A i \in DOMAIN log : log[i].epoch = owner
           /\ \A t \in Tasks : \A i, j \in DOMAIN log :
                 /\ i < j /\ log[i].task = t /\ log[j].task = t
                 => \E k \in i .. j - 1 : log[k].task = t /\ log[k].move[2] = log[j].move[1]

\* "ready" from reads of four different moments: what was diagnosed has
\* integers without a gap; what was replayed, which is no less, is as much as
\* the store's snapshot had, comes from no other owner and ends in that very
\* number.  Only what was appended after the diagnosis can hide something: of
\* the integers from 0 to there exactly one is not there and, as events.py and
\* lifecycle_events.py take any number for a sequence, one more for every
\* fraction (1, 1.5 and 3 are ready without 0 and 2).
ReadyIsJustified ==
    reader.view = "ready" =>
        LET n == reader.snapshot
            replayed == Seen(reader.replayed)
            fractions == {i \in DOMAIN replayed : replayed[i].seq.part # 0}
            there == {replayed[i].seq.whole : i \in DOMAIN replayed \ fractions}
        IN /\ n > 0 /\ n <= store /\ reader.replayed = n
           /\ Contiguous(Seen(reader.diagnosed)) /\ reader.diagnosed \in 1 .. n
           /\ \A i \in fractions : i > reader.diagnosed
           /\ n \in there /\ Cardinality(0 .. n \ there) = 1 + Cardinality(fractions)
           /\ reader.owner # NoOwner =>
                 \A i \in DOMAIN replayed : replayed[i].epoch = reader.owner

\* Lanes that save a handoff of the same lineage for the same reason at the
\* same time, are killed or try again: everybody who is given the handoff is
\* given the same one, and it stays.
HandoffsAgree ==
    \A h \in handed : handoffs[HandoffId(h[1], h[2])] = {h[3]}
=============================================================================
